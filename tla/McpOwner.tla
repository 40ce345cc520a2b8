------------------------------ MODULE McpOwner ------------------------------
(***************************************************************************)
(* The owner admission model of src/scripts/mcp_owner_model.py: one MCP    *)
(* connection owner, one invocation and its ledger entry.  An event of the *)
(* script is an action here; an event the script ignores is a stuttering   *)
(* step.  The transport (phase) can close at any moment; what was already  *)
(* admitted lives on in the ledger and still runs to its end.              *)
(***************************************************************************)
EXTENDS Integers

CONSTANTS
  Times,           \* the clock samples (TIMES)
  SetupDeadline,   \* 30 in the script
  RequestDuration, \* 10
  SessionEnd       \* 60

ASSUME ClockAssumption ==
  /\ Times \subseteq Nat
  /\ SetupDeadline \in Nat \ {0} /\ SessionEnd \in Nat \ {0}
  /\ RequestDuration \in Nat \ {0}

VARIABLES
  phase,       \* SETUP, READY or CLOSED: the transport
  operation,   \* SETUP, IDLE, PROTECTED or DONE
  ledger,      \* the durable entry of the invocation
  now,
  deadline,    \* of setup, later of the protected operation
  admitted,    \* final admission was granted
  effects,     \* how often the tool ran
  published    \* the response went out

vars == <<phase, operation, ledger, now, deadline, admitted, effects, published>>

TypeOK ==
  /\ phase \in {"SETUP", "READY", "CLOSED"}
  /\ operation \in {"SETUP", "IDLE", "PROTECTED", "DONE"}
  /\ ledger \in {"ABSENT", "RESERVED", "EXECUTING", "COMPLETED", "UNKNOWN"}
  /\ now \in Nat /\ deadline \in Nat
  /\ admitted \in BOOLEAN /\ published \in BOOLEAN
  /\ effects \in {0, 1}

Init ==
  /\ phase = "SETUP" /\ operation = "SETUP" /\ ledger = "ABSENT"
  /\ now = 0 /\ deadline = SetupDeadline
  /\ admitted = FALSE /\ effects = 0 /\ published = FALSE

ExpiredAt(t) ==
  t >= SessionEnd \/ (operation \in {"SETUP", "PROTECTED"} /\ t >= deadline)

Expired == ExpiredAt(now)

-----------------------------------------------------------------------------
(* Events that do not ask whether the owner is open.                       *)

\* A clock sample: going backwards closes, reaching a deadline closes.
Tick(t) ==
  /\ IF t < now THEN now' = now /\ phase' = "CLOSED"
     ELSE now' = t /\ phase' = IF ExpiredAt(t) THEN "CLOSED" ELSE phase
  /\ UNCHANGED <<operation, ledger, deadline, admitted, effects, published>>

\* `close' and `invalidate'.
Close ==
  /\ phase' = "CLOSED"
  /\ UNCHANGED <<operation, ledger, now, deadline, admitted, effects, published>>

\* Mutant: recovery takes an interrupted execution for a free reservation.
CrashForgets ==
  /\ phase' = "CLOSED"
  /\ ledger' = IF ledger = "EXECUTING" THEN "RESERVED" ELSE ledger
  /\ UNCHANGED <<operation, now, deadline, admitted, effects, published>>

\* An execution that a crash interrupts has an unknown outcome.
Crash ==
  /\ phase' = "CLOSED"
  /\ ledger' = IF ledger = "EXECUTING" THEN "UNKNOWN" ELSE ledger
  /\ UNCHANGED <<operation, now, deadline, admitted, effects, published>>

\* Mutant: a reservation is enough to run the tool.
EffectWhenReserved ==
  /\ ledger \in {"RESERVED", "EXECUTING"} /\ effects = 0
  /\ effects' = 1
  /\ UNCHANGED <<phase, operation, ledger, now, deadline, admitted, published>>

\* The admitted tool runs, even after the transport closed.
Effect ==
  /\ ledger = "EXECUTING" /\ effects = 0
  /\ effects' = 1
  /\ UNCHANGED <<phase, operation, ledger, now, deadline, admitted, published>>

Finish ==
  /\ ledger = "EXECUTING" /\ effects = 1
  /\ ledger' = "COMPLETED"
  /\ UNCHANGED <<phase, operation, now, deadline, admitted, effects, published>>

-----------------------------------------------------------------------------
(* Events of an open owner; an expired one closes instead.                 *)

WhileOpen(Event) == phase # "CLOSED" /\ IF Expired THEN Close ELSE Event

SetupDone == WhileOpen(
  /\ phase = "SETUP"
  /\ phase' = "READY" /\ operation' = "IDLE"
  /\ UNCHANGED <<ledger, now, deadline, admitted, effects, published>>)

\* Mutant: a second submission restarts the clock of the first.
Resubmit == WhileOpen(
  /\ phase = "READY" /\ operation \in {"IDLE", "PROTECTED"}
  /\ operation' = "PROTECTED" /\ deadline' = now + RequestDuration
  /\ UNCHANGED <<phase, ledger, now, admitted, effects, published>>)

Submit == WhileOpen(
  /\ phase = "READY" /\ operation = "IDLE"
  /\ operation' = "PROTECTED" /\ deadline' = now + RequestDuration
  /\ UNCHANGED <<phase, ledger, now, admitted, effects, published>>)

Reserve == WhileOpen(
  /\ operation = "PROTECTED" /\ ledger = "ABSENT"
  /\ ledger' = "RESERVED"
  /\ UNCHANGED <<phase, operation, now, deadline, admitted, effects, published>>)

\* Mutant: admission reads the reservation but not whether the owner closed.
AdmitAfterClose ==
  /\ operation = "PROTECTED" /\ ledger = "RESERVED"
  /\ ledger' = "EXECUTING" /\ admitted' = TRUE
  /\ UNCHANGED <<phase, operation, now, deadline, effects, published>>

Admit == WhileOpen(
  /\ phase = "READY" /\ operation = "PROTECTED" /\ ledger = "RESERVED"
  /\ ledger' = "EXECUTING" /\ admitted' = TRUE
  /\ UNCHANGED <<phase, operation, now, deadline, effects, published>>)

Respond == WhileOpen(
  /\ ledger = "COMPLETED" /\ operation = "PROTECTED"
  /\ published' = TRUE /\ operation' = "DONE"
  /\ UNCHANGED <<phase, ledger, now, deadline, admitted, effects>>)

Next ==
  \/ \E t \in Times : Tick(t)
  \/ Close \/ Crash \/ Effect \/ Finish
  \/ SetupDone \/ Submit \/ Reserve \/ Admit \/ Respond

Spec == Init /\ [][Next]_vars

-----------------------------------------------------------------------------
(* Properties.                                                             *)

(***************************************************************************)
(* An owner past its current deadline, or past the session, is closed: so  *)
(* no event of an open owner is ever handled late (lines 37-38, 53-54).    *)
(***************************************************************************)
ExpiredIsClosed == Expired => phase = "CLOSED"

(***************************************************************************)
(* The ledger tells the whole story of the effect, whatever closes or      *)
(* crashes in between: an entry is past RESERVED exactly if the invocation *)
(* was admitted, the tool ran only if it was, COMPLETED says that it ran,  *)
(* and a response is out only for a COMPLETED entry (lines 41-50, 62-64).  *)
(***************************************************************************)
LedgerTellsTheEffect ==
  /\ admitted <=> ledger \in {"EXECUTING", "COMPLETED", "UNKNOWN"}
  /\ effects = 1 => admitted
  /\ ledger = "COMPLETED" => effects = 1
  /\ published => ledger = "COMPLETED" /\ operation = "DONE"

(***************************************************************************)
(* Admission is decided by an open owner in time, on a reservation, and is *)
(* never taken back; "Close ordered before that transition blocks effects" *)
(* (docs/mcp-owner-model.md:10-11, monitor lines 73-78).                   *)
(***************************************************************************)
AdmissionInTime ==
  [][/\ admitted => admitted'
     /\ admitted' /\ ~admitted =>
          /\ phase = "READY" /\ ledger = "RESERVED"
          /\ now < deadline /\ now < SessionEnd]_vars

(***************************************************************************)
(* The ledger only moves forward and a terminal outcome stays: an UNKNOWN  *)
(* invocation is never dispatched again (monitor lines 71-72, 79-85).      *)
(***************************************************************************)
Rank(l) == CASE l = "ABSENT" -> 0 [] l = "RESERVED" -> 1 [] l = "EXECUTING" -> 2
             [] l = "COMPLETED" -> 3 [] OTHER -> 4

LedgerMovesForward ==
  [][/\ ledger' # ledger => Rank(ledger') > Rank(ledger)
     /\ ledger \in {"COMPLETED", "UNKNOWN"} => UNCHANGED <<ledger, effects>>]_vars

(***************************************************************************)
(* A protected operation keeps the deadline of its submission, and its     *)
(* response leaves before that deadline from an owner that stayed open     *)
(* (monitor lines 86-91).                                                  *)
(***************************************************************************)
ResponseInTime ==
  [][/\ operation = "PROTECTED" => deadline' = deadline
     /\ published' /\ ~published =>
          phase = "READY" /\ now < deadline /\ now < SessionEnd]_vars

=============================================================================
