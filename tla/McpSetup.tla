------------------------------ MODULE McpSetup ------------------------------
(***************************************************************************)
(* The setup admission model of src/scripts/mcp_setup_model.py: one owner  *)
(* (client or server) brings an authenticated channel to READY through     *)
(* messages it sends and receives, within a deadline.  While one of its    *)
(* outputs is pending a single received frame may wait in `queued'; only   *)
(* after READY may a protected call be admitted.  Anything the table does  *)
(* not expect closes the owner for good.                                   *)
(***************************************************************************)
EXTENDS Integers, FiniteSets

CONSTANTS
  Limits,      \* possible capacities of the request-id history
  Ticks,       \* the clock samples
  Deadline     \* of setup, 30000 in the script

ASSUME SetupAssumption ==
  /\ Limits \subseteq Nat \ {0}
  /\ Ticks \subseteq Nat
  /\ Deadline \in Nat \ {0}

VARIABLES
  role,       \* client or server, fixed
  limit,      \* capacity of ids, fixed
  phase,
  target,     \* the phase a pending output leads to, "" for none
  queued,     \* the deferred frame, "" for none
  now,
  proofs,     \* setup evidence gathered so far
  ids,        \* request ids used up
  replay,     \* receives accepted so far
  admitted    \* a protected call was admitted

fixed == <<role, limit>>
slots == <<target, queued>>
memory == <<proofs, ids, replay, admitted>>
vars  == <<fixed, phase, slots, now, memory>>

Receives == {"initialize", "initialize_result", "initialized", "ack", "list",
             "listing", "bad_inner"}
Sends    == {"send_initialize", "send_initialized", "send_list"}
Proofs   == {"initialize", "initialized", "discovery"}
CallIds  == 0..2

\* Transition tables: where an event applies, where it leads, what it reserves
\* and what it proves.
ClientSends == [
  send_initialize  |-> [from |-> "CHANNEL_AUTHENTICATED", to |-> "WAIT_INITIALIZE", id |-> {0}],
  send_initialized |-> [from |-> "INITIALIZE_ACCEPTED", to |-> "WAIT_INITIALIZED_ACK", id |-> {}],
  send_list        |-> [from |-> "NEGOTIATED", to |-> "WAIT_DISCOVERY", id |-> {1}]]

ClientReceives == [
  initialize_result |-> [from |-> "WAIT_INITIALIZE", to |-> "INITIALIZE_ACCEPTED", proof |-> {"initialize"}],
  ack     |-> [from |-> "WAIT_INITIALIZED_ACK", to |-> "NEGOTIATED", proof |-> {"initialized"}],
  listing |-> [from |-> "WAIT_DISCOVERY", to |-> "READY", proof |-> {"discovery"}]]

ServerReceives == [
  initialize  |-> [from |-> "EXPECT_INITIALIZE", to |-> "WAIT_INITIALIZED", id |-> {0}, proof |-> {"initialize"}],
  initialized |-> [from |-> "WAIT_INITIALIZED", to |-> "DISCOVERY_ONLY", id |-> {}, proof |-> {"initialized"}],
  list        |-> [from |-> "DISCOVERY_ONLY", to |-> "READY", id |-> {1}, proof |-> {}]]

Phases == {"CHANNEL_AUTHENTICATED", "WAIT_INITIALIZE", "INITIALIZE_ACCEPTED",
           "WAIT_INITIALIZED_ACK", "NEGOTIATED", "WAIT_DISCOVERY",
           "EXPECT_INITIALIZE", "WAIT_INITIALIZED", "DISCOVERY_ONLY",
           "READY", "OUTPUT_PENDING", "CLOSED"}

TypeOK ==
  /\ role \in {"client", "server"} /\ limit \in Limits
  /\ phase \in Phases
  /\ target \in Phases \cup {""} /\ queued \in Receives \cup {""}
  /\ now \in Nat
  /\ proofs \subseteq Proofs /\ ids \subseteq CallIds /\ replay \subseteq Receives
  /\ admitted \in BOOLEAN

Init ==
  /\ role \in {"client", "server"} /\ limit \in Limits
  /\ phase = IF role = "client" THEN "CHANNEL_AUTHENTICATED" ELSE "EXPECT_INITIALIZE"
  /\ target = "" /\ queued = "" /\ now = 0
  /\ proofs = {} /\ ids = {} /\ replay = {} /\ admitted = FALSE

-----------------------------------------------------------------------------
Shut == phase' = "CLOSED" /\ target' = "" /\ queued' = ""

CloseWith == Shut /\ UNCHANGED <<fixed, now, memory>>

\* `close', `invalidate', `clock_failure', `rollback', `denied_call', and every
\* event that has no place in the present state: a send or a send report out of
\* turn, a call that may not be admitted, anything but `drain' over a deferred frame.
Close == phase # "CLOSED" /\ CloseWith

\* Mutant: a pending output suspends the setup deadline.
TickKeepsOutput(t) ==
  /\ phase # "CLOSED" /\ t >= now
  /\ now' = t
  /\ IF phase \notin {"READY", "OUTPUT_PENDING"} /\ t >= Deadline THEN Shut
     ELSE UNCHANGED <<phase, slots>>
  /\ UNCHANGED <<fixed, memory>>

\* A clock sample: backwards closes, and so does the deadline unless READY.
Tick(t) ==
  /\ phase # "CLOSED"
  /\ now' = IF t < now THEN now ELSE t
  /\ IF t < now \/ (phase # "READY" /\ t >= Deadline) THEN Shut
     ELSE UNCHANGED <<phase, slots>>
  /\ UNCHANGED <<fixed, memory>>

\* Everything below is an event of an open owner, which a passed deadline closes.
WhileOpen(Event) ==
  /\ phase # "CLOSED"
  /\ IF phase # "READY" /\ now >= Deadline THEN CloseWith ELSE Event

-----------------------------------------------------------------------------
(* A pending output.                                                       *)

\* The output is out: its target is reached (send_fail is a Close).
SendOk == WhileOpen(
  /\ phase = "OUTPUT_PENDING"
  /\ phase' = target /\ target' = ""
  /\ proofs' = IF target = "READY" THEN proofs \cup {"discovery"} ELSE proofs
  /\ UNCHANGED <<fixed, queued, now, ids, replay, admitted>>)

\* Mutant: a second frame replaces the deferred one.
DeferLast(e) == WhileOpen(
  /\ phase = "OUTPUT_PENDING"
  /\ queued' = e
  /\ UNCHANGED <<fixed, phase, target, now, memory>>)

\* One frame may wait for the output; a second one closes.
Defer(e) == WhileOpen(
  /\ phase = "OUTPUT_PENDING"
  /\ IF queued = "" THEN queued' = e /\ UNCHANGED <<fixed, phase, target, now, memory>>
     ELSE CloseWith)

-----------------------------------------------------------------------------
(* No output pending.                                                      *)

\* Mutant: the history of request ids takes one more than its capacity.
ReservableOverLimit(new) == new = {} \/ (new \cap ids = {} /\ Cardinality(ids) <= limit)

\* `reserve': the id is fresh and the history has room; {} reserves nothing.
Reservable(new) == new = {} \/ (new \cap ids = {} /\ Cardinality(ids) < limit)

\* The owner moves on, or closes because the id is used or the history is full.
\* Nothing else changes before the reservation but the replay marker.
Advance(to, pending, new, proof) ==
  IF Reservable(new)
  THEN /\ phase' = to /\ target' = pending /\ queued' = ""
       /\ ids' = ids \cup new /\ proofs' = proofs \cup proof
       /\ UNCHANGED <<fixed, now, admitted>>
  ELSE Shut /\ UNCHANGED <<fixed, now, proofs, ids, admitted>>

\* Mutant: an accepted frame leaves no replay marker.
AcceptForgets(e) ==
  /\ UNCHANGED replay
  /\ IF role = "client"
     THEN Advance(ClientReceives[e].to, "", {}, ClientReceives[e].proof)
     ELSE Advance("OUTPUT_PENDING", ServerReceives[e].to, ServerReceives[e].id,
                  ServerReceives[e].proof)

\* A frame in its place: a client moves on, a server owes an output first.
Accept(e) ==
  /\ replay' = replay \cup {e}
  /\ IF role = "client"
     THEN Advance(ClientReceives[e].to, "", {}, ClientReceives[e].proof)
     ELSE Advance("OUTPUT_PENDING", ServerReceives[e].to, ServerReceives[e].id,
                  ServerReceives[e].proof)

Expected(e) ==
  \/ role = "client" /\ e \in DOMAIN ClientReceives /\ ClientReceives[e].from = phase
  \/ role = "server" /\ e \in DOMAIN ServerReceives /\ ServerReceives[e].from = phase

\* A received frame: a replay closes; so does any other that has no place here,
\* after its marker is set.
Handle(e) ==
  IF e \in replay THEN CloseWith
  ELSE IF Expected(e) THEN Accept(e)
  ELSE /\ Shut /\ replay' = replay \cup {e}
       /\ UNCHANGED <<fixed, now, proofs, ids, admitted>>

Receive(e) == WhileOpen(phase # "OUTPUT_PENDING" /\ queued = "" /\ Handle(e))

Drain == WhileOpen(phase # "OUTPUT_PENDING" /\ queued # "" /\ Handle(queued))

Send(e) == WhileOpen(
  /\ phase # "OUTPUT_PENDING" /\ queued = ""
  /\ role = "client" /\ ClientSends[e].from = phase
  /\ Advance("OUTPUT_PENDING", ClientSends[e].to, ClientSends[e].id, {})
  /\ UNCHANGED replay)

\* Mutant: a call does not wait for a deferred frame.
CallOverQueue(i) == WhileOpen(
  /\ phase = "READY" /\ proofs = Proofs
  /\ Reservable({i})
  /\ ids' = ids \cup {i} /\ admitted' = TRUE
  /\ UNCHANGED <<fixed, phase, slots, now, proofs, replay>>)

\* A protected call: admitted only by a READY owner with a fresh id.
Call(i) == WhileOpen(
  /\ phase = "READY" /\ queued = "" /\ proofs = Proofs
  /\ Reservable({i})
  /\ ids' = ids \cup {i} /\ admitted' = TRUE
  /\ UNCHANGED <<fixed, phase, slots, now, proofs, replay>>)

Next ==
  \/ Close
  \/ \E t \in Ticks : Tick(t)
  \/ SendOk
  \/ \E e \in Receives : Defer(e) \/ Receive(e)
  \/ Drain
  \/ \E e \in Sends : Send(e)
  \/ \E i \in CallIds : Call(i)

Spec == Init /\ [][Next]_vars

-----------------------------------------------------------------------------
(* Properties.                                                             *)

(***************************************************************************)
(* READY is published only on the complete history of setup: all evidence, *)
(* both setup request ids used up and every frame of the peer accepted     *)
(* exactly in this owner's role (monitor lines 79-83).                     *)
(***************************************************************************)
ReadyIsEarned ==
  phase = "READY" =>
    /\ proofs = Proofs /\ {0, 1} \subseteq ids
    /\ IF role = "client" THEN DOMAIN ClientReceives \subseteq replay
       ELSE DOMAIN ServerReceives \subseteq replay

(***************************************************************************)
(* No owner is between the channel and READY at or past the setup          *)
(* deadline: no output, reply or deferred frame of setup is handled late   *)
(* (lines 37-39, monitor line 87).                                         *)
(***************************************************************************)
SetupInTime == phase \notin {"READY", "CLOSED"} => now < Deadline

(***************************************************************************)
(* An output is pending exactly while it has a target, and a closed owner  *)
(* holds on to neither an output nor a deferred frame (monitor line 86).   *)
(***************************************************************************)
SlotsAgree ==
  /\ target # "" <=> phase = "OUTPUT_PENDING"
  /\ phase = "CLOSED" => queued = ""

(***************************************************************************)
(* The request-id history stays within its capacity, and setup keeps its   *)
(* ids: an admitted call used another one, so that with room for the setup *)
(* ids only none is ever admitted (lines 26-28, vacuity check line 102).   *)
(***************************************************************************)
CapacityHolds ==
  /\ Cardinality(ids) <= limit
  /\ admitted => ids \ {0, 1} # {} /\ limit > 2

(***************************************************************************)
(* A call is admitted by a READY owner with all evidence, not past a frame *)
(* still deferred from setup (monitor lines 84-85).                        *)
(***************************************************************************)
AdmissionAfterSetup ==
  [][admitted' /\ ~admitted =>
       phase = "READY" /\ proofs = Proofs /\ queued = "" /\ ids # ids']_vars

(***************************************************************************)
(* A deferred frame is neither replaced nor dropped: it leaves its slot    *)
(* when it is processed, and marked, or when the owner closes (44-49).     *)
(***************************************************************************)
DeferredFrameIsKept ==
  [][queued # "" /\ queued' # queued =>
       queued' = "" /\ (phase' = "CLOSED" \/ queued \in replay' \ replay)]_vars

=============================================================================
