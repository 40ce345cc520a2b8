---------------------------- MODULE ProtectedPair ----------------------------
(***************************************************************************)
(* One pair of scripts/run_mcp_setup_interop.py: two peer processes (the   *)
(* bridges of adapters/mcp-bridge around a native core), two relay threads *)
(* that capture and forward their frames, and the runner that waits for    *)
(* the files they leave, judges the capture and cleans up.  A relay holds  *)
(* a pending reply until the responder has marked it settled, so that the  *)
(* fixture clock, a file the initiator advances before a retry, does not   *)
(* move too early.  The cores are external: correct, or with a named fault.*)
(***************************************************************************)
EXTENDS Integers, Sequences

CONSTANTS
  Setup,     \* setup frames of each direction (4)
  Calls,     \* attempts of the initiator (4); a relay takes Setup + Calls frames
  Modes,     \* kinds of pair that are tried
  Cores,     \* cores that are tried
  Crashing   \* peers that may die at any time

PairModes == {"setup", "protected", "server", "client"}  \* the last two are recoveries
CoreKinds == {"good", "slow", "never", "twice", "silent", "resends"}
Peers == {"client", "server"}
Ways == {"req", "resp"}

ASSUME ProtectedPairAssumption ==
  /\ Setup \in Nat \ {0} /\ Calls \in Nat \ {0}
  /\ Modes \subseteq PairModes /\ Cores \subseteq CoreKinds /\ Crashing \subseteq Peers

VARIABLES
  mode, core,
  main,      \* where the runner is
  poll,      \* wait_file: the file was missing, the processes are asked next
  why,       \* the error of the pair
  files,     \* in the pair's directory
  marker,    \* reply-settled: the number in it, 0 if there is none
  clock,     \* seconds the fixture clock was advanced
  at,        \* what each peer is doing
  attempts,  \* calls of the initiator
  at_sends,  \* clock of each send in the client journal
  replies,   \* of the responder to calls
  ledger,    \* states of the rows of the server journal
  effects,   \* of this process
  exit,      \* of each peer
  wire,      \* sent, not yet read by the relay
  out,       \* forwarded, not yet read by the target
  shut,      \* the relay has passed the end of stream on
  frames,    \* captured
  thread,    \* of each direction
  errors,    \* of the relays
  sockets,   \* the runner's are open
  late,      \* history: a deadline passed
  crashed,   \* history: a peer died
  written,   \* history: the file the runner waits for came after it looked
  got        \* history: frames each direction delivered

vars == <<mode, core, main, poll, why, files, marker, clock, at, attempts, at_sends,
          replies, ledger, effects, exit, wire, out, shut, frames, thread, errors,
          sockets, late, crashed, written, got>>

runner == <<main, poll, why, written>>
peers == <<at, exit, crashed>>
initiator == <<clock, attempts, at_sends>>
responder == <<marker, replies, ledger, effects>>
relays == <<shut, frames, thread, errors>>
fixed == <<mode, core>>

Protected == mode # "setup"
Complete == <<"RESERVED", "EXECUTING", "COMPLETED">>
Rendezvous == {"address", "client", "server"}     \* steps that wait for a file
FileOf(step) ==
  CASE step = "address" -> "address" [] step = "client" -> "client.json"
    [] OTHER -> "server.json"
Gone(p) == exit[p] # "none"
Other(w) == IF w = "req" THEN "server" ELSE "client"   \* who reads direction w

Init ==
  /\ mode \in Modes /\ core \in Cores
  /\ main = "address" /\ poll = FALSE /\ why = "none" /\ files = {}
  /\ marker = 0 /\ clock = 0
  /\ at = [p \in Peers |-> IF p = "server" THEN "start" ELSE "off"]
  /\ attempts = 0 /\ at_sends = <<>> /\ replies = 0 /\ effects = 0
  /\ ledger = IF mode \in {"server", "client"} THEN Complete ELSE <<>>
  /\ exit = [p \in Peers |-> "none"]
  /\ wire = [w \in Ways |-> <<>>] /\ out = wire /\ frames = wire
  /\ shut = [w \in Ways |-> FALSE] /\ thread = [w \in Ways |-> "off"]
  /\ errors = FALSE /\ sockets = TRUE
  /\ late = FALSE /\ crashed = FALSE /\ written = FALSE
  /\ got = [w \in Ways |-> 0]

-----------------------------------------------------------------------------
(* The initiator.                                                          *)

SendCall ==
  /\ at["client"] = "call"
  /\ clock' = attempts                       \* written before every retry
  /\ attempts' = attempts + 1
  /\ at_sends' = Append(at_sends, clock')
  /\ wire' = [wire EXCEPT !["req"] = Append(@, "call")]
  /\ at' = [at EXCEPT !["client"] = "await"]
  /\ UNCHANGED <<fixed, runner, files, responder, exit, out, relays, sockets, late,
                 crashed, got>>

SendSetup ==
  /\ at["client"] = "start"
  /\ wire' = [wire EXCEPT !["req"] = Append(@, "setup")]
  /\ at' = [at EXCEPT !["client"] = "await"]
  /\ UNCHANGED <<fixed, runner, files, initiator, responder, exit, out, relays,
                 sockets, late, crashed, got>>

\* What the initiator does with the reply it has read.
After(reply) ==
  IF reply = "setup" /\ got'["resp"] < Setup THEN "start"
  ELSE IF \/ reply = "setup" /\ (mode = "setup" \/ (mode = "client" /\ core # "resends"))
          \/ reply = "terminal" /\ mode # "client" THEN "report"
  ELSE IF reply = "setup" \/ (reply = "pending" /\ attempts < Calls) THEN "call"
  ELSE "fail"

ReadReply ==
  /\ at["client"] = "await" /\ out["resp"] # <<>>
  /\ got' = [got EXCEPT !["resp"] = @ + 1]
  /\ at' = [at EXCEPT !["client"] = After(Head(out["resp"]))]
  /\ out' = [out EXCEPT !["resp"] = Tail(@)]
  /\ UNCHANGED <<fixed, runner, files, initiator, responder, exit, wire, relays,
                 sockets, late, crashed>>

-----------------------------------------------------------------------------
(* The responder.                                                          *)

ReadRequest ==
  /\ at["server"] = "receive" /\ out["req"] # <<>>
  /\ LET call == Head(out["req"]) = "call" IN
       /\ at' = [at EXCEPT !["server"] = IF call THEN "reply" ELSE "setup"]
       /\ ledger' = IF call /\ (ledger = <<>> \/ core = "twice")
                      THEN Append(ledger, "RESERVED") ELSE ledger
  /\ got' = [got EXCEPT !["req"] = @ + 1]
  /\ out' = [out EXCEPT !["req"] = Tail(@)]
  /\ UNCHANGED <<fixed, runner, files, initiator, marker, replies, effects, exit, wire,
                 relays, sockets, late, crashed>>

\* The execution worker; a faulty core leaves out the row before the effect.
Execute ==
  /\ ledger # <<>> /\ ~Gone("server") /\ at["server"] # "stop"
  /\ \/ /\ ledger[Len(ledger)] = "RESERVED"
        /\ ledger' = IF core = "silent" THEN ledger ELSE Append(ledger, "EXECUTING")
        /\ effects' = effects + 1
        /\ core = "silent" => effects = 0
     \/ /\ ledger[Len(ledger)] = IF core = "silent" THEN "RESERVED" ELSE "EXECUTING"
        /\ effects > 0
        /\ ledger' = Append(ledger, "COMPLETED") /\ UNCHANGED effects
  /\ UNCHANGED <<fixed, runner, files, marker, initiator, replies, peers, wire, out,
                 relays, sockets, late, got>>

Verdict ==
  IF core = "never" \/ (core = "slow" /\ replies = 0) \/ ledger = <<>>
       \/ ledger[Len(ledger)] # "COMPLETED"
    THEN "pending" ELSE "terminal"

ReplySetup ==
  /\ at["server"] = "setup"
  /\ wire' = [wire EXCEPT !["resp"] = Append(@, "setup")]
  /\ at' = [at EXCEPT !["server"] =
              IF mode = "setup" /\ got["req"] = Setup THEN "report" ELSE "receive"]
  /\ UNCHANGED <<fixed, runner, files, initiator, responder, exit, out, relays,
                 sockets, late, crashed, got>>

Reply ==
  /\ at["server"] = "reply"
  /\ wire' = [wire EXCEPT !["resp"] = Append(@, Verdict)]
  /\ replies' = replies + 1
  /\ at' = [at EXCEPT !["server"] = IF mode = "protected" THEN "settle" ELSE "receive"]
  /\ UNCHANGED <<fixed, runner, files, initiator, marker, ledger, effects, exit, out,
                 relays, sockets, late, crashed, got>>

\* After the checks that follow a send; the first reply also waits for the
\* effect and for the completed record.
Settle ==
  /\ at["server"] = "settle"
  /\ replies = 1 => effects > 0 /\ ledger[Len(ledger)] = "COMPLETED"
  /\ marker' = replies
  /\ at' = [at EXCEPT !["server"] = "receive"]
  /\ UNCHANGED <<fixed, runner, files, initiator, replies, ledger, effects, exit, wire,
                 out, relays, sockets, late, crashed, got>>

EndOfStream ==
  /\ at["server"] = "receive" /\ out["req"] = <<>> /\ (shut["req"] \/ ~sockets)
  /\ at' = [at EXCEPT !["server"] =
              IF got["req"] >= Setup /\ effects = (IF mode = "protected" THEN 1 ELSE 0)
                THEN "report" ELSE "fail"]
  /\ UNCHANGED <<fixed, runner, files, initiator, responder, exit, wire, out, relays,
                 sockets, late, crashed, got>>

HangUp ==
  /\ at["client"] = "await" /\ out["resp"] = <<>> /\ (shut["resp"] \/ ~sockets)
  /\ at' = [at EXCEPT !["client"] = "fail"]
  /\ UNCHANGED <<fixed, runner, files, initiator, responder, exit, wire, out, relays,
                 sockets, late, crashed, got>>

-----------------------------------------------------------------------------
(* Both peers.                                                             *)

Listen ==
  /\ at["server"] = "start"
  /\ files' = files \cup {"address"}
  /\ at' = [at EXCEPT !["server"] = "receive"]
  /\ UNCHANGED <<fixed, runner, initiator, responder, exit, wire, out, relays, sockets,
                 late, crashed, got>>

Report(p) ==
  /\ at[p] = "report"
  /\ files' = files \cup {FileOf(p)}
  /\ at' = [at EXCEPT ![p] = IF Protected THEN "stop" ELSE "release"]
  /\ UNCHANGED <<fixed, runner, initiator, responder, exit, wire, out, relays, sockets,
                 late, crashed, got>>

\* The bridge of a protected pair finishes on its own, that of a setup pair
\* when it is released.  Both threads of a peer end with its process.
Leave(p) ==
  /\ at[p] \in {"stop", "fail"} \/ (at[p] = "release" /\ "release" \in files)
  /\ exit' = [exit EXCEPT ![p] = IF at[p] = "fail" THEN "bad" ELSE "good"]
  /\ at' = [at EXCEPT ![p] = "ended"]
  /\ UNCHANGED <<fixed, runner, files, initiator, responder, wire, out, relays, sockets,
                 late, crashed, got>>

Crash(p) ==
  /\ p \in Crashing /\ at[p] \notin {"off", "ended"}
  /\ exit' = [exit EXCEPT ![p] = "bad"] /\ at' = [at EXCEPT ![p] = "ended"]
  /\ crashed' = TRUE
  /\ UNCHANGED <<fixed, runner, files, initiator, responder, wire, out, relays, sockets,
                 late, got>>

-----------------------------------------------------------------------------
(* The relay threads.                                                      *)

Limit == IF Protected THEN Setup + Calls ELSE Setup
Source(w) == IF w = "req" THEN "client" ELSE "server"

\* settle_pending_reply holds only a pending reply of a protected pair.
Held(w, frame) == w = "resp" /\ mode = "protected" /\ frame = "pending"

Capture(w) ==
  /\ thread[w] = "read" /\ wire[w] # <<>> /\ sockets
  /\ wire' = [wire EXCEPT ![w] = Tail(@)]
  /\ IF Len(frames[w]) >= Limit
       THEN /\ errors' = TRUE /\ thread' = [thread EXCEPT ![w] = "ended"]
            /\ UNCHANGED frames
       ELSE /\ frames' = [frames EXCEPT ![w] = Append(@, Head(wire[w]))]
            /\ thread' = [thread EXCEPT ![w] = IF Held(w, Head(wire[w])) THEN "hold"
                                               ELSE "send"]
            /\ UNCHANGED errors
  /\ UNCHANGED <<fixed, runner, files, initiator, responder, peers, out, shut, sockets,
                 late, got>>

Expected == Len(frames["resp"]) - Setup

\* Mutant: any marker will do.
AnyMarker == marker >= 1

\* The marker the held reply waits for; an earlier one is polled again.
Settled == marker = Expected

LetGo ==
  /\ thread["resp"] = "hold" /\ Settled
  /\ thread' = [thread EXCEPT !["resp"] = "send"]
  /\ UNCHANGED <<fixed, runner, files, initiator, responder, peers, wire, out, shut,
                 frames, errors, sockets, late, got>>

GiveUp ==
  /\ thread["resp"] = "hold" /\ (marker > Expected \/ Gone("server") \/ late)
  /\ errors' = TRUE /\ thread' = [thread EXCEPT !["resp"] = "ended"]
  /\ UNCHANGED <<fixed, runner, files, initiator, responder, peers, wire, out, shut,
                 frames, sockets, late, got>>

\* What is sent to a peer that has gone is lost, or the send fails.
Forward(w) ==
  /\ thread[w] = "send" /\ sockets
  /\ \/ /\ out' = IF Gone(Other(w)) THEN out
                  ELSE [out EXCEPT ![w] = Append(@, frames[w][Len(frames[w])])]
        /\ thread' = [thread EXCEPT ![w] =
             IF ~Protected /\ Len(frames[w]) = Limit THEN "ended" ELSE "read"]
        /\ UNCHANGED errors
     \/ /\ Gone(Other(w))
        /\ thread' = [thread EXCEPT ![w] = "ended"] /\ errors' = TRUE /\ UNCHANGED out
  /\ UNCHANGED <<fixed, runner, files, initiator, responder, peers, wire, shut, frames,
                 sockets, late, got>>

\* A clean end of stream is passed on; that of a setup pair is an error.
PassEnd(w) ==
  /\ thread[w] = "read" /\ wire[w] = <<>> /\ Gone(Source(w)) /\ sockets
  /\ thread' = [thread EXCEPT ![w] = "ended"]
  /\ shut' = [shut EXCEPT ![w] = Protected] /\ errors' = (errors \/ ~Protected)
  /\ UNCHANGED <<fixed, runner, files, initiator, responder, peers, wire, out, frames,
                 sockets, late, got>>

\* The runner has closed the sockets.
Broken(w) ==
  /\ thread[w] \in {"read", "send"} /\ ~sockets
  /\ thread' = [thread EXCEPT ![w] = "ended"] /\ errors' = TRUE
  /\ UNCHANGED <<fixed, runner, files, initiator, responder, peers, wire, out, shut,
                 frames, sockets, late, got>>

-----------------------------------------------------------------------------
(* The runner.                                                             *)

Fail(reason) == main' = "kill" /\ why' = reason

Next1(step) ==
  CASE step = "address" -> "connect" [] step = "client" -> "server" [] OTHER -> "release"

\* wait_file looks for the file ...
Look ==
  /\ main \in Rendezvous /\ ~poll /\ ~late
  /\ IF FileOf(main) \in files THEN main' = Next1(main) /\ UNCHANGED poll
                               ELSE poll' = TRUE /\ UNCHANGED main
  /\ written' = FALSE
  /\ UNCHANGED <<fixed, why, files, initiator, responder, peers, wire, out, relays,
                 sockets, late, got>>

\* Mutant: any process that has ended is taken for the one that is awaited.
AskAll == \E p \in Peers : Gone(p)

\* ... and then asks the one process that writes it.
AskWriter == Gone(IF main = "client" THEN "client" ELSE "server")

Ask ==
  /\ poll
  /\ poll' = FALSE
  /\ IF AskWriter
       THEN Fail("exited before rendezvous") /\ written' = (FileOf(main) \in files)
       ELSE UNCHANGED <<main, why, written>>
  /\ UNCHANGED <<fixed, files, initiator, responder, peers, wire, out, relays, sockets,
                 late, got>>

\* The relays start when the initiator has connected.
Connect ==
  /\ main = "connect" /\ at["client"] = "off"
  /\ at' = [at EXCEPT !["client"] = "start"]
  /\ UNCHANGED <<fixed, runner, files, initiator, responder, exit, crashed, wire, out,
                 relays, sockets, late, got>>

Accept ==
  /\ main = "connect" /\ at["client"] # "off" /\ ~Gone("client")
  /\ thread' = [w \in Ways |-> "read"] /\ main' = "client"
  /\ UNCHANGED <<fixed, poll, why, written, files, initiator, responder, peers, wire,
                 out, shut, frames, errors, sockets, late, got>>

Release ==
  /\ main = "release"
  /\ files' = files \cup {"release"} /\ main' = "reap"
  /\ UNCHANGED <<fixed, poll, why, written, initiator, responder, peers, wire, out,
                 relays, sockets, late, got>>

Reap ==
  /\ main = "reap" /\ \A p \in Peers : Gone(p)
  /\ main' = "join"
  /\ UNCHANGED <<fixed, poll, why, written, files, initiator, responder, peers, wire,
                 out, relays, sockets, late, got>>

-----------------------------------------------------------------------------
(* What the capture, the journals and the observations must show.          *)

Count == Len(frames["req"]) - Setup

\* Mutant: the transitions of the journal are not compared.
WithoutLedger ==
  /\ Count \in 1..Calls /\ Len(frames["resp"]) = Setup + Count /\ attempts = Count
  /\ frames["resp"][Setup + Count] = "terminal"
  /\ \A n \in 1..(Count - 1) : frames["resp"][Setup + n] = "pending"
  /\ Len(at_sends) = Count /\ \A n \in 1..Count : at_sends[n] = n - 1

Validate ==
  /\ Count \in 1..Calls /\ Len(frames["resp"]) = Setup + Count /\ attempts = Count
  /\ frames["resp"][Setup + Count] = "terminal"
  /\ \A n \in 1..(Count - 1) : frames["resp"][Setup + n] = "pending"
  /\ ledger = Complete
  /\ Len(at_sends) = Count /\ \A n \in 1..Count : at_sends[n] = n - 1

ValidateRecovery ==
  /\ effects = 0 /\ ledger = Complete
  /\ IF mode = "server" THEN Validate /\ Count = 1
                        ELSE \A w \in Ways : Len(frames[w]) = Setup

Accepted ==
  /\ ~errors /\ \A w \in Ways : thread[w] = "ended"
  /\ \A p \in Peers : exit[p] = "good"
  /\ \A w \in Ways : Len(frames[w]) >= Setup
  /\ CASE mode = "setup" -> \A w \in Ways : Len(frames[w]) = Setup
       [] mode = "protected" -> Validate /\ effects = 1
       [] OTHER -> ValidateRecovery

\* The threads are joined, at most a second; then everything is compared.
Judge ==
  /\ main = "join" /\ ((\A w \in Ways : thread[w] = "ended") \/ late)
  /\ main' = "kill" /\ why' = IF Accepted THEN "passed" ELSE "rejected"
  /\ UNCHANGED <<fixed, poll, written, files, initiator, responder, peers, wire, out,
                 relays, sockets, late, got>>

\* The deadline of the pair, and the timeouts of accept and join.
Expire ==
  /\ ~late /\ main # "done" /\ late' = TRUE
  /\ UNCHANGED <<fixed, runner, files, initiator, responder, peers, wire, out, relays,
                 sockets, got>>

\* Mutant: the processes are waited for without a timeout.
TimeOutAtFiles ==
  /\ late /\ main \in Rendezvous \cup {"connect"}
  /\ Fail("timeout") /\ poll' = FALSE
  /\ UNCHANGED <<fixed, written, files, initiator, responder, peers, wire, out, relays,
                 sockets, late, got>>

TimeOut ==
  /\ late /\ main \in Rendezvous \cup {"connect", "reap"}
  /\ Fail("timeout") /\ poll' = FALSE
  /\ UNCHANGED <<fixed, written, files, initiator, responder, peers, wire, out, relays,
                 sockets, late, got>>

\* finally: both process groups are killed, the sockets closed, the threads joined.
Kill ==
  /\ main = "kill"
  /\ exit' = [p \in Peers |-> IF exit[p] = "none" /\ at[p] # "off" THEN "killed"
                              ELSE exit[p]]
  /\ at' = [p \in Peers |-> IF at[p] = "off" THEN "off" ELSE "ended"]
  /\ sockets' = FALSE /\ main' = "over"
  /\ UNCHANGED <<fixed, poll, why, written, files, initiator, responder, crashed, wire,
                 out, relays, late, got>>

Return ==
  /\ main = "over" /\ \A w \in Ways : thread[w] \in {"off", "ended"}
  /\ main' = "done"
  /\ UNCHANGED <<fixed, poll, why, written, files, initiator, responder, peers, wire,
                 out, relays, sockets, late, got>>

Done == main = "done" /\ UNCHANGED vars

Relay == LetGo \/ GiveUp \/ \E w \in Ways : Capture(w) \/ Forward(w) \/ PassEnd(w) \/ Broken(w)

Runner == Look \/ Ask \/ Connect \/ Accept \/ Release \/ Reap \/ Judge \/ TimeOut \/ Kill
            \/ Return

Next ==
  \/ SendCall \/ SendSetup \/ ReadReply \/ HangUp
  \/ ReadRequest \/ Execute \/ ReplySetup \/ Reply \/ Settle \/ EndOfStream \/ Listen
  \/ \E p \in Peers : Report(p) \/ Leave(p) \/ Crash(p)
  \/ Relay \/ Runner \/ Expire \/ Done

\* The runner and its threads run and its timers fire; a peer may stop for good.
Spec == Init /\ [][Next]_vars /\ WF_vars(Relay) /\ WF_vars(Runner) /\ WF_vars(Expire)

-----------------------------------------------------------------------------

(***************************************************************************)
(* "Do not advance the fixture clock until that exact reply has settled"   *)
(* (run_mcp_setup_interop.py:155-156): when the initiator has moved the    *)
(* clock k times, the responder has finished its work on reply k, although *)
(* the two share nothing but the frames and the relay between them.        *)
(***************************************************************************)
ClockWaits == mode = "protected" => marker >= clock

(***************************************************************************)
(* A pair that passes executed the operation once, journalled its three    *)
(* states, delivered every captured frame and nothing else, and lost no    *)
(* peer; a recovery that passes executed nothing and added no row.         *)
(***************************************************************************)
PassIsEarned ==
  why = "passed" =>
    /\ ~crashed /\ \A p \in Peers : exit[p] = "good"
    /\ \A w \in Ways : got[w] = Len(frames[w])
    /\ mode # "setup" => ledger = Complete
    /\ effects = IF mode = "protected" THEN 1 ELSE 0
    /\ mode = "client" => got["req"] = Setup

(***************************************************************************)
(* Correct peers in time pass, whatever the order of frames, files, exits  *)
(* and ends of stream: a sibling that has finished invalidates nothing     *)
(* (lines 225-226) and no hold of a reply stops the pair.  The exception   *)
(* is a peer that writes its file and exits between the look and the poll. *)
(***************************************************************************)
NoFalseAlarm ==
  main = "done" /\ core = "good" /\ ~crashed /\ ~late /\ ~written => why = "passed"

(***************************************************************************)
(* The error text of wait_file (line 149): a peer that is said to have     *)
(* exited before the rendezvous had not reached it.                        *)
(***************************************************************************)
ExitedBeforeRendezvous ==
  why = "exited before rendezvous" => ~written

(***************************************************************************)
(* Every pair ends, with both peers gone and both relays ended, even if a  *)
(* relay holds a reply its responder will never settle (lines 162-171 and  *)
(* 243-256, mcp_protected_support.py:48-51).                               *)
(***************************************************************************)
PairEnds == <>(main = "done" /\ \A p \in Peers : at[p] \in {"off", "ended"})

=============================================================================
