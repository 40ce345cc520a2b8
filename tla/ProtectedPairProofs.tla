------------------------- MODULE ProtectedPairProofs -------------------------
(***************************************************************************)
(* Theorems about ProtectedPair: the fixture clock waits for the           *)
(* responder, a pair that passes has earned it, and correct peers in time  *)
(* pass, for every number of setup frames and calls and every order of the *)
(* two peers, the two relay threads and the runner.                        *)
(*                                                                         *)
(* The argument is that one token goes round: the initiator sends its next *)
(* frame only after it has read the reply to the last one, so at most one  *)
(* frame is on its way through sockets, relays and responder.  Hence what  *)
(* is on its way answers the attempt in hand, and the number of captured   *)
(* replies tells the relay which settlement to wait for.  For correct      *)
(* peers the count is exact: while the initiator waits there is one frame, *)
(* and when it has finished there is none.                                 *)
(***************************************************************************)
EXTENDS ProtectedPair, SequenceTheorems, TLAPS

Frames == {"setup", "call", "pending", "terminal"}
Places == {"off", "start", "call", "await", "receive", "setup", "reply", "settle",
           "report", "release", "stop", "fail", "ended"}
Stages == Rendezvous \cup {"connect", "release", "reap", "join", "kill", "over", "done"}

InHand == {"hold", "send"}     \* a relay has a captured frame in its hands

TypeOK ==
  /\ mode \in PairModes /\ main \in Stages /\ poll \in BOOLEAN
  /\ marker \in Nat /\ clock \in Nat /\ attempts \in Nat /\ replies \in Nat
  /\ at \in [Peers -> Places] /\ exit \in [Peers -> {"none", "good", "bad", "killed"}]
  /\ wire \in [Ways -> Seq(Frames)] /\ out \in [Ways -> Seq(Frames)]
  /\ frames \in [Ways -> Seq(Frames)]
  /\ thread \in [Ways -> {"off", "read", "hold", "send", "ended"}]
  /\ got \in [Ways -> Nat]

\* Whose turn it is to send; the frames on their way in direction w.
Sending == at["client"] \in {"start", "call"}
Answering == at["server"] \in {"setup", "reply"}
Hand(w) == IF thread[w] \in InHand THEN 1 ELSE 0
Due == IF Answering THEN 1 ELSE 0
Queued(w) == Len(wire[w])
Captured(w) == Len(frames[w])
Waiting(w) == Len(out[w])
Carried(w) == Len(wire[w]) + Hand(w) + Len(out[w])

OneToken ==
  /\ Carried("req") <= 1 /\ Carried("resp") <= 1
  /\ Carried("req") = 0 \/ Carried("resp") = 0
  /\ Sending => ~Answering
  /\ Sending \/ Answering => Carried("req") = 0 /\ Carried("resp") = 0

\* What may be on its way in direction w: setup frames before the first call.
Fits(w, frame) ==
  IF attempts = 0 THEN frame = "setup"
                  ELSE frame \in (IF w = "req" THEN {"call"} ELSE {"pending", "terminal"})

Contents ==
  /\ \A w \in Ways :
       /\ \A i \in 1..Len(wire[w]) : Fits(w, wire[w][i])
       /\ \A i \in 1..Len(out[w]) : Fits(w, out[w][i])
       /\ thread[w] \in InHand => Len(frames[w]) > 0 /\ Fits(w, frames[w][Len(frames[w])])
  /\ at["server"] = "setup" => attempts = 0
  /\ at["server"] = "reply" => attempts > 0

\* Where the initiator is, by the replies it has read.
Turns ==
  /\ at["client"] = "off" => attempts = 0 /\ got["resp"] = 0 /\ ~Answering
                              /\ Carried("req") = 0 /\ Carried("resp") = 0
  /\ at["client"] = "start" => attempts = 0 /\ got["resp"] < Setup
  /\ at["client"] = "call" => got["resp"] = Setup + attempts /\ mode # "setup"
  /\ at["client"] = "await" =>
       IF attempts = 0 THEN got["resp"] < Setup ELSE got["resp"] = Setup + attempts - 1
  /\ at["client"] \in {"report", "release", "stop"} \/ exit["client"] = "good" =>
       got["resp"] >= Setup + attempts

\* Nothing is delivered that was not captured, nor answered that was not read.
Counts ==
  /\ \A w \in Ways : got[w] + Waiting(w) + Hand(w) <= Captured(w)
  /\ Captured("resp") + Queued("resp") + Due <= got["req"]

\* A pending reply has not passed the relay before it was settled.
Clock ==
  mode = "protected" =>
    /\ clock <= marker /\ marker <= replies
    /\ at["client"] = "call" => marker >= attempts
    /\ at["client"] = "await" =>
         /\ \A i \in 1..Len(out["resp"]) : out["resp"][i] = "pending" => marker >= attempts
         /\ thread["resp"] = "send" /\ frames["resp"][Len(frames["resp"])] = "pending" =>
              marker >= attempts

Quiet == mode = "setup" => attempts = 0 /\ ledger = <<>> /\ effects = 0

Exits ==
  /\ \A p \in Peers : exit[p] # "none" => at[p] = "ended"
  /\ crashed => \E p \in Peers : exit[p] = "bad"

RunnerInv ==
  /\ main \in {"address", "connect"} => \A w \in Ways : thread[w] = "off"
  /\ poll => main \in Rendezvous

Passed ==
  why = "passed" =>
    /\ main \in {"kill", "over", "done"}
    /\ \A w \in Ways : thread[w] = "ended"
    /\ \A p \in Peers : exit[p] = "good"
    /\ \A w \in Ways : got[w] = Len(frames[w])
    /\ mode # "setup" => ledger = Complete
    /\ effects = IF mode = "protected" THEN 1 ELSE 0
    /\ mode = "client" => got["req"] = Setup

IInv ==
  /\ TypeOK /\ OneToken /\ Contents /\ Turns /\ Counts /\ Clock /\ Quiet /\ Exits
  /\ RunnerInv /\ Passed

-----------------------------------------------------------------------------
(* Type correctness.                                                       *)

LEMMA TypeInit ==
  ASSUME ProtectedPairAssumption, Init PROVE TypeOK
<1> USE DEF Peers, Ways, Places, Stages, Rendezvous
<1>1. mode \in PairModes
  BY DEF ProtectedPairAssumption, Init
<1>2. at \in [Peers -> Places] /\ exit \in [Peers -> {"none", "good", "bad", "killed"}]
  BY DEF Init
<1>3. wire \in [Ways -> Seq(Frames)]
  BY DEF Init
<1>4. out = wire /\ frames = wire
  BY DEF Init
<1>5. thread \in [Ways -> {"off", "read", "hold", "send", "ended"}] /\ got \in [Ways -> Nat]
  BY DEF Init
<1> QED BY <1>1, <1>2, <1>3, <1>4, <1>5 DEF Init, TypeOK

\* Every action keeps the types; a relay forwards only a frame it has captured.
LEMMA TypeStep ==
  ASSUME ProtectedPairAssumption, TypeOK, Contents, Next
  PROVE  TypeOK'
<1> USE DEF fixed, runner, peers, initiator, responder, relays, vars, Peers, Ways,
    Frames, Places, Stages, Rendezvous
<1>1. CASE SendCall
  BY <1>1 DEF SendCall, TypeOK
<1>2. CASE SendSetup
  BY <1>2 DEF SendSetup, TypeOK
<1>3. CASE ReadReply
  BY <1>3 DEF ReadReply, TypeOK, After
<1>4. CASE HangUp
  BY <1>4 DEF HangUp, TypeOK
<1>5. CASE ReadRequest
  <2>1. at' \in [Peers -> Places]
    BY <1>5 DEF ReadRequest, TypeOK
  <2>2. got' \in [Ways -> Nat] /\ out' \in [Ways -> Seq(Frames)]
    BY <1>5 DEF ReadRequest, TypeOK
  <2> QED BY <2>1, <2>2, <1>5 DEF ReadRequest, TypeOK
<1>6. CASE Execute
  BY <1>6 DEF Execute, TypeOK
<1>7. CASE ReplySetup
  BY <1>7 DEF ReplySetup, TypeOK
<1>8. CASE Reply
  <2>1. Verdict \in Frames
    BY DEF Verdict
  <2>2. wire' \in [Ways -> Seq(Frames)]
    BY <2>1, <1>8 DEF Reply, TypeOK
  <2> QED BY <2>2, <1>8 DEF Reply, TypeOK
<1>9. CASE Settle
  BY <1>9 DEF Settle, TypeOK
<1>10. CASE EndOfStream
  BY <1>10 DEF EndOfStream, TypeOK
<1>11. CASE Listen
  BY <1>11 DEF Listen, TypeOK
<1>12. ASSUME NEW p \in Peers, Report(p) PROVE TypeOK'
  BY <1>12 DEF Report, TypeOK
<1>13. ASSUME NEW p \in Peers, Leave(p) PROVE TypeOK'
  BY <1>13 DEF Leave, TypeOK
<1>14. ASSUME NEW p \in Peers, Crash(p) PROVE TypeOK'
  BY <1>14 DEF Crash, TypeOK
<1>15. CASE LetGo
  BY <1>15 DEF LetGo, TypeOK
<1>16. CASE GiveUp
  BY <1>16 DEF GiveUp, TypeOK
<1>17. ASSUME NEW w \in Ways, Capture(w) PROVE TypeOK'
  <2>1. Head(wire[w]) \in Frames /\ Tail(wire[w]) \in Seq(Frames)
    BY <1>17 DEF Capture, TypeOK
  <2>2. wire' \in [Ways -> Seq(Frames)]
    BY <2>1, <1>17 DEF Capture, TypeOK
  <2>3. frames' = frames \/ frames' = [frames EXCEPT ![w] = Append(@, Head(wire[w]))]
    BY <1>17 DEF Capture
  <2>a. Append(frames[w], Head(wire[w])) \in Seq(Frames) /\ frames \in [Ways -> Seq(Frames)]
    BY <2>1 DEF TypeOK
  <2>4. frames' \in [Ways -> Seq(Frames)]
    BY <2>a, <2>3
  <2>5. thread' \in [Ways -> {"off", "read", "hold", "send", "ended"}]
    BY <1>17 DEF Capture, TypeOK
  <2> QED BY <2>2, <2>4, <2>5, <1>17 DEF Capture, TypeOK
<1>18. ASSUME NEW w \in Ways, Forward(w) PROVE TypeOK'
  <2>1. frames[w] \in Seq(Frames) /\ Len(frames[w]) > 0
    BY <1>18 DEF Forward, TypeOK, Contents, InHand
  <2>2. frames[w][Len(frames[w])] \in Frames
    BY <2>1
  <2>3. out' = out \/ out' = [out EXCEPT ![w] = Append(@, frames[w][Len(frames[w])])]
    BY <1>18 DEF Forward
  <2>a. /\ Append(out[w], frames[w][Len(frames[w])]) \in Seq(Frames)
        /\ out \in [Ways -> Seq(Frames)]
    BY <2>2 DEF TypeOK
  <2>4. out' \in [Ways -> Seq(Frames)]
    BY <2>a, <2>3
  <2>5. thread' \in [Ways -> {"off", "read", "hold", "send", "ended"}]
    BY <1>18 DEF Forward, TypeOK
  <2> QED BY <2>4, <2>5, <1>18 DEF Forward, TypeOK
<1>19. ASSUME NEW w \in Ways, PassEnd(w) PROVE TypeOK'
  BY <1>19 DEF PassEnd, TypeOK
<1>20. ASSUME NEW w \in Ways, Broken(w) PROVE TypeOK'
  BY <1>20 DEF Broken, TypeOK
<1>21. CASE Look
  BY <1>21 DEF Look, TypeOK, Next1
<1>22. CASE Ask
  BY <1>22 DEF Ask, TypeOK, Fail
<1>23. CASE Connect
  BY <1>23 DEF Connect, TypeOK
<1>24. CASE Accept
  BY <1>24 DEF Accept, TypeOK
<1>25. CASE Release
  BY <1>25 DEF Release, TypeOK
<1>26. CASE Reap
  BY <1>26 DEF Reap, TypeOK
<1>27. CASE Judge
  BY <1>27 DEF Judge, TypeOK
<1>28. CASE TimeOut
  BY <1>28 DEF TimeOut, TypeOK, Fail
<1>29. CASE Kill
  BY <1>29 DEF Kill, TypeOK
<1>30. CASE Return
  BY <1>30 DEF Return, TypeOK
<1>31. CASE Expire
  BY <1>31 DEF Expire, TypeOK
<1>32. CASE Done
  BY <1>32 DEF Done, TypeOK
<1> QED BY <1>1, <1>2, <1>3, <1>4, <1>5, <1>6, <1>7, <1>8, <1>9, <1>10, <1>11, <1>12,
    <1>13, <1>14, <1>15, <1>16, <1>17, <1>18, <1>19, <1>20, <1>21, <1>22, <1>23, <1>24,
    <1>25, <1>26, <1>27, <1>28, <1>29, <1>30, <1>31, <1>32 DEF Next, Relay, Runner

-----------------------------------------------------------------------------
(* One token goes round.                                                   *)

\* Lengths and hands are natural numbers, with and without the names of counts.
LEMMA Numbers ==
  ASSUME TypeOK
  PROVE  \A w \in Ways : /\ Len(wire[w]) \in Nat /\ Len(out[w]) \in Nat /\ Hand(w) \in Nat
                         /\ Len(frames[w]) \in Nat
  BY DEF TypeOK, Hand

LEMMA Named ==
  ASSUME TypeOK, NEW w \in Ways
  PROVE  /\ Queued(w) \in Nat /\ Waiting(w) \in Nat /\ Captured(w) \in Nat /\ Hand(w) \in Nat
         /\ got[w] \in Nat
  BY DEF TypeOK, Hand, Queued, Waiting, Captured

LEMMA NumbersNext ==
  ASSUME TypeOK'
  PROVE  \A w \in Ways : /\ Len(wire'[w]) \in Nat /\ Len(out'[w]) \in Nat /\ Hand(w)' \in Nat
                         /\ Len(frames'[w]) \in Nat
  BY DEF TypeOK, Hand

LEMMA CarriedNat ==
  ASSUME TypeOK, TypeOK', NEW w \in Ways
  PROVE  Carried(w) \in Nat /\ Carried(w)' \in Nat
<1>1. Len(wire[w]) \in Nat /\ Len(out[w]) \in Nat /\ Hand(w) \in Nat
  BY Numbers
<1>2. Len(wire'[w]) \in Nat /\ Len(out'[w]) \in Nat /\ Hand(w)' \in Nat
  BY NumbersNext
<1>3. Carried(w) \in Nat
  BY <1>1 DEF Carried
<1>4. Carried(w)' \in Nat
  BY <1>2 DEF Carried
<1> QED BY <1>3, <1>4

\* Nothing is on its way where the sum is zero.
LEMMA Empty ==
  ASSUME TypeOK, NEW w \in Ways, Carried(w) = 0
  PROVE  Len(wire[w]) = 0 /\ Len(out[w]) = 0 /\ Hand(w) = 0
<1>1. Len(wire[w]) \in Nat /\ Len(out[w]) \in Nat /\ Hand(w) \in Nat
  BY Numbers
<1> QED BY <1>1 DEF Carried

\* A relay takes one frame from the wire, and puts at most one out.
LEMMA HandedOn ==
  ASSUME NEW a \in Nat, NEW b \in Nat, NEW c \in Nat, NEW h \in {0, 1}
  PROVE  /\ a # 0 => a + 0 + b >= 1 /\ a - 1 + h + b <= a + 0 + b
         /\ a + 1 + b >= 1 /\ (c <= b + 1 => a + 0 + c <= a + 1 + b)
  OBVIOUS

LEMMA TakeOne ==
  ASSUME NEW a \in Nat, NEW h \in Nat, NEW b \in Nat, b > 0, NEW c, c = a + h + b,
         NEW d, d = a + h + (b - 1)
  PROVE  c > 0 /\ d = c - 1 /\ c \in Nat
  OBVIOUS

\* A frame is handed on, never doubled, and sent only when none is on its way.
LEMMA TokenStep ==
  ASSUME TypeOK, TypeOK', OneToken, Turns, RunnerInv, Next
  PROVE  OneToken'
<1> USE DEF fixed, runner, peers, initiator, responder, relays, vars, Peers, Ways
<1>1. CASE SendCall
  <2>1. Len(wire'["req"]) = Len(wire["req"]) + 1 /\ wire'["resp"] = wire["resp"]
    BY <1>1 DEF SendCall, TypeOK, Frames
  <2>2. out' = out /\ thread' = thread /\ Sending /\ ~Sending' /\ Answering' = Answering
    BY <1>1 DEF SendCall, TypeOK, Sending, Answering
  <2>3. Hand("req")' = Hand("req") /\ Hand("resp")' = Hand("resp")
    BY <2>2 DEF Hand, InHand
  <2>4. Carried("resp")' = Carried("resp")
    BY <2>1, <2>2, <2>3 DEF Carried
  <2>5. Carried("req")' = Carried("req") + 1
    BY <2>1, <2>2, <2>3, Numbers DEF Carried
  <2> QED BY <2>2, <2>4, <2>5 DEF OneToken
<1>2. CASE SendSetup
  <2>1. Len(wire'["req"]) = Len(wire["req"]) + 1 /\ wire'["resp"] = wire["resp"]
    BY <1>2 DEF SendSetup, TypeOK, Frames
  <2>2. out' = out /\ thread' = thread /\ Sending /\ ~Sending' /\ Answering' = Answering
    BY <1>2 DEF SendSetup, TypeOK, Sending, Answering
  <2>3. Hand("req")' = Hand("req") /\ Hand("resp")' = Hand("resp")
    BY <2>2 DEF Hand, InHand
  <2>4. Carried("resp")' = Carried("resp")
    BY <2>1, <2>2, <2>3 DEF Carried
  <2>5. Carried("req")' = Carried("req") + 1
    BY <2>1, <2>2, <2>3, Numbers DEF Carried
  <2> QED BY <2>2, <2>4, <2>5 DEF OneToken
<1>3. CASE ReadReply
  BY <1>3 DEF ReadReply, OneToken, TypeOK, Turns, RunnerInv, Sending, Answering, Due,
      Queued, Captured, Waiting, Carried, Hand, InHand
<1>4. CASE HangUp
  BY <1>4 DEF HangUp, OneToken, TypeOK, Turns, RunnerInv, Sending, Answering, Due, Queued,
      Captured, Waiting, Carried, Hand, InHand
<1>5. CASE ReadRequest
  <2>1. Len(out["req"]) > 0 /\ Len(out'["req"]) = Len(out["req"]) - 1 /\ out'["resp"] = out["resp"]
    BY <1>5 DEF ReadRequest, TypeOK
  <2>2. wire' = wire /\ thread' = thread /\ (Sending' <=> Sending)
    BY <1>5 DEF ReadRequest, TypeOK, Sending
  <2>3. Hand("req")' = Hand("req") /\ Hand("resp")' = Hand("resp")
    BY <2>2 DEF Hand
  <2>4. Carried("resp")' = Carried("resp")
    BY <2>1, <2>2, <2>3 DEF Carried
  <2>5. Carried("req") > 0 /\ Carried("req")' = Carried("req") - 1 /\ Carried("req") \in Nat
    <3>1. Len(wire["req"]) \in Nat /\ Len(out["req"]) \in Nat /\ Hand("req") \in Nat
      BY Numbers
    <3>2. Carried("req")' = Len(wire["req"]) + Hand("req") + (Len(out["req"]) - 1)
      BY <2>1, <2>2, <2>3 DEF Carried
    <3>3. Carried("req") = Len(wire["req"]) + Hand("req") + Len(out["req"])
      BY DEF Carried
    <3> QED BY <2>1, <3>1, <3>2, <3>3, TakeOne
  <2>6. ~Sending /\ Carried("resp") = 0 /\ Carried("req") = 1
    BY <2>5 DEF OneToken
  <2>7. ~Sending' /\ Carried("resp")' = 0 /\ Carried("req")' = 0
    BY <2>2, <2>4, <2>5, <2>6
  <2> QED BY <2>7 DEF OneToken
<1>6. CASE Execute
  BY <1>6 DEF Execute, OneToken, TypeOK, Turns, RunnerInv, Sending, Answering, Due,
      Queued, Captured, Waiting, Carried, Hand, InHand
<1>7. CASE ReplySetup
  BY <1>7 DEF ReplySetup, OneToken, TypeOK, Turns, RunnerInv, Sending, Answering, Due,
      Queued, Captured, Waiting, Carried, Hand, InHand
<1>8. CASE Reply
  BY <1>8 DEF Reply, OneToken, TypeOK, Turns, RunnerInv, Sending, Answering, Due, Queued,
      Captured, Waiting, Carried, Hand, InHand
<1>9. CASE Settle
  BY <1>9 DEF Settle, OneToken, TypeOK, Turns, RunnerInv, Sending, Answering, Due, Queued,
      Captured, Waiting, Carried, Hand, InHand
<1>10. CASE EndOfStream
  BY <1>10 DEF EndOfStream, OneToken, TypeOK, Turns, RunnerInv, Sending, Answering, Due,
      Queued, Captured, Waiting, Carried, Hand, InHand
<1>11. CASE Listen
  BY <1>11 DEF Listen, OneToken, TypeOK, Turns, RunnerInv, Sending, Answering, Due,
      Queued, Captured, Waiting, Carried, Hand, InHand
<1>12. ASSUME NEW p \in Peers, Report(p) PROVE OneToken'
  BY <1>12 DEF Report, OneToken, TypeOK, Turns, RunnerInv, Sending, Answering, Due,
      Queued, Captured, Waiting, Carried, Hand, InHand
<1>13. ASSUME NEW p \in Peers, Leave(p) PROVE OneToken'
  BY <1>13 DEF Leave, OneToken, TypeOK, Turns, RunnerInv, Sending, Answering, Due, Queued,
      Captured, Waiting, Carried, Hand, InHand
<1>14. ASSUME NEW p \in Peers, Crash(p) PROVE OneToken'
  BY <1>14 DEF Crash, OneToken, TypeOK, Turns, RunnerInv, Sending, Answering, Due, Queued,
      Captured, Waiting, Carried, Hand, InHand
<1>15. CASE LetGo
  BY <1>15 DEF LetGo, OneToken, TypeOK, Turns, RunnerInv, Sending, Answering, Due, Queued,
      Captured, Waiting, Carried, Hand, InHand
<1>16. CASE GiveUp
  BY <1>16 DEF GiveUp, OneToken, TypeOK, Turns, RunnerInv, Sending, Answering, Due,
      Queued, Captured, Waiting, Carried, Hand, InHand
<1>17. ASSUME NEW w \in Ways, Capture(w) PROVE OneToken'
  <2>1. Len(wire'[w]) = Len(wire[w]) - 1 /\ Hand(w) = 0 /\ Hand(w)' \in {0, 1}
    BY <1>17 DEF Capture, TypeOK, Hand, InHand
  <2>2. out' = out /\ Sending' = Sending /\ Answering' = Answering
    BY <1>17 DEF Capture, Sending, Answering
  <2>3. Carried(w) >= 1 /\ Carried(w)' <= Carried(w)
    <3>1. wire[w] \in Seq(Frames) /\ wire[w] # <<>>
      BY <1>17 DEF Capture, TypeOK
    <3>2. Len(wire[w]) \in Nat /\ Len(wire[w]) # 0
      BY <3>1
    <3>3. Len(out[w]) \in Nat /\ Len(wire'[w]) \in Nat
      BY Numbers, NumbersNext
    <3>4. Carried(w) = Len(wire[w]) + 0 + Len(out[w])
      BY <2>1 DEF Carried
    <3>5. Carried(w)' = Len(wire[w]) - 1 + Hand(w)' + Len(out[w])
      BY <2>1, <2>2 DEF Carried
    <3> QED BY <2>1, <3>2, <3>3, <3>4, <3>5, HandedOn
  <2>4. \A v \in Ways : v # w => Carried(v)' = Carried(v)
    <3>1. \A v \in Ways : v # w => wire'[v] = wire[v] /\ thread'[v] = thread[v] /\ out'[v] = out[v]
      BY <1>17 DEF Capture, TypeOK
    <3> QED BY <3>1 DEF Carried, Hand
  <2>5. /\ Carried("req") \in Nat /\ Carried("req")' \in Nat
        /\ Carried("resp") \in Nat /\ Carried("resp")' \in Nat
    BY CarriedNat
  <2>6. CASE w = "req"
    BY <2>2, <2>3, <2>4, <2>5, <2>6 DEF OneToken
  <2>7. CASE w = "resp"
    BY <2>2, <2>3, <2>4, <2>5, <2>7 DEF OneToken
  <2> QED BY <2>6, <2>7
<1>18. ASSUME NEW w \in Ways, Forward(w) PROVE OneToken'
  <2>1. /\ Len(out'[w]) <= Len(out[w]) + 1 /\ Hand(w) = 1 /\ Hand(w)' = 0
    BY <1>18 DEF Forward, TypeOK, Hand, InHand
  <2>2. wire' = wire /\ Sending' = Sending /\ Answering' = Answering
    BY <1>18 DEF Forward, Sending, Answering
  <2>3. Carried(w) >= 1 /\ Carried(w)' <= Carried(w)
    <3>1. Len(wire[w]) \in Nat /\ Len(out[w]) \in Nat /\ Len(out'[w]) \in Nat
      BY Numbers, NumbersNext
    <3>2. Carried(w) = Len(wire[w]) + 1 + Len(out[w])
      BY <2>1 DEF Carried
    <3>3. Carried(w)' = Len(wire[w]) + 0 + Len(out'[w])
      BY <2>1, <2>2 DEF Carried
    <3> QED BY <2>1, <3>1, <3>2, <3>3, HandedOn
  <2>4. \A v \in Ways : v # w => Carried(v)' = Carried(v)
    BY <1>18 DEF Forward, TypeOK, Carried, Hand, InHand
  <2>5. /\ Carried("req") \in Nat /\ Carried("req")' \in Nat
        /\ Carried("resp") \in Nat /\ Carried("resp")' \in Nat
    BY CarriedNat
  <2>6. CASE w = "req"
    BY <2>2, <2>3, <2>4, <2>5, <2>6 DEF OneToken
  <2>7. CASE w = "resp"
    BY <2>2, <2>3, <2>4, <2>5, <2>7 DEF OneToken
  <2> QED BY <2>6, <2>7
<1>19. ASSUME NEW w \in Ways, PassEnd(w) PROVE OneToken'
  BY <1>19 DEF PassEnd, OneToken, TypeOK, Turns, RunnerInv, Sending, Answering, Due,
      Queued, Captured, Waiting, Carried, Hand, InHand
<1>20. ASSUME NEW w \in Ways, Broken(w) PROVE OneToken'
  BY <1>20 DEF Broken, OneToken, TypeOK, Turns, RunnerInv, Sending, Answering, Due,
      Queued, Captured, Waiting, Carried, Hand, InHand
<1>21. CASE Look
  BY <1>21 DEF Look, OneToken, TypeOK, Turns, RunnerInv, Sending, Answering, Due, Queued,
      Captured, Waiting, Carried, Hand, InHand
<1>22. CASE Ask
  BY <1>22 DEF Ask, OneToken, TypeOK, Turns, RunnerInv, Sending, Answering, Due, Queued,
      Captured, Waiting, Carried, Hand, InHand
<1>23. CASE Connect
  BY <1>23 DEF Connect, OneToken, TypeOK, Turns, RunnerInv, Sending, Answering, Due,
      Queued, Captured, Waiting, Carried, Hand, InHand
<1>24. CASE Accept
  BY <1>24 DEF Accept, OneToken, TypeOK, Turns, RunnerInv, Sending, Answering, Due,
      Queued, Captured, Waiting, Carried, Hand, InHand
<1>25. CASE Release
  BY <1>25 DEF Release, OneToken, TypeOK, Turns, RunnerInv, Sending, Answering, Due,
      Queued, Captured, Waiting, Carried, Hand, InHand
<1>26. CASE Reap
  BY <1>26 DEF Reap, OneToken, TypeOK, Turns, RunnerInv, Sending, Answering, Due, Queued,
      Captured, Waiting, Carried, Hand, InHand
<1>27. CASE Judge
  BY <1>27 DEF Judge, OneToken, TypeOK, Turns, RunnerInv, Sending, Answering, Due, Queued,
      Captured, Waiting, Carried, Hand, InHand
<1>28. CASE TimeOut
  BY <1>28 DEF TimeOut, OneToken, TypeOK, Turns, RunnerInv, Sending, Answering, Due,
      Queued, Captured, Waiting, Carried, Hand, InHand
<1>29. CASE Kill
  BY <1>29 DEF Kill, OneToken, TypeOK, Turns, RunnerInv, Sending, Answering, Due, Queued,
      Captured, Waiting, Carried, Hand, InHand
<1>30. CASE Return
  BY <1>30 DEF Return, OneToken, TypeOK, Turns, RunnerInv, Sending, Answering, Due,
      Queued, Captured, Waiting, Carried, Hand, InHand
<1>31. CASE Expire
  BY <1>31 DEF Expire, OneToken, TypeOK, Turns, RunnerInv, Sending, Answering, Due,
      Queued, Captured, Waiting, Carried, Hand, InHand
<1>32. CASE Done
  BY <1>32 DEF Done, OneToken, TypeOK, Turns, RunnerInv, Sending, Answering, Due, Queued,
      Captured, Waiting, Carried, Hand, InHand
<1> QED BY <1>1, <1>2, <1>3, <1>4, <1>5, <1>6, <1>7, <1>8, <1>9, <1>10, <1>11, <1>12,
    <1>13, <1>14, <1>15, <1>16, <1>17, <1>18, <1>19, <1>20, <1>21, <1>22, <1>23, <1>24,
    <1>25, <1>26, <1>27, <1>28, <1>29, <1>30, <1>31, <1>32 DEF Next, Relay, Runner

-----------------------------------------------------------------------------
(* The contents of what is on its way, and the turns of the initiator.     *)

\* A frame that is appended to nothing is alone.
LEMMA Alone ==
  ASSUME NEW s \in Seq(Frames), NEW f \in Frames, Len(s) = 0
  PROVE  Len(Append(s, f)) = 1 /\ Append(s, f)[1] = f
  OBVIOUS

\* Captures and forwards keep a frame as it is; a verdict answers a call.
LEMMA ContentsStep ==
  ASSUME TypeOK, TypeOK', OneToken, Contents, Turns, RunnerInv, Next
  PROVE  Contents'
<1> USE DEF fixed, runner, peers, initiator, responder, relays, vars, Peers, Ways
<1>1. CASE SendCall
  <2>1. Sending /\ ~Answering
    BY <1>1 DEF SendCall, Sending, Answering, OneToken
  <2>2. /\ Len(wire["req"]) = 0 /\ Len(wire["resp"]) = 0
        /\ Len(out["req"]) = 0 /\ Len(out["resp"]) = 0 /\ Hand("req") = 0 /\ Hand("resp") = 0
    <3>1. Carried("req") = 0 /\ Carried("resp") = 0
      BY <2>1 DEF OneToken
    <3> QED BY <3>1, Empty
  <2>3. wire'["req"] = Append(wire["req"], "call") /\ wire'["resp"] = wire["resp"] /\ out' = out
    BY <1>1 DEF SendCall, TypeOK
  <2>4. Len(wire'["req"]) = 1 /\ wire'["req"][1] = "call" /\ wire["req"] \in Seq(Frames)
    <3>1. wire["req"] \in Seq(Frames) /\ "call" \in Frames
      BY DEF TypeOK, Frames
    <3> QED BY <2>2, <2>3, <3>1, Alone
  <2>5. attempts' > 0 /\ attempts' # 0 /\ \A w \in Ways : thread'[w] \notin InHand
    BY <2>2, <1>1 DEF SendCall, TypeOK, Hand
  <2>a. Fits("req", wire["req"][1])'
    BY <2>4, <2>5 DEF Fits
  <2>6. (\A i \in 1..Len(wire["req"]) : Fits("req", wire["req"][i]))'
    BY <2>4, <2>a
  <2>7. at'["server"] \notin {"setup", "reply"}
    BY <2>1, <1>1 DEF SendCall, TypeOK, Answering
  <2> QED BY <2>2, <2>3, <2>5, <2>6, <2>7 DEF Contents
<1>2. CASE SendSetup
  <2>1. Sending /\ ~Answering /\ attempts = 0 /\ attempts' = 0
    BY <1>2 DEF SendSetup, Sending, Answering, OneToken, Turns
  <2>2. Len(wire["req"]) = 0
    BY <2>1, Numbers DEF Carried, OneToken
  <2>3. wire'["req"] = Append(wire["req"], "setup") /\ wire'["resp"] = wire["resp"]
    BY <1>2 DEF SendSetup, TypeOK
  <2>b. wire["req"] \in Seq(Frames) /\ "setup" \in Frames
    BY DEF TypeOK, Frames
  <2>4. Len(wire'["req"]) = 1 /\ wire'["req"][1] = "setup"
    BY <2>2, <2>3, <2>b, Alone
  <2>5. out' = out /\ thread' = thread /\ frames' = frames /\ at'["server"] = at["server"]
    BY <1>2 DEF SendSetup, TypeOK
  <2>a. Fits("req", wire["req"][1])'
    BY <2>1, <2>4 DEF Fits
  <2>6. (\A i \in 1..Len(wire["req"]) : Fits("req", wire["req"][i]))'
    BY <2>4, <2>a
  <2> QED BY <2>1, <2>3, <2>5, <2>6 DEF Contents, Fits
<1>3. CASE ReadReply
  BY <1>3 DEF ReadReply, Contents, TypeOK, Fits, OneToken, Sending, Answering, Due,
      Queued, Captured, Waiting, Carried, Hand, InHand
<1>4. CASE HangUp
  BY <1>4 DEF HangUp, Contents, TypeOK, Fits, OneToken, Sending, Answering, Due, Queued,
      Captured, Waiting, Carried, Hand, InHand
<1>5. CASE ReadRequest
  <2>1. /\ out["req"] \in Seq(Frames) /\ Len(out["req"]) > 0
        /\ out'["req"] = Tail(out["req"]) /\ out'["resp"] = out["resp"]
        /\ UNCHANGED <<wire, thread, frames, attempts>>
        /\ at'["server"] = IF Head(out["req"]) = "call" THEN "reply" ELSE "setup"
    BY <1>5 DEF ReadRequest, TypeOK
  <2>2. /\ Head(out["req"]) = out["req"][1] /\ 1 \in 1..Len(out["req"])
        /\ \A i \in 1..Len(out'["req"]) :
             out'["req"][i] = out["req"][i + 1] /\ i + 1 \in 1..Len(out["req"])
    BY <2>1
  <2>3. \A v \in Ways : \A f : Fits(v, f)' <=> Fits(v, f)
    BY <2>1 DEF Fits
  <2>4. Fits("req", Head(out["req"]))
    BY <2>2 DEF Contents
  <2>5. /\ at'["server"] = "setup" => attempts' = 0
        /\ at'["server"] = "reply" => attempts' # 0
    BY <2>1, <2>4 DEF Fits
  <2>6. attempts' \in Nat
    BY DEF TypeOK
  <2>7. (\A w \in Ways : \A i \in 1..Len(out[w]) : Fits(w, out[w][i]))'
    <3>1. (\A i \in 1..Len(out["req"]) : Fits("req", out["req"][i]))'
      BY <2>2, <2>3 DEF Contents
    <3>2. (\A i \in 1..Len(out["resp"]) : Fits("resp", out["resp"][i]))'
      BY <2>1, <2>3 DEF Contents
    <3> QED BY <3>1, <3>2
  <2>8. (\A w \in Ways : \A i \in 1..Len(wire[w]) : Fits(w, wire[w][i]))'
    BY <2>1, <2>3 DEF Contents
  <2>9. (\A w \in Ways : thread[w] \in InHand =>
           Len(frames[w]) > 0 /\ Fits(w, frames[w][Len(frames[w])]))'
    BY <2>1, <2>3 DEF Contents
  <2> QED BY <2>5, <2>6, <2>7, <2>8, <2>9 DEF Contents
<1>6. CASE Execute
  BY <1>6 DEF Execute, Contents, TypeOK, Fits, OneToken, Sending, Answering, Due,
      Queued, Captured, Waiting, Carried, Hand, InHand
<1>7. CASE ReplySetup
  BY <1>7 DEF ReplySetup, Contents, TypeOK, Fits, OneToken, Sending, Answering, Due,
      Queued, Captured, Waiting, Carried, Hand, InHand
<1>8. CASE Reply
  <2>1. Answering /\ attempts > 0 /\ attempts' = attempts
    BY <1>8 DEF Reply, Answering, Contents
  <2>2. Len(wire["resp"]) = 0
    BY <2>1, Numbers DEF Carried, OneToken
  <2>3. wire'["resp"] = Append(wire["resp"], Verdict) /\ wire'["req"] = wire["req"]
    BY <1>8 DEF Reply, TypeOK
  <2>4. Verdict \in {"pending", "terminal"}
    BY DEF Verdict
  <2>5. Len(wire'["resp"]) = 1 /\ wire'["resp"][1] = Verdict
    <3>1. wire["resp"] \in Seq(Frames) /\ Verdict \in Frames
      BY <2>4 DEF TypeOK, Frames
    <3> QED BY <2>2, <2>3, <3>1, Alone
  <2>6. /\ out' = out /\ thread' = thread /\ frames' = frames
        /\ at'["server"] \notin {"setup", "reply"}
    BY <1>8 DEF Reply, TypeOK
  <2>a. Fits("resp", wire["resp"][1])'
    BY <2>1, <2>4, <2>5 DEF Fits
  <2>7. (\A i \in 1..Len(wire["resp"]) : Fits("resp", wire["resp"][i]))'
    BY <2>5, <2>a
  <2>8. \A v \in Ways : \A f : Fits(v, f)' <=> Fits(v, f)
    BY <2>1 DEF Fits
  <2>9. (\A i \in 1..Len(wire["req"]) : Fits("req", wire["req"][i]))'
    BY <2>3, <2>8 DEF Contents
  <2>10. (\A w \in Ways :
            /\ \A i \in 1..Len(out[w]) : Fits(w, out[w][i])
            /\ thread[w] \in InHand =>
                 Len(frames[w]) > 0 /\ Fits(w, frames[w][Len(frames[w])]))'
    BY <2>6, <2>8 DEF Contents
  <2> QED BY <2>6, <2>7, <2>9, <2>10 DEF Contents
<1>9. CASE Settle
  BY <1>9 DEF Settle, Contents, TypeOK, Fits, OneToken, Sending, Answering, Due, Queued,
      Captured, Waiting, Carried, Hand, InHand
<1>10. CASE EndOfStream
  BY <1>10 DEF EndOfStream, Contents, TypeOK, Fits, OneToken, Sending, Answering, Due,
      Queued, Captured, Waiting, Carried, Hand, InHand
<1>11. CASE Listen
  BY <1>11 DEF Listen, Contents, TypeOK, Fits, OneToken, Sending, Answering, Due,
      Queued, Captured, Waiting, Carried, Hand, InHand
<1>12. ASSUME NEW p \in Peers, Report(p) PROVE Contents'
  BY <1>12 DEF Report, Contents, TypeOK, Fits, OneToken, Sending, Answering, Due,
      Queued, Captured, Waiting, Carried, Hand, InHand
<1>13. ASSUME NEW p \in Peers, Leave(p) PROVE Contents'
  BY <1>13 DEF Leave, Contents, TypeOK, Fits, OneToken, Sending, Answering, Due, Queued,
      Captured, Waiting, Carried, Hand, InHand
<1>14. ASSUME NEW p \in Peers, Crash(p) PROVE Contents'
  BY <1>14 DEF Crash, Contents, TypeOK, Fits, OneToken, Sending, Answering, Due, Queued,
      Captured, Waiting, Carried, Hand, InHand
<1>15. CASE LetGo
  BY <1>15 DEF LetGo, Contents, TypeOK, Fits, OneToken, Sending, Answering, Due, Queued,
      Captured, Waiting, Carried, Hand, InHand
<1>16. CASE GiveUp
  BY <1>16 DEF GiveUp, Contents, TypeOK, Fits, OneToken, Sending, Answering, Due,
      Queued, Captured, Waiting, Carried, Hand, InHand
<1>17. ASSUME NEW w \in Ways, Capture(w) PROVE Contents'
  <2>1. /\ attempts' = attempts /\ out' = out /\ at' = at
        /\ wire' = [wire EXCEPT ![w] = Tail(@)]
        /\ wire[w] \in Seq(Frames) /\ wire[w] # <<>> /\ Len(wire[w]) > 0
    BY <1>17 DEF Capture, TypeOK
  <2>2. Fits(w, Head(wire[w]))
    BY <2>1 DEF Contents
  <2>3. \A i \in 1..Len(wire'[w]) : wire'[w][i] = wire[w][i + 1] /\ i + 1 \in 1..Len(wire[w])
    BY <2>1 DEF TypeOK
  <2>4. \A v \in Ways : v # w =>
          wire'[v] = wire[v] /\ thread'[v] = thread[v] /\ frames'[v] = frames[v]
    BY <1>17 DEF Capture, TypeOK
  <2>5. \A v \in Ways : \A f : Fits(v, f)' <=> Fits(v, f)
    BY <2>1 DEF Fits
  <2>6. thread'[w] \in InHand => frames'[w] = Append(frames[w], Head(wire[w]))
    BY <1>17 DEF Capture, TypeOK, InHand
  <2>7. Head(wire[w]) \in Frames /\ frames[w] \in Seq(Frames)
    <3>1. Head(wire[w]) \in Frames
      BY <2>1
    <3> QED BY <3>1 DEF TypeOK
  <2>8. thread'[w] \in InHand =>
          Len(frames'[w]) > 0 /\ frames'[w][Len(frames'[w])] = Head(wire[w])
    BY <2>6, <2>7
  <2>9. \A v \in Ways : \A i \in 1..Len(wire'[v]) : Fits(v, wire'[v][i])
    BY <2>3, <2>4 DEF Contents
  <2>10. \A v \in Ways : thread'[v] \in InHand =>
                           Len(frames'[v]) > 0 /\ Fits(v, frames'[v][Len(frames'[v])])
    BY <2>2, <2>4, <2>8 DEF Contents
  <2> QED BY <2>1, <2>5, <2>9, <2>10 DEF Contents
<1>18. ASSUME NEW w \in Ways, Forward(w) PROVE Contents'
  <2>1. attempts' = attempts /\ wire' = wire /\ at' = at /\ frames' = frames
    BY <1>18 DEF Forward
  <2>2. /\ thread[w] \in InHand /\ thread'[w] \notin InHand
        /\ \A v \in Ways : v # w => out'[v] = out[v] /\ thread'[v] = thread[v]
    BY <1>18 DEF Forward, TypeOK, InHand
  <2>3. out'[w] = out[w] \/ out'[w] = Append(out[w], frames[w][Len(frames[w])])
    BY <1>18 DEF Forward, TypeOK
  <2>b. Len(frames[w]) > 0 /\ Fits(w, frames[w][Len(frames[w])])
    BY <2>2 DEF Contents
  <2>c. out[w] \in Seq(Frames) /\ frames[w] \in Seq(Frames)
    BY DEF TypeOK
  <2>d. frames[w][Len(frames[w])] \in Frames
    BY <2>b, <2>c
  <2>4. /\ out[w] \in Seq(Frames) /\ frames[w][Len(frames[w])] \in Frames
        /\ Fits(w, frames[w][Len(frames[w])])
    BY <2>b, <2>c, <2>d
  <2>5. \A i \in 1..Len(out'[w]) : Fits(w, out'[w][i])
    <3>1. CASE out'[w] = out[w]
      BY <3>1 DEF Contents
    <3>2. CASE out'[w] = Append(out[w], frames[w][Len(frames[w])])
      <4>1. ASSUME NEW i \in 1..Len(out'[w])
            PROVE  \/ out'[w][i] = frames[w][Len(frames[w])]
                   \/ i \in 1..Len(out[w]) /\ out'[w][i] = out[w][i]
        BY <2>4, <3>2
      <4> QED BY <2>4, <4>1 DEF Contents
    <3> QED BY <2>3, <3>1, <3>2
  <2>6. \A v \in Ways : \A f : Fits(v, f)' <=> Fits(v, f)
    BY <2>1 DEF Fits
  <2> QED BY <2>1, <2>2, <2>5, <2>6 DEF Contents
<1>19. ASSUME NEW w \in Ways, PassEnd(w) PROVE Contents'
  BY <1>19 DEF PassEnd, Contents, TypeOK, Fits, OneToken, Sending, Answering, Due,
      Queued, Captured, Waiting, Carried, Hand, InHand
<1>20. ASSUME NEW w \in Ways, Broken(w) PROVE Contents'
  BY <1>20 DEF Broken, Contents, TypeOK, Fits, OneToken, Sending, Answering, Due,
      Queued, Captured, Waiting, Carried, Hand, InHand
<1>21. CASE Look
  BY <1>21 DEF Look, Contents, TypeOK, Fits, OneToken, Sending, Answering, Due, Queued,
      Captured, Waiting, Carried, Hand, InHand
<1>22. CASE Ask
  <2>1. /\ wire' = wire /\ out' = out /\ thread' = thread /\ frames' = frames /\ at' = at
        /\ attempts' = attempts
    BY <1>22 DEF Ask
  <2> QED BY <2>1 DEF Contents, Fits
<1>23. CASE Connect
  BY <1>23 DEF Connect, Contents, TypeOK, Fits, OneToken, Sending, Answering, Due,
      Queued, Captured, Waiting, Carried, Hand, InHand
<1>24. CASE Accept
  BY <1>24 DEF Accept, Contents, TypeOK, Fits, OneToken, Sending, Answering, Due,
      Queued, Captured, Waiting, Carried, Hand, InHand
<1>25. CASE Release
  BY <1>25 DEF Release, Contents, TypeOK, Fits, OneToken, Sending, Answering, Due,
      Queued, Captured, Waiting, Carried, Hand, InHand
<1>26. CASE Reap
  BY <1>26 DEF Reap, Contents, TypeOK, Fits, OneToken, Sending, Answering, Due, Queued,
      Captured, Waiting, Carried, Hand, InHand
<1>27. CASE Judge
  BY <1>27 DEF Judge, Contents, TypeOK, Fits, OneToken, Sending, Answering, Due, Queued,
      Captured, Waiting, Carried, Hand, InHand
<1>28. CASE TimeOut
  BY <1>28 DEF TimeOut, Contents, TypeOK, Fits, OneToken, Sending, Answering, Due,
      Queued, Captured, Waiting, Carried, Hand, InHand
<1>29. CASE Kill
  BY <1>29 DEF Kill, Contents, TypeOK, Fits, OneToken, Sending, Answering, Due, Queued,
      Captured, Waiting, Carried, Hand, InHand
<1>30. CASE Return
  BY <1>30 DEF Return, Contents, TypeOK, Fits, OneToken, Sending, Answering, Due,
      Queued, Captured, Waiting, Carried, Hand, InHand
<1>31. CASE Expire
  BY <1>31 DEF Expire, Contents, TypeOK, Fits, OneToken, Sending, Answering, Due,
      Queued, Captured, Waiting, Carried, Hand, InHand
<1>32. CASE Done
  BY <1>32 DEF Done, Contents, TypeOK, Fits, OneToken, Sending, Answering, Due, Queued,
      Captured, Waiting, Carried, Hand, InHand
<1> QED BY <1>1, <1>2, <1>3, <1>4, <1>5, <1>6, <1>7, <1>8, <1>9, <1>10, <1>11, <1>12,
    <1>13, <1>14, <1>15, <1>16, <1>17, <1>18, <1>19, <1>20, <1>21, <1>22, <1>23, <1>24,
    <1>25, <1>26, <1>27, <1>28, <1>29, <1>30, <1>31, <1>32 DEF Next, Relay, Runner

\* A reply that is read moves the initiator on by exactly one.
LEMMA TurnsStep ==
  ASSUME ProtectedPairAssumption, TypeOK, TypeOK', OneToken, Contents, Turns, Exits, Quiet, Next
  PROVE  Turns'
<1> USE DEF fixed, runner, peers, initiator, responder, relays, vars, Peers, Ways
<1>1. CASE SendCall
  <2>1. got["resp"] = Setup + attempts /\ got' = got
    BY <1>1 DEF SendCall, Turns
  <2>2. attempts' = attempts + 1 /\ attempts' # 0 /\ at'["client"] = "await" /\ exit' = exit
    BY <1>1 DEF SendCall, TypeOK
  <2>3. Setup \in Nat /\ attempts \in Nat
    BY DEF ProtectedPairAssumption, TypeOK
  <2>4. got'["resp"] = Setup + attempts' - 1
    BY <2>1, <2>2, <2>3
  <2>5. exit["client"] # "good"
    BY <1>1 DEF SendCall, Exits
  <2> QED BY <2>2, <2>4, <2>5 DEF Turns
<1>2. CASE SendSetup
  BY <1>2 DEF SendSetup, Turns, TypeOK, Sending, Answering, Due, Queued, Captured,
      Waiting, Carried, Hand, InHand
<1>3. CASE ReadReply
  <2> DEFINE reply == Head(out["resp"])
  <2>1. /\ at["client"] = "await" /\ attempts' = attempts /\ mode' = mode /\ exit' = exit
        /\ got'["resp"] = got["resp"] + 1 /\ at'["client"] = After(reply) /\ Len(out["resp"]) > 0
    BY <1>3 DEF ReadReply, TypeOK
  <2>2. exit["client"] # "good"
    BY <2>1 DEF Exits
  <2>3. reply = out["resp"][1] /\ 1 \in 1..Len(out["resp"])
    BY <2>1 DEF TypeOK
  <2>4. Fits("resp", reply)
    BY <2>3 DEF Contents
  <2>5. Setup \in Nat /\ attempts \in Nat /\ got["resp"] \in Nat
    BY DEF ProtectedPairAssumption, TypeOK
  <2>6. CASE attempts = 0
    <3>1. reply = "setup" /\ got["resp"] < Setup
      BY <2>1, <2>4, <2>6 DEF Fits, Turns
    <3>2. CASE got'["resp"] < Setup
      <4>1. at'["client"] = "start"
        BY <2>1, <3>1, <3>2 DEF After
      <4> QED BY <2>1, <2>2, <2>6, <3>2, <4>1 DEF Turns
    <3>3. CASE ~(got'["resp"] < Setup)
      <4>1. got'["resp"] = Setup
        BY <2>1, <2>5, <3>1, <3>3
      <4>2. at'["client"] = "report" \/ (at'["client"] = "call" /\ mode # "setup")
        BY <2>1, <3>1, <3>3 DEF After
      <4>3. got'["resp"] = Setup + attempts' /\ got'["resp"] >= Setup + attempts'
        BY <2>1, <2>5, <2>6, <4>1
      <4> QED BY <2>1, <2>2, <4>2, <4>3 DEF Turns
    <3> QED BY <3>2, <3>3
  <2>7. CASE attempts # 0
    <3>1. reply \in {"pending", "terminal"} /\ got["resp"] = Setup + attempts - 1
      BY <2>1, <2>4, <2>7 DEF Fits, Turns
    <3>2. got'["resp"] = Setup + attempts' /\ got'["resp"] >= Setup + attempts'
      BY <2>1, <2>5, <3>1
    <3>3. at'["client"] \in {"report", "call", "fail"}
      BY <2>1, <3>1 DEF After
    <3>4. mode # "setup"
      BY <2>7 DEF Quiet
    <3> QED BY <2>1, <2>2, <3>2, <3>3, <3>4 DEF Turns
  <2> QED BY <2>6, <2>7
<1>4. CASE HangUp
  BY <1>4 DEF HangUp, Turns, TypeOK, Sending, Answering, Due, Queued, Captured, Waiting,
      Carried, Hand, InHand
<1>5. CASE ReadRequest
  BY <1>5 DEF ReadRequest, Turns, TypeOK, Sending, Answering, Due, Queued, Captured,
      Waiting, Carried, Hand, InHand
<1>6. CASE Execute
  BY <1>6 DEF Execute, Turns, TypeOK, Sending, Answering, Due, Queued, Captured,
      Waiting, Carried, Hand, InHand
<1>7. CASE ReplySetup
  BY <1>7 DEF ReplySetup, Turns, TypeOK, Sending, Answering, Due, Queued, Captured,
      Waiting, Carried, Hand, InHand
<1>8. CASE Reply
  BY <1>8 DEF Reply, Turns, TypeOK, Sending, Answering, Due, Queued, Captured, Waiting,
      Carried, Hand, InHand
<1>9. CASE Settle
  BY <1>9 DEF Settle, Turns, TypeOK, Sending, Answering, Due, Queued, Captured, Waiting,
      Carried, Hand, InHand
<1>10. CASE EndOfStream
  BY <1>10 DEF EndOfStream, Turns, TypeOK, Sending, Answering, Due, Queued, Captured,
      Waiting, Carried, Hand, InHand
<1>11. CASE Listen
  BY <1>11 DEF Listen, Turns, TypeOK, Sending, Answering, Due, Queued, Captured,
      Waiting, Carried, Hand, InHand
<1>12. ASSUME NEW p \in Peers, Report(p) PROVE Turns'
  BY <1>12 DEF Report, Turns, TypeOK, Sending, Answering, Due, Queued, Captured,
      Waiting, Carried, Hand, InHand
<1>13. ASSUME NEW p \in Peers, Leave(p) PROVE Turns'
  BY <1>13 DEF Leave, Turns, TypeOK, Sending, Answering, Due, Queued, Captured, Waiting,
      Carried, Hand, InHand
<1>14. ASSUME NEW p \in Peers, Crash(p) PROVE Turns'
  BY <1>14 DEF Crash, Turns, TypeOK, Sending, Answering, Due, Queued, Captured, Waiting,
      Carried, Hand, InHand
<1>15. CASE LetGo
  BY <1>15 DEF LetGo, Turns, TypeOK, Sending, Answering, Due, Queued, Captured, Waiting,
      Carried, Hand, InHand
<1>16. CASE GiveUp
  BY <1>16 DEF GiveUp, Turns, TypeOK, Sending, Answering, Due, Queued, Captured,
      Waiting, Carried, Hand, InHand
<1>17. ASSUME NEW w \in Ways, Capture(w) PROVE Turns'
  <2>1. at' = at /\ attempts' = attempts /\ got' = got /\ mode' = mode /\ exit' = exit
    BY <1>17 DEF Capture
  <2>2. at["client"] # "off"
    <3>1. Carried(w) # 0
      BY <1>17, Empty DEF Capture, TypeOK
    <3> QED BY <3>1 DEF Turns
  <2> QED BY <2>1, <2>2 DEF Turns
<1>18. ASSUME NEW w \in Ways, Forward(w) PROVE Turns'
  <2>1. at' = at /\ attempts' = attempts /\ got' = got /\ mode' = mode /\ exit' = exit
    BY <1>18 DEF Forward
  <2>2. at["client"] # "off"
    <3>1. Carried(w) # 0
      BY <1>18, Empty DEF Forward, TypeOK, Hand, InHand
    <3> QED BY <3>1 DEF Turns
  <2> QED BY <2>1, <2>2 DEF Turns
<1>19. ASSUME NEW w \in Ways, PassEnd(w) PROVE Turns'
  BY <1>19 DEF PassEnd, Turns, TypeOK, Sending, Answering, Due, Queued, Captured,
      Waiting, Carried, Hand, InHand
<1>20. ASSUME NEW w \in Ways, Broken(w) PROVE Turns'
  BY <1>20 DEF Broken, Turns, TypeOK, Sending, Answering, Due, Queued, Captured,
      Waiting, Carried, Hand, InHand
<1>21. CASE Look
  BY <1>21 DEF Look, Turns, TypeOK, Sending, Answering, Due, Queued, Captured, Waiting,
      Carried, Hand, InHand
<1>22. CASE Ask
  BY <1>22 DEF Ask, Turns, TypeOK, Sending, Answering, Due, Queued, Captured, Waiting,
      Carried, Hand, InHand
<1>23. CASE Connect
  BY <1>23 DEF Connect, Turns, TypeOK, Sending, Answering, Due, Queued, Captured,
      Waiting, Carried, Hand, InHand
<1>24. CASE Accept
  BY <1>24 DEF Accept, Turns, TypeOK, Sending, Answering, Due, Queued, Captured,
      Waiting, Carried, Hand, InHand
<1>25. CASE Release
  BY <1>25 DEF Release, Turns, TypeOK, Sending, Answering, Due, Queued, Captured,
      Waiting, Carried, Hand, InHand
<1>26. CASE Reap
  BY <1>26 DEF Reap, Turns, TypeOK, Sending, Answering, Due, Queued, Captured, Waiting,
      Carried, Hand, InHand
<1>27. CASE Judge
  BY <1>27 DEF Judge, Turns, TypeOK, Sending, Answering, Due, Queued, Captured, Waiting,
      Carried, Hand, InHand
<1>28. CASE TimeOut
  BY <1>28 DEF TimeOut, Turns, TypeOK, Sending, Answering, Due, Queued, Captured,
      Waiting, Carried, Hand, InHand
<1>29. CASE Kill
  BY <1>29 DEF Kill, Turns, TypeOK, Sending, Answering, Due, Queued, Captured, Waiting,
      Carried, Hand, InHand
<1>30. CASE Return
  BY <1>30 DEF Return, Turns, TypeOK, Sending, Answering, Due, Queued, Captured,
      Waiting, Carried, Hand, InHand
<1>31. CASE Expire
  BY <1>31 DEF Expire, Turns, TypeOK, Sending, Answering, Due, Queued, Captured,
      Waiting, Carried, Hand, InHand
<1>32. CASE Done
  BY <1>32 DEF Done, Turns, TypeOK, Sending, Answering, Due, Queued, Captured, Waiting,
      Carried, Hand, InHand
<1> QED BY <1>1, <1>2, <1>3, <1>4, <1>5, <1>6, <1>7, <1>8, <1>9, <1>10, <1>11, <1>12,
    <1>13, <1>14, <1>15, <1>16, <1>17, <1>18, <1>19, <1>20, <1>21, <1>22, <1>23, <1>24,
    <1>25, <1>26, <1>27, <1>28, <1>29, <1>30, <1>31, <1>32 DEF Next, Relay, Runner

\* Frames are captured before they are forwarded, and read after it.
LEMMA CountsStep ==
  ASSUME TypeOK, TypeOK', Counts, OneToken, RunnerInv, Contents, Next
  PROVE  Counts'
<1> USE DEF fixed, runner, peers, initiator, responder, relays, vars, Peers, Ways
<1>1. CASE SendCall
  BY <1>1 DEF SendCall, Counts, TypeOK, RunnerInv, Sending, Answering, Due, Queued,
      Captured, Waiting, Carried, Hand, InHand
<1>2. CASE SendSetup
  BY <1>2 DEF SendSetup, Counts, TypeOK, RunnerInv, Sending, Answering, Due, Queued,
      Captured, Waiting, Carried, Hand, InHand
<1>3. CASE ReadReply
  BY <1>3 DEF ReadReply, Counts, TypeOK, RunnerInv, Sending, Answering, Due, Queued,
      Captured, Waiting, Carried, Hand, InHand
<1>4. CASE HangUp
  BY <1>4 DEF HangUp, Counts, TypeOK, RunnerInv, Sending, Answering, Due, Queued,
      Captured, Waiting, Carried, Hand, InHand
<1>5. CASE ReadRequest
  <2>1. /\ got'["req"] = got["req"] + 1 /\ got'["resp"] = got["resp"]
        /\ Waiting("req")' = Waiting("req") - 1 /\ Waiting("resp")' = Waiting("resp")
    BY <1>5 DEF ReadRequest, TypeOK, Waiting
  <2>2. \A w \in Ways : /\ Captured(w)' = Captured(w) /\ Queued(w)' = Queued(w)
                        /\ Hand(w)' = Hand(w)
    BY <1>5 DEF ReadRequest, Hand, InHand, Captured, Queued
  <2>3. Due = 0 /\ Due' \in {0, 1}
    BY <1>5 DEF ReadRequest, Answering, Due
  <2>4. got["req"] \in Nat /\ got["resp"] \in Nat
    BY DEF TypeOK
  <2>a. /\ Waiting("req") \in Nat /\ Hand("req") \in Nat /\ Captured("req") \in Nat
        /\ Queued("resp") \in Nat /\ Captured("resp") \in Nat
    BY Named
  <2>b. /\ got["req"] + Waiting("req") + Hand("req") <= Captured("req")
        /\ Captured("resp") + Queued("resp") + Due <= got["req"]
    BY DEF Counts
  <2>5. (got["req"] + Waiting("req") + Hand("req") <= Captured("req"))'
    BY <2>1, <2>2, <2>4, <2>a, <2>b
  <2>6. (got["resp"] + Waiting("resp") + Hand("resp") <= Captured("resp"))'
    BY <2>1, <2>2 DEF Counts
  <2>7. (Captured("resp") + Queued("resp") + Due <= got["req"])'
    BY <2>1, <2>2, <2>3, <2>4, <2>a, <2>b
  <2> QED BY <2>5, <2>6, <2>7 DEF Counts
<1>6. CASE Execute
  BY <1>6 DEF Execute, Counts, TypeOK, RunnerInv, Sending, Answering, Due, Queued,
      Captured, Waiting, Carried, Hand, InHand
<1>7. CASE ReplySetup
  BY <1>7 DEF ReplySetup, Counts, TypeOK, RunnerInv, Sending, Answering, Due, Queued,
      Captured, Waiting, Carried, Hand, InHand
<1>8. CASE Reply
  BY <1>8 DEF Reply, Counts, TypeOK, RunnerInv, Sending, Answering, Due, Queued, Captured,
      Waiting, Carried, Hand, InHand
<1>9. CASE Settle
  BY <1>9 DEF Settle, Counts, TypeOK, RunnerInv, Sending, Answering, Due, Queued,
      Captured, Waiting, Carried, Hand, InHand
<1>10. CASE EndOfStream
  BY <1>10 DEF EndOfStream, Counts, TypeOK, RunnerInv, Sending, Answering, Due, Queued,
      Captured, Waiting, Carried, Hand, InHand
<1>11. CASE Listen
  BY <1>11 DEF Listen, Counts, TypeOK, RunnerInv, Sending, Answering, Due, Queued,
      Captured, Waiting, Carried, Hand, InHand
<1>12. ASSUME NEW p \in Peers, Report(p) PROVE Counts'
  <2>1. /\ UNCHANGED <<wire, out, frames, thread, got>>
        /\ at'["server"] \in {"setup", "reply"} => at["server"] \in {"setup", "reply"}
    BY <1>12 DEF Report, TypeOK
  <2>2. Due' <= Due /\ Due \in Nat /\ Due' \in Nat
    BY <2>1 DEF Due, Answering
  <2>3. \A w \in Ways : /\ Queued(w)' = Queued(w) /\ Captured(w)' = Captured(w)
                         /\ Waiting(w)' = Waiting(w) /\ Hand(w)' = Hand(w)
    BY <2>1 DEF Queued, Captured, Waiting, Hand
  <2>4. \A w \in Ways : Queued(w) \in Nat /\ Captured(w) \in Nat /\ got[w] \in Nat
    BY Named
  <2> QED BY <2>1, <2>2, <2>3, <2>4 DEF Counts
<1>13. ASSUME NEW p \in Peers, Leave(p) PROVE Counts'
  <2>1. /\ UNCHANGED <<wire, out, frames, thread, got>>
        /\ at'["server"] \in {"setup", "reply"} => at["server"] \in {"setup", "reply"}
    BY <1>13 DEF Leave, TypeOK
  <2>2. Due' <= Due /\ Due \in Nat /\ Due' \in Nat
    BY <2>1 DEF Due, Answering
  <2>3. \A w \in Ways : /\ Queued(w)' = Queued(w) /\ Captured(w)' = Captured(w)
                         /\ Waiting(w)' = Waiting(w) /\ Hand(w)' = Hand(w)
    BY <2>1 DEF Queued, Captured, Waiting, Hand
  <2>4. \A w \in Ways : Queued(w) \in Nat /\ Captured(w) \in Nat /\ got[w] \in Nat
    BY Named
  <2> QED BY <2>1, <2>2, <2>3, <2>4 DEF Counts
<1>14. ASSUME NEW p \in Peers, Crash(p) PROVE Counts'
  <2>1. /\ UNCHANGED <<wire, out, frames, thread, got>>
        /\ at'["server"] \in {"setup", "reply"} => at["server"] \in {"setup", "reply"}
    BY <1>14 DEF Crash, TypeOK
  <2>2. Due' <= Due /\ Due \in Nat /\ Due' \in Nat
    BY <2>1 DEF Due, Answering
  <2>3. \A w \in Ways : /\ Queued(w)' = Queued(w) /\ Captured(w)' = Captured(w)
                         /\ Waiting(w)' = Waiting(w) /\ Hand(w)' = Hand(w)
    BY <2>1 DEF Queued, Captured, Waiting, Hand
  <2>4. \A w \in Ways : Queued(w) \in Nat /\ Captured(w) \in Nat /\ got[w] \in Nat
    BY Named
  <2> QED BY <2>1, <2>2, <2>3, <2>4 DEF Counts
<1>15. CASE LetGo
  BY <1>15 DEF LetGo, Counts, TypeOK, RunnerInv, Sending, Answering, Due, Queued,
      Captured, Waiting, Carried, Hand, InHand
<1>16. CASE GiveUp
  BY <1>16 DEF GiveUp, Counts, TypeOK, RunnerInv, Sending, Answering, Due, Queued,
      Captured, Waiting, Carried, Hand, InHand
<1>17. ASSUME NEW w \in Ways, Capture(w) PROVE Counts'
  <2>1. /\ \A v \in Ways : Waiting(v)' = Waiting(v)
        /\ \A v \in Ways : v # w => /\ Captured(v)' = Captured(v) /\ Queued(v)' = Queued(v)
                                    /\ Hand(v)' = Hand(v)
        /\ got' = got
    BY <1>17 DEF Capture, TypeOK, Hand, InHand, Captured, Queued, Waiting
  <2>2. Hand(w) = 0 /\ Queued(w)' = Queued(w) - 1
    BY <1>17 DEF Capture, TypeOK, Hand, InHand, Queued
  <2>3. \/ Captured(w)' = Captured(w) /\ Hand(w)' = 0
        \/ Captured(w)' = Captured(w) + 1 /\ Hand(w)' = 1
    <3>1. CASE Len(frames[w]) >= Limit
      <4>1. frames' = frames /\ thread'[w] = "ended"
        BY <1>17, <3>1 DEF Capture, TypeOK
      <4> QED BY <4>1 DEF Hand, InHand, Captured
    <3>2. CASE ~(Len(frames[w]) >= Limit)
      <4>1. frames[w] \in Seq(Frames) /\ Head(wire[w]) \in Frames /\ DOMAIN frames = Ways
        BY <1>17 DEF Capture, TypeOK
      <4>2. frames'[w] = Append(frames[w], Head(wire[w])) /\ thread'[w] \in InHand
        BY <1>17, <3>2, <4>1 DEF Capture, TypeOK, InHand
      <4>3. Len(Append(frames[w], Head(wire[w]))) = Len(frames[w]) + 1
        BY <4>1, AppendProperties
      <4> QED BY <4>2, <4>3 DEF Hand, Captured
    <3> QED BY <3>1, <3>2
  <2>4. Due' = Due /\ Due \in Nat
    BY <1>17 DEF Capture, Due, Answering
  <2>5. got["req"] \in Nat /\ got["resp"] \in Nat
    BY DEF TypeOK
  <2>a. /\ Waiting(w) \in Nat /\ Hand(w) \in Nat /\ Captured(w) \in Nat /\ Queued(w) \in Nat
        /\ got[w] \in Nat
    BY Named
  <2>b. /\ got[w] + Waiting(w) + Hand(w) <= Captured(w)
        /\ Captured("resp") + Queued("resp") + Due <= got["req"]
    BY DEF Counts
  <2>6. (got[w] + Waiting(w) + Hand(w) <= Captured(w))'
    BY <2>1, <2>2, <2>3, <2>a, <2>b
  <2>7. \A v \in Ways : (got[v] + Waiting(v) + Hand(v) <= Captured(v))'
    BY <2>1, <2>6 DEF Counts
  <2>8. (Captured("resp") + Queued("resp") + Due <= got["req"])'
    <3>1. CASE w = "req"
      BY <2>1, <2>4, <3>1 DEF Counts
    <3>2. CASE w = "resp"
      <4>1. /\ Captured("resp")' <= Captured("resp") + 1 /\ Queued("resp")' = Queued("resp") - 1
            /\ Captured("resp")' \in Nat /\ Captured("resp") \in Nat /\ Queued("resp") \in Nat
        BY <2>2, <2>3, <2>a, <3>2
      <4> QED BY <2>1, <2>4, <2>5, <2>b, <4>1
    <3> QED BY <3>1, <3>2
  <2> QED BY <2>7, <2>8 DEF Counts
<1>18. ASSUME NEW w \in Ways, Forward(w) PROVE Counts'
  <2>1. /\ \A v \in Ways : Captured(v)' = Captured(v) /\ Queued(v)' = Queued(v)
        /\ \A v \in Ways : v # w => Waiting(v)' = Waiting(v) /\ Hand(v)' = Hand(v)
        /\ got' = got /\ Due' = Due
    BY <1>18 DEF Forward, TypeOK, Hand, InHand, Captured, Queued, Waiting, Due, Answering
  <2>2. Hand(w) = 1 /\ Hand(w)' = 0
    BY <1>18 DEF Forward, TypeOK, Hand, InHand
  <2>3. Waiting(w)' = Waiting(w) \/ Waiting(w)' = Waiting(w) + 1
    BY <1>18 DEF Forward, TypeOK, Waiting
  <2>4. Waiting(w) \in Nat /\ Captured(w) \in Nat /\ got[w] \in Nat
    BY Named
  <2>a. got[w] + Waiting(w) + Hand(w) <= Captured(w)
    BY DEF Counts
  <2>5. (got[w] + Waiting(w) + Hand(w) <= Captured(w))'
    BY <2>1, <2>2, <2>3, <2>4, <2>a
  <2> QED BY <2>1, <2>5 DEF Counts
<1>19. ASSUME NEW w \in Ways, PassEnd(w) PROVE Counts'
  BY <1>19 DEF PassEnd, Counts, TypeOK, RunnerInv, Sending, Answering, Due, Queued,
      Captured, Waiting, Carried, Hand, InHand
<1>20. ASSUME NEW w \in Ways, Broken(w) PROVE Counts'
  BY <1>20 DEF Broken, Counts, TypeOK, RunnerInv, Sending, Answering, Due, Queued,
      Captured, Waiting, Carried, Hand, InHand
<1>21. CASE Look
  BY <1>21 DEF Look, Counts, TypeOK, RunnerInv, Sending, Answering, Due, Queued, Captured,
      Waiting, Carried, Hand, InHand
<1>22. CASE Ask
  BY <1>22 DEF Ask, Counts, TypeOK, RunnerInv, Sending, Answering, Due, Queued, Captured,
      Waiting, Carried, Hand, InHand
<1>23. CASE Connect
  BY <1>23 DEF Connect, Counts, TypeOK, RunnerInv, Sending, Answering, Due, Queued,
      Captured, Waiting, Carried, Hand, InHand
<1>24. CASE Accept
  BY <1>24 DEF Accept, Counts, TypeOK, RunnerInv, Sending, Answering, Due, Queued,
      Captured, Waiting, Carried, Hand, InHand
<1>25. CASE Release
  BY <1>25 DEF Release, Counts, TypeOK, RunnerInv, Sending, Answering, Due, Queued,
      Captured, Waiting, Carried, Hand, InHand
<1>26. CASE Reap
  BY <1>26 DEF Reap, Counts, TypeOK, RunnerInv, Sending, Answering, Due, Queued, Captured,
      Waiting, Carried, Hand, InHand
<1>27. CASE Judge
  BY <1>27 DEF Judge, Counts, TypeOK, RunnerInv, Sending, Answering, Due, Queued,
      Captured, Waiting, Carried, Hand, InHand
<1>28. CASE TimeOut
  BY <1>28 DEF TimeOut, Counts, TypeOK, RunnerInv, Sending, Answering, Due, Queued,
      Captured, Waiting, Carried, Hand, InHand
<1>29. CASE Kill
  BY <1>29 DEF Kill, Counts, TypeOK, RunnerInv, Sending, Answering, Due, Queued, Captured,
      Waiting, Carried, Hand, InHand
<1>30. CASE Return
  BY <1>30 DEF Return, Counts, TypeOK, RunnerInv, Sending, Answering, Due, Queued,
      Captured, Waiting, Carried, Hand, InHand
<1>31. CASE Expire
  BY <1>31 DEF Expire, Counts, TypeOK, RunnerInv, Sending, Answering, Due, Queued,
      Captured, Waiting, Carried, Hand, InHand
<1>32. CASE Done
  BY <1>32 DEF Done, Counts, TypeOK, RunnerInv, Sending, Answering, Due, Queued, Captured,
      Waiting, Carried, Hand, InHand
<1> QED BY <1>1, <1>2, <1>3, <1>4, <1>5, <1>6, <1>7, <1>8, <1>9, <1>10, <1>11, <1>12,
    <1>13, <1>14, <1>15, <1>16, <1>17, <1>18, <1>19, <1>20, <1>21, <1>22, <1>23, <1>24,
    <1>25, <1>26, <1>27, <1>28, <1>29, <1>30, <1>31, <1>32 DEF Next, Relay, Runner

\* With one token on its way, the number of captured replies is the number of
\* attempts, so that a held reply waits for the marker of its own attempt.
LEMMA ClockStep ==
  ASSUME ProtectedPairAssumption, TypeOK, TypeOK', OneToken, Contents, Turns, Counts, Clock,
         Next
  PROVE  Clock'
<1> USE DEF fixed, runner, peers, initiator, responder, relays, vars, Peers, Ways
<1>1. CASE SendCall
  <2>1. /\ clock' = attempts /\ marker' = marker /\ replies' = replies /\ mode' = mode
        /\ at["client"] = "call" /\ out' = out /\ frames' = frames /\ thread' = thread
    BY <1>1 DEF SendCall
  <2>2. mode = "protected" => clock' <= marker' /\ marker' <= replies'
    BY <2>1 DEF Clock, TypeOK
  <2>3. at'["client"] = "await"
    BY <1>1 DEF SendCall, TypeOK
  <2>4. Len(out["resp"]) = 0 /\ Hand("resp") = 0
    BY <2>1, Empty DEF OneToken, Sending
  <2>5. thread["resp"] # "send" /\ \A i \in 1..Len(out["resp"]) : FALSE
    BY <2>4 DEF Hand, InHand
  <2> QED BY <2>1, <2>2, <2>3, <2>5 DEF Clock
<1>2. CASE SendSetup
  <2>1. /\ clock' = clock /\ marker' = marker /\ replies' = replies /\ mode' = mode
        /\ at["client"] = "start" /\ out' = out /\ frames' = frames /\ thread' = thread
    BY <1>2 DEF SendSetup
  <2>2. at'["client"] = "await"
    BY <1>2 DEF SendSetup, TypeOK
  <2>3. Len(out["resp"]) = 0 /\ Hand("resp") = 0
    BY <2>1, Empty DEF OneToken, Sending
  <2>4. thread["resp"] # "send" /\ \A i \in 1..Len(out["resp"]) : FALSE
    BY <2>3 DEF Hand, InHand
  <2> QED BY <2>1, <2>2, <2>4 DEF Clock
<1>3. CASE ReadReply
  <2> DEFINE reply == Head(out["resp"])
  <2>1. /\ at["client"] = "await" /\ attempts' = attempts /\ mode' = mode /\ marker' = marker
        /\ clock' = clock /\ replies' = replies /\ at'["client"] = After(reply)
        /\ Len(out["resp"]) > 0 /\ reply = out["resp"][1] /\ 1 \in 1..Len(out["resp"])
    BY <1>3 DEF ReadReply, TypeOK
  <2>2. reply = "pending" => (mode = "protected" => marker >= attempts)
    BY <2>1 DEF Clock
  <2>3. Fits("resp", reply)
    BY <2>1 DEF Contents
  <2>4. reply # "pending" /\ at'["client"] = "call" => attempts = 0
    BY <2>1, <2>3 DEF After, Fits
  <2>5. at'["client"] = "call" => (mode = "protected" => marker >= attempts)
    <3>1. marker \in Nat
      BY DEF TypeOK
    <3> QED BY <2>2, <2>4, <3>1
  <2>6. at'["client"] # "await"
    BY <2>1 DEF After
  <2> QED BY <2>1, <2>5, <2>6 DEF Clock
<1>4. CASE HangUp
  BY <1>4 DEF HangUp, Clock, TypeOK
<1>5. CASE ReadRequest
  BY <1>5 DEF ReadRequest, Clock, TypeOK
<1>6. CASE Execute
  BY <1>6 DEF Execute, Clock, TypeOK
<1>7. CASE ReplySetup
  BY <1>7 DEF ReplySetup, Clock, TypeOK
<1>8. CASE Reply
  BY <1>8 DEF Reply, Clock, TypeOK
<1>9. CASE Settle
  BY <1>9 DEF Settle, Clock, TypeOK
<1>10. CASE EndOfStream
  BY <1>10 DEF EndOfStream, Clock, TypeOK
<1>11. CASE Listen
  BY <1>11 DEF Listen, Clock, TypeOK
<1>12. ASSUME NEW p \in Peers, Report(p) PROVE Clock'
  BY <1>12 DEF Report, Clock, TypeOK
<1>13. ASSUME NEW p \in Peers, Leave(p) PROVE Clock'
  BY <1>13 DEF Leave, Clock, TypeOK
<1>14. ASSUME NEW p \in Peers, Crash(p) PROVE Clock'
  BY <1>14 DEF Crash, Clock, TypeOK
<1>15. CASE LetGo
  <2>1. /\ clock' = clock /\ marker' = marker /\ replies' = replies /\ attempts' = attempts
        /\ mode' = mode /\ at' = at /\ out' = out /\ frames' = frames
    BY <1>15 DEF LetGo
  <2>2. thread["resp"] = "hold" /\ marker = Len(frames["resp"]) - Setup
    BY <1>15 DEF LetGo, Settled, Expected
  <2>3. /\ attempts \in Nat /\ Setup \in Nat /\ got["resp"] \in Nat /\ Waiting("resp") \in Nat
        /\ Captured("resp") \in Nat /\ marker = Captured("resp") - Setup
    BY <2>2, Named DEF TypeOK, ProtectedPairAssumption, Captured
  <2>4. got["resp"] + Waiting("resp") + 1 <= Captured("resp")
    BY <2>2 DEF Counts, Hand, InHand
  <2>5. Fits("resp", frames["resp"][Len(frames["resp"])])
    BY <2>2 DEF Contents, InHand
  <2>6. ASSUME at["client"] = "await", frames["resp"][Len(frames["resp"])] = "pending"
        PROVE  marker >= attempts
    <3>1. attempts # 0
      BY <2>5, <2>6 DEF Fits
    <3>2. got["resp"] = Setup + attempts - 1
      BY <2>6, <3>1 DEF Turns
    <3> QED BY <2>3, <2>4, <3>2
  <2> QED BY <2>1, <2>6 DEF Clock
<1>16. CASE GiveUp
  BY <1>16 DEF GiveUp, Clock, TypeOK
<1>17. ASSUME NEW w \in Ways, Capture(w) PROVE Clock'
  <2>1. /\ clock' = clock /\ marker' = marker /\ replies' = replies /\ attempts' = attempts
        /\ mode' = mode /\ at' = at /\ out' = out
    BY <1>17 DEF Capture
  <2>2. CASE w = "req"
    <3>1. thread'["resp"] = thread["resp"] /\ frames'["resp"] = frames["resp"]
      BY <2>2, <1>17 DEF Capture, TypeOK
    <3> QED BY <2>1, <3>1 DEF Clock
  <2>3. CASE w = "resp"
    <3>1. thread'["resp"] = "send" =>
            /\ ~Held("resp", Head(wire["resp"]))
            /\ frames'["resp"] = Append(frames["resp"], Head(wire["resp"]))
      BY <2>3, <1>17 DEF Capture, TypeOK
    <3>2. Head(wire["resp"]) \in Frames /\ frames["resp"] \in Seq(Frames)
      BY <2>3, <1>17 DEF Capture, TypeOK
    <3>3. thread'["resp"] = "send" /\ mode = "protected" =>
            frames'["resp"][Len(frames'["resp"])] # "pending"
      BY <3>1, <3>2 DEF Held
    <3> QED BY <2>1, <3>3 DEF Clock
  <2> QED BY <2>2, <2>3
<1>18. ASSUME NEW w \in Ways, Forward(w) PROVE Clock'
  <2>1. /\ clock' = clock /\ marker' = marker /\ replies' = replies /\ attempts' = attempts
        /\ mode' = mode /\ at' = at /\ frames' = frames
    BY <1>18 DEF Forward
  <2>2. CASE w = "req"
    <3>1. thread'["resp"] = thread["resp"] /\ out'["resp"] = out["resp"]
      BY <2>2, <1>18 DEF Forward, TypeOK
    <3> QED BY <2>1, <3>1 DEF Clock
  <2>3. CASE w = "resp"
    <3> DEFINE frame == frames["resp"][Len(frames["resp"])]
    <3>1. thread["resp"] = "send" /\ thread'["resp"] # "send"
      BY <2>3, <1>18 DEF Forward, TypeOK
    <3>2. out'["resp"] = out["resp"] \/ out'["resp"] = Append(out["resp"], frame)
      BY <2>3, <1>18 DEF Forward, TypeOK
    <3>3. out["resp"] \in Seq(Frames)
      BY DEF TypeOK
    <3>4. \A i \in 1..Len(out'["resp"]) :
            \/ out'["resp"][i] = frame
            \/ i \in 1..Len(out["resp"]) /\ out'["resp"][i] = out["resp"][i]
      BY <3>2, <3>3
    <3>5. mode = "protected" /\ at["client"] = "await" /\ frame = "pending" => marker >= attempts
      BY <3>1 DEF Clock
    <3>6. mode = "protected" /\ at["client"] = "await" =>
            \A i \in 1..Len(out'["resp"]) : out'["resp"][i] = "pending" => marker >= attempts
      BY <3>4, <3>5 DEF Clock
    <3> QED BY <2>1, <3>1, <3>6 DEF Clock
  <2> QED BY <2>2, <2>3
<1>19. ASSUME NEW w \in Ways, PassEnd(w) PROVE Clock'
  BY <1>19 DEF PassEnd, Clock, TypeOK
<1>20. ASSUME NEW w \in Ways, Broken(w) PROVE Clock'
  BY <1>20 DEF Broken, Clock, TypeOK
<1>21. CASE Look
  BY <1>21 DEF Look, Clock, TypeOK
<1>22. CASE Ask
  BY <1>22 DEF Ask, Clock, TypeOK
<1>23. CASE Connect
  BY <1>23 DEF Connect, Clock, TypeOK
<1>24. CASE Accept
  BY <1>24 DEF Accept, Clock, TypeOK
<1>25. CASE Release
  BY <1>25 DEF Release, Clock, TypeOK
<1>26. CASE Reap
  BY <1>26 DEF Reap, Clock, TypeOK
<1>27. CASE Judge
  BY <1>27 DEF Judge, Clock, TypeOK
<1>28. CASE TimeOut
  BY <1>28 DEF TimeOut, Clock, TypeOK
<1>29. CASE Kill
  BY <1>29 DEF Kill, Clock, TypeOK
<1>30. CASE Return
  BY <1>30 DEF Return, Clock, TypeOK
<1>31. CASE Expire
  BY <1>31 DEF Expire, Clock, TypeOK
<1>32. CASE Done
  BY <1>32 DEF Done, Clock, TypeOK
<1> QED BY <1>1, <1>2, <1>3, <1>4, <1>5, <1>6, <1>7, <1>8, <1>9, <1>10, <1>11, <1>12,
    <1>13, <1>14, <1>15, <1>16, <1>17, <1>18, <1>19, <1>20, <1>21, <1>22, <1>23, <1>24,
    <1>25, <1>26, <1>27, <1>28, <1>29, <1>30, <1>31, <1>32 DEF Next, Relay, Runner

\* A setup pair makes no call.
LEMMA QuietStep ==
  ASSUME TypeOK, Contents, Turns, Quiet, Next
  PROVE  Quiet'
<1> USE DEF fixed, runner, peers, initiator, responder, relays, vars, Peers, Ways
<1>1. CASE SendCall
  <2>1. mode # "setup" /\ mode' = mode
    BY <1>1 DEF SendCall, Turns
  <2> QED BY <2>1 DEF Quiet
<1>2. CASE SendSetup
  BY <1>2 DEF SendSetup, Quiet
<1>3. CASE ReadReply
  BY <1>3 DEF ReadReply, Quiet
<1>4. CASE HangUp
  BY <1>4 DEF HangUp, Quiet
<1>5. CASE ReadRequest
  <2>1. mode' = mode /\ attempts' = attempts /\ effects' = effects
    BY <1>5 DEF ReadRequest
  <2>2. ASSUME mode = "setup" PROVE ledger' = ledger
    <3>1. attempts = 0 /\ 1 \in 1..Len(out["req"]) /\ Head(out["req"]) = out["req"][1]
      BY <2>2, <1>5 DEF Quiet, ReadRequest, TypeOK
    <3>2. Head(out["req"]) = "setup"
      BY <3>1 DEF Contents, Fits
    <3> QED BY <3>2, <1>5 DEF ReadRequest
  <2> QED BY <2>1, <2>2 DEF Quiet
<1>6. CASE Execute
  BY <1>6 DEF Execute, Quiet
<1>7. CASE ReplySetup
  BY <1>7 DEF ReplySetup, Quiet
<1>8. CASE Reply
  BY <1>8 DEF Reply, Quiet
<1>9. CASE Settle
  BY <1>9 DEF Settle, Quiet
<1>10. CASE EndOfStream
  BY <1>10 DEF EndOfStream, Quiet
<1>11. CASE Listen
  BY <1>11 DEF Listen, Quiet
<1>12. ASSUME NEW p \in Peers, Report(p) PROVE Quiet'
  BY <1>12 DEF Report, Quiet
<1>13. ASSUME NEW p \in Peers, Leave(p) PROVE Quiet'
  BY <1>13 DEF Leave, Quiet
<1>14. ASSUME NEW p \in Peers, Crash(p) PROVE Quiet'
  BY <1>14 DEF Crash, Quiet
<1>15. CASE LetGo
  BY <1>15 DEF LetGo, Quiet
<1>16. CASE GiveUp
  BY <1>16 DEF GiveUp, Quiet
<1>17. ASSUME NEW w \in Ways, Capture(w) PROVE Quiet'
  BY <1>17 DEF Capture, Quiet
<1>18. ASSUME NEW w \in Ways, Forward(w) PROVE Quiet'
  BY <1>18 DEF Forward, Quiet
<1>19. ASSUME NEW w \in Ways, PassEnd(w) PROVE Quiet'
  BY <1>19 DEF PassEnd, Quiet
<1>20. ASSUME NEW w \in Ways, Broken(w) PROVE Quiet'
  BY <1>20 DEF Broken, Quiet
<1>21. CASE Look
  BY <1>21 DEF Look, Quiet
<1>22. CASE Ask
  BY <1>22 DEF Ask, Quiet
<1>23. CASE Connect
  BY <1>23 DEF Connect, Quiet
<1>24. CASE Accept
  BY <1>24 DEF Accept, Quiet
<1>25. CASE Release
  BY <1>25 DEF Release, Quiet
<1>26. CASE Reap
  BY <1>26 DEF Reap, Quiet
<1>27. CASE Judge
  BY <1>27 DEF Judge, Quiet
<1>28. CASE TimeOut
  BY <1>28 DEF TimeOut, Quiet
<1>29. CASE Kill
  BY <1>29 DEF Kill, Quiet
<1>30. CASE Return
  BY <1>30 DEF Return, Quiet
<1>31. CASE Expire
  BY <1>31 DEF Expire, Quiet
<1>32. CASE Done
  BY <1>32 DEF Done, Quiet
<1> QED BY <1>1, <1>2, <1>3, <1>4, <1>5, <1>6, <1>7, <1>8, <1>9, <1>10, <1>11, <1>12,
    <1>13, <1>14, <1>15, <1>16, <1>17, <1>18, <1>19, <1>20, <1>21, <1>22, <1>23, <1>24,
    <1>25, <1>26, <1>27, <1>28, <1>29, <1>30, <1>31, <1>32 DEF Next, Relay, Runner

\* Only a process that has ended has an exit code.
LEMMA ExitsStep ==
  ASSUME TypeOK, Exits, Next
  PROVE  Exits'
<1> USE DEF fixed, runner, peers, initiator, responder, relays, vars, Peers, Ways
<1>1. CASE SendCall
  BY <1>1 DEF SendCall, TypeOK, Exits, Fail
<1>2. CASE SendSetup
  BY <1>2 DEF SendSetup, TypeOK, Exits, Fail
<1>3. CASE ReadReply
  BY <1>3 DEF ReadReply, TypeOK, Exits, Fail
<1>4. CASE HangUp
  BY <1>4 DEF HangUp, TypeOK, Exits, Fail
<1>5. CASE ReadRequest
  BY <1>5 DEF ReadRequest, TypeOK, Exits, Fail
<1>6. CASE Execute
  BY <1>6 DEF Execute, TypeOK, Exits, Fail
<1>7. CASE ReplySetup
  BY <1>7 DEF ReplySetup, TypeOK, Exits, Fail
<1>8. CASE Reply
  BY <1>8 DEF Reply, TypeOK, Exits, Fail
<1>9. CASE Settle
  BY <1>9 DEF Settle, TypeOK, Exits, Fail
<1>10. CASE EndOfStream
  BY <1>10 DEF EndOfStream, TypeOK, Exits, Fail
<1>11. CASE Listen
  BY <1>11 DEF Listen, TypeOK, Exits, Fail
<1>12. ASSUME NEW p \in Peers, Report(p) PROVE Exits'
  BY <1>12 DEF Report, TypeOK, Exits, Fail
<1>13. ASSUME NEW p \in Peers, Leave(p) PROVE Exits'
  BY <1>13 DEF Leave, TypeOK, Exits, Fail
<1>14. ASSUME NEW p \in Peers, Crash(p) PROVE Exits'
  BY <1>14 DEF Crash, TypeOK, Exits, Fail
<1>15. CASE LetGo
  BY <1>15 DEF LetGo, TypeOK, Exits, Fail
<1>16. CASE GiveUp
  BY <1>16 DEF GiveUp, TypeOK, Exits, Fail
<1>17. ASSUME NEW w \in Ways, Capture(w) PROVE Exits'
  BY <1>17 DEF Capture, TypeOK, Exits, Fail
<1>18. ASSUME NEW w \in Ways, Forward(w) PROVE Exits'
  BY <1>18 DEF Forward, TypeOK, Exits, Fail
<1>19. ASSUME NEW w \in Ways, PassEnd(w) PROVE Exits'
  BY <1>19 DEF PassEnd, TypeOK, Exits, Fail
<1>20. ASSUME NEW w \in Ways, Broken(w) PROVE Exits'
  BY <1>20 DEF Broken, TypeOK, Exits, Fail
<1>21. CASE Look
  BY <1>21 DEF Look, TypeOK, Exits, Fail
<1>22. CASE Ask
  BY <1>22 DEF Ask, TypeOK, Exits, Fail
<1>23. CASE Connect
  BY <1>23 DEF Connect, TypeOK, Exits, Fail
<1>24. CASE Accept
  BY <1>24 DEF Accept, TypeOK, Exits, Fail
<1>25. CASE Release
  BY <1>25 DEF Release, TypeOK, Exits, Fail
<1>26. CASE Reap
  BY <1>26 DEF Reap, TypeOK, Exits, Fail
<1>27. CASE Judge
  BY <1>27 DEF Judge, TypeOK, Exits, Fail
<1>28. CASE TimeOut
  BY <1>28 DEF TimeOut, TypeOK, Exits, Fail
<1>29. CASE Kill
  BY <1>29 DEF Kill, TypeOK, Exits, Fail
<1>30. CASE Return
  BY <1>30 DEF Return, TypeOK, Exits, Fail
<1>31. CASE Expire
  BY <1>31 DEF Expire, TypeOK, Exits, Fail
<1>32. CASE Done
  BY <1>32 DEF Done, TypeOK, Exits, Fail
<1> QED BY <1>1, <1>2, <1>3, <1>4, <1>5, <1>6, <1>7, <1>8, <1>9, <1>10, <1>11, <1>12,
    <1>13, <1>14, <1>15, <1>16, <1>17, <1>18, <1>19, <1>20, <1>21, <1>22, <1>23, <1>24,
    <1>25, <1>26, <1>27, <1>28, <1>29, <1>30, <1>31, <1>32 DEF Next, Relay, Runner

\* The relays start after the initiator has connected.
LEMMA RunnerStep ==
  ASSUME TypeOK, RunnerInv, Next
  PROVE  RunnerInv'
<1> USE DEF fixed, runner, peers, initiator, responder, relays, vars, Peers, Ways,
    Rendezvous
<1>1. CASE SendCall
  BY <1>1 DEF SendCall, TypeOK, RunnerInv, Fail, Next1
<1>2. CASE SendSetup
  BY <1>2 DEF SendSetup, TypeOK, RunnerInv, Fail, Next1
<1>3. CASE ReadReply
  BY <1>3 DEF ReadReply, TypeOK, RunnerInv, Fail, Next1
<1>4. CASE HangUp
  BY <1>4 DEF HangUp, TypeOK, RunnerInv, Fail, Next1
<1>5. CASE ReadRequest
  BY <1>5 DEF ReadRequest, TypeOK, RunnerInv, Fail, Next1
<1>6. CASE Execute
  BY <1>6 DEF Execute, TypeOK, RunnerInv, Fail, Next1
<1>7. CASE ReplySetup
  BY <1>7 DEF ReplySetup, TypeOK, RunnerInv, Fail, Next1
<1>8. CASE Reply
  BY <1>8 DEF Reply, TypeOK, RunnerInv, Fail, Next1
<1>9. CASE Settle
  BY <1>9 DEF Settle, TypeOK, RunnerInv, Fail, Next1
<1>10. CASE EndOfStream
  BY <1>10 DEF EndOfStream, TypeOK, RunnerInv, Fail, Next1
<1>11. CASE Listen
  BY <1>11 DEF Listen, TypeOK, RunnerInv, Fail, Next1
<1>12. ASSUME NEW p \in Peers, Report(p) PROVE RunnerInv'
  BY <1>12 DEF Report, TypeOK, RunnerInv, Fail, Next1
<1>13. ASSUME NEW p \in Peers, Leave(p) PROVE RunnerInv'
  BY <1>13 DEF Leave, TypeOK, RunnerInv, Fail, Next1
<1>14. ASSUME NEW p \in Peers, Crash(p) PROVE RunnerInv'
  BY <1>14 DEF Crash, TypeOK, RunnerInv, Fail, Next1
<1>15. CASE LetGo
  BY <1>15 DEF LetGo, TypeOK, RunnerInv, Fail, Next1
<1>16. CASE GiveUp
  BY <1>16 DEF GiveUp, TypeOK, RunnerInv, Fail, Next1
<1>17. ASSUME NEW w \in Ways, Capture(w) PROVE RunnerInv'
  BY <1>17 DEF Capture, TypeOK, RunnerInv, Fail, Next1
<1>18. ASSUME NEW w \in Ways, Forward(w) PROVE RunnerInv'
  BY <1>18 DEF Forward, TypeOK, RunnerInv, Fail, Next1
<1>19. ASSUME NEW w \in Ways, PassEnd(w) PROVE RunnerInv'
  BY <1>19 DEF PassEnd, TypeOK, RunnerInv, Fail, Next1
<1>20. ASSUME NEW w \in Ways, Broken(w) PROVE RunnerInv'
  BY <1>20 DEF Broken, TypeOK, RunnerInv, Fail, Next1
<1>21. CASE Look
  BY <1>21 DEF Look, TypeOK, RunnerInv, Fail, Next1
<1>22. CASE Ask
  BY <1>22 DEF Ask, TypeOK, RunnerInv, Fail, Next1
<1>23. CASE Connect
  BY <1>23 DEF Connect, TypeOK, RunnerInv, Fail, Next1
<1>24. CASE Accept
  BY <1>24 DEF Accept, TypeOK, RunnerInv, Fail, Next1
<1>25. CASE Release
  BY <1>25 DEF Release, TypeOK, RunnerInv, Fail, Next1
<1>26. CASE Reap
  BY <1>26 DEF Reap, TypeOK, RunnerInv, Fail, Next1
<1>27. CASE Judge
  BY <1>27 DEF Judge, TypeOK, RunnerInv, Fail, Next1
<1>28. CASE TimeOut
  BY <1>28 DEF TimeOut, TypeOK, RunnerInv, Fail, Next1
<1>29. CASE Kill
  BY <1>29 DEF Kill, TypeOK, RunnerInv, Fail, Next1
<1>30. CASE Return
  BY <1>30 DEF Return, TypeOK, RunnerInv, Fail, Next1
<1>31. CASE Expire
  BY <1>31 DEF Expire, TypeOK, RunnerInv, Fail, Next1
<1>32. CASE Done
  BY <1>32 DEF Done, TypeOK, RunnerInv, Fail, Next1
<1> QED BY <1>1, <1>2, <1>3, <1>4, <1>5, <1>6, <1>7, <1>8, <1>9, <1>10, <1>11, <1>12,
    <1>13, <1>14, <1>15, <1>16, <1>17, <1>18, <1>19, <1>20, <1>21, <1>22, <1>23, <1>24,
    <1>25, <1>26, <1>27, <1>28, <1>29, <1>30, <1>31, <1>32 DEF Next, Relay, Runner

\* The capture is complete on both sides because nothing is captured that was
\* not read before the good exits.
LEMMA WhatAcceptedMeans ==
  ASSUME ProtectedPairAssumption, TypeOK, Turns, Quiet, Counts, Accepted
  PROVE  /\ \A w \in Ways : got[w] = Len(frames[w])
         /\ mode # "setup" => ledger = Complete
         /\ effects = IF mode = "protected" THEN 1 ELSE 0
         /\ mode = "client" => got["req"] = Setup
<1>1. /\ got["req"] \in Nat /\ got["resp"] \in Nat /\ Setup \in Nat /\ attempts \in Nat
      /\ Captured("req") \in Nat /\ Captured("resp") \in Nat
      /\ Captured("req") = Len(frames["req"]) /\ Captured("resp") = Len(frames["resp"])
  BY Named DEF TypeOK, ProtectedPairAssumption, Ways, Captured
<1>a. \A w \in Ways : Waiting(w) \in Nat /\ Hand(w) \in Nat /\ Queued(w) \in Nat
  BY Named
<1>2. got["req"] <= Captured("req")
  BY <1>1, <1>a DEF Counts, Ways
<1>3. got["resp"] <= Captured("resp")
  BY <1>1, <1>a DEF Counts, Ways
<1>4. Captured("resp") <= got["req"]
  <2>1. Due \in Nat
    BY DEF Due
  <2> QED BY <1>1, <1>a, <2>1 DEF Counts, Ways
<1>5. got["resp"] >= Setup + attempts
  BY DEF Accepted, Turns, Peers
<1>6. CASE mode = "setup"
  <2>1. Len(frames["req"]) = Setup /\ Len(frames["resp"]) = Setup /\ attempts = 0 /\ effects = 0
    BY <1>6 DEF Accepted, Ways, Quiet
  <2>2. got["resp"] = Setup /\ got["req"] = Setup
    BY <1>1, <1>2, <1>3, <1>4, <1>5, <2>1
  <2> QED BY <1>6, <2>1, <2>2 DEF Ways
<1>7. ASSUME Validate
      PROVE  /\ \A w \in Ways : got[w] = Len(frames[w])
             /\ ledger = Complete
  <2>1. /\ Len(frames["resp"]) = Setup + (Len(frames["req"]) - Setup)
        /\ attempts = Len(frames["req"]) - Setup
    BY <1>7 DEF Validate, Count
  <2>2. got["resp"] = Len(frames["resp"]) /\ got["req"] = Len(frames["req"])
    BY <1>1, <1>2, <1>3, <1>4, <1>5, <2>1
  <2> QED BY <1>7, <2>2 DEF Ways, Validate
<1>8. CASE mode = "protected"
  BY <1>7, <1>8 DEF Accepted
<1>9. CASE mode = "server"
  BY <1>7, <1>9 DEF Accepted, ValidateRecovery
<1>10. CASE mode = "client"
  <2>1. /\ Len(frames["req"]) = Setup /\ Len(frames["resp"]) = Setup
        /\ effects = 0 /\ ledger = Complete
    BY <1>10 DEF Accepted, Ways, ValidateRecovery
  <2>2. got["resp"] = Setup /\ got["req"] = Setup
    BY <1>1, <1>2, <1>3, <1>4, <1>5, <2>1
  <2> QED BY <1>10, <2>1, <2>2 DEF Ways
<1> QED BY <1>6, <1>8, <1>9, <1>10 DEF TypeOK, PairModes

\* After the verdict both peers are gone and both relays ended: it cannot age.
LEMMA PassedStep ==
  ASSUME ProtectedPairAssumption, TypeOK, TypeOK', Exits, RunnerInv, Turns, Quiet, Counts,
         Passed, Next
  PROVE  Passed'
<1> USE DEF fixed, runner, peers, initiator, responder, relays, vars, Peers, Ways,
    Rendezvous
<1>1. CASE SendCall
  BY <1>1 DEF SendCall, Passed, Exits, RunnerInv, TypeOK, Fail, Next1
<1>2. CASE SendSetup
  BY <1>2 DEF SendSetup, Passed, Exits, RunnerInv, TypeOK, Fail, Next1
<1>3. CASE ReadReply
  BY <1>3 DEF ReadReply, Passed, Exits, RunnerInv, TypeOK, Fail, Next1
<1>4. CASE HangUp
  BY <1>4 DEF HangUp, Passed, Exits, RunnerInv, TypeOK, Fail, Next1
<1>5. CASE ReadRequest
  BY <1>5 DEF ReadRequest, Passed, Exits, RunnerInv, TypeOK, Fail, Next1
<1>6. CASE Execute
  <2>1. why = "passed" => Gone("server")
    BY DEF Passed, Gone
  <2>2. ~Gone("server") /\ why' = why
    BY <1>6 DEF Execute
  <2> QED BY <2>1, <2>2 DEF Passed
<1>7. CASE ReplySetup
  BY <1>7 DEF ReplySetup, Passed, Exits, RunnerInv, TypeOK, Fail, Next1
<1>8. CASE Reply
  BY <1>8 DEF Reply, Passed, Exits, RunnerInv, TypeOK, Fail, Next1
<1>9. CASE Settle
  BY <1>9 DEF Settle, Passed, Exits, RunnerInv, TypeOK, Fail, Next1
<1>10. CASE EndOfStream
  BY <1>10 DEF EndOfStream, Passed, Exits, RunnerInv, TypeOK, Fail, Next1
<1>11. CASE Listen
  BY <1>11 DEF Listen, Passed, Exits, RunnerInv, TypeOK, Fail, Next1
<1>12. ASSUME NEW p \in Peers, Report(p) PROVE Passed'
  BY <1>12 DEF Report, Passed, Exits, RunnerInv, TypeOK, Fail, Next1
<1>13. ASSUME NEW p \in Peers, Leave(p) PROVE Passed'
  BY <1>13 DEF Leave, Passed, Exits, RunnerInv, TypeOK, Fail, Next1
<1>14. ASSUME NEW p \in Peers, Crash(p) PROVE Passed'
  BY <1>14 DEF Crash, Passed, Exits, RunnerInv, TypeOK, Fail, Next1
<1>15. CASE LetGo
  BY <1>15 DEF LetGo, Passed, Exits, RunnerInv, TypeOK, Fail, Next1
<1>16. CASE GiveUp
  BY <1>16 DEF GiveUp, Passed, Exits, RunnerInv, TypeOK, Fail, Next1
<1>17. ASSUME NEW w \in Ways, Capture(w) PROVE Passed'
  BY <1>17 DEF Capture, Passed, Exits, RunnerInv, TypeOK, Fail, Next1
<1>18. ASSUME NEW w \in Ways, Forward(w) PROVE Passed'
  BY <1>18 DEF Forward, Passed, Exits, RunnerInv, TypeOK, Fail, Next1
<1>19. ASSUME NEW w \in Ways, PassEnd(w) PROVE Passed'
  BY <1>19 DEF PassEnd, Passed, Exits, RunnerInv, TypeOK, Fail, Next1
<1>20. ASSUME NEW w \in Ways, Broken(w) PROVE Passed'
  BY <1>20 DEF Broken, Passed, Exits, RunnerInv, TypeOK, Fail, Next1
<1>21. CASE Look
  BY <1>21 DEF Look, Passed, Exits, RunnerInv, TypeOK, Fail, Next1
<1>22. CASE Ask
  BY <1>22 DEF Ask, Passed, Exits, RunnerInv, TypeOK, Fail, Next1
<1>23. CASE Connect
  BY <1>23 DEF Connect, Passed, Exits, RunnerInv, TypeOK, Fail, Next1
<1>24. CASE Accept
  BY <1>24 DEF Accept, Passed, Exits, RunnerInv, TypeOK, Fail, Next1
<1>25. CASE Release
  BY <1>25 DEF Release, Passed, Exits, RunnerInv, TypeOK, Fail, Next1
<1>26. CASE Reap
  BY <1>26 DEF Reap, Passed, Exits, RunnerInv, TypeOK, Fail, Next1
<1>27. CASE Judge
  <2>1. /\ main' = "kill" /\ (why' = "passed" => Accepted)
        /\ thread' = thread /\ exit' = exit /\ got' = got /\ frames' = frames /\ mode' = mode
        /\ ledger' = ledger /\ effects' = effects
    BY <1>27 DEF Judge
  <2>2. Accepted => (\A w \in Ways : thread[w] = "ended") /\ \A p \in Peers : exit[p] = "good"
    BY DEF Accepted
  <2> QED BY <2>1, <2>2, WhatAcceptedMeans DEF Passed
<1>28. CASE TimeOut
  BY <1>28 DEF TimeOut, Passed, Exits, RunnerInv, TypeOK, Fail, Next1
<1>29. CASE Kill
  BY <1>29 DEF Kill, Passed, Exits, RunnerInv, TypeOK, Fail, Next1
<1>30. CASE Return
  BY <1>30 DEF Return, Passed, Exits, RunnerInv, TypeOK, Fail, Next1
<1>31. CASE Expire
  BY <1>31 DEF Expire, Passed, Exits, RunnerInv, TypeOK, Fail, Next1
<1>32. CASE Done
  BY <1>32 DEF Done, Passed, Exits, RunnerInv, TypeOK, Fail, Next1
<1> QED BY <1>1, <1>2, <1>3, <1>4, <1>5, <1>6, <1>7, <1>8, <1>9, <1>10, <1>11, <1>12,
    <1>13, <1>14, <1>15, <1>16, <1>17, <1>18, <1>19, <1>20, <1>21, <1>22, <1>23, <1>24,
    <1>25, <1>26, <1>27, <1>28, <1>29, <1>30, <1>31, <1>32 DEF Next, Relay, Runner

-----------------------------------------------------------------------------
(* The theorems.                                                           *)

LEMMA InitIInv == ASSUME ProtectedPairAssumption, Init PROVE IInv
<1>1. TypeOK
  BY TypeInit
<1>2. /\ \A w \in Ways : /\ Len(wire[w]) = 0 /\ Len(out[w]) = 0 /\ Len(frames[w]) = 0
                         /\ got[w] = 0 /\ Hand(w) = 0 /\ thread[w] = "off"
      /\ ~Sending /\ ~Answering /\ Due = 0
  BY DEF Init, Ways, Peers, Hand, InHand, Sending, Answering, Due
<1>3. \A w \in Ways : Carried(w) = 0
  BY <1>2 DEF Carried
<1>4. OneToken
  BY <1>2, <1>3 DEF OneToken, Ways
<1>5. Contents
  <2>1. at["server"] = "start"
    BY DEF Init, Peers
  <2> QED BY <1>2, <2>1 DEF Contents, InHand
<1>6. Turns
  BY <1>2, <1>3 DEF Init, Turns, Peers, Ways
<1>7. Counts
  <2>1. \A w \in Ways : Captured(w) = 0 /\ Queued(w) = 0 /\ Waiting(w) = 0
    BY <1>2 DEF Captured, Queued, Waiting
  <2> QED BY <1>2, <2>1 DEF Counts, Ways
<1>8. Clock
  BY DEF Init, Clock, Peers
<1>9. Quiet /\ Exits /\ RunnerInv /\ Passed
  BY DEF Init, Quiet, Exits, RunnerInv, Passed, Ways, Peers, Rendezvous
<1> QED BY <1>1, <1>4, <1>5, <1>6, <1>7, <1>8, <1>9 DEF IInv

LEMMA StepIInv ==
  ASSUME ProtectedPairAssumption, IInv, [Next]_vars
  PROVE  IInv'
<1>1. CASE Next
  <2>1. TypeOK'
    BY <1>1, TypeStep DEF IInv
  <2>2. OneToken' /\ Contents' /\ Turns'
    BY <1>1, <2>1, TokenStep, ContentsStep, TurnsStep DEF IInv
  <2>3. Counts' /\ Clock' /\ Quiet'
    BY <1>1, <2>1, CountsStep, ClockStep, QuietStep DEF IInv
  <2>4. Exits' /\ RunnerInv' /\ Passed'
    BY <1>1, <2>1, ExitsStep, RunnerStep, PassedStep DEF IInv
  <2> QED BY <2>1, <2>2, <2>3, <2>4 DEF IInv
<1>2. CASE UNCHANGED vars
  <2> USE <1>2 DEF vars
  <2>1. TypeOK' /\ OneToken' /\ Contents'
    BY DEF IInv, TypeOK, OneToken, Contents, Fits, Sending, Answering, Carried, Hand
  <2>2. Turns' /\ Counts' /\ Clock'
    BY DEF IInv, Turns, Counts, Clock, Answering, Due, Carried, Hand, Queued, Captured, Waiting
  <2>3. Quiet' /\ Exits' /\ RunnerInv' /\ Passed'
    BY DEF IInv, Quiet, Exits, RunnerInv, Passed
  <2> QED BY <2>1, <2>2, <2>3 DEF IInv
<1> QED BY <1>1, <1>2

(***************************************************************************)
(* The invariant behind the properties holds in every state.               *)
(***************************************************************************)
THEOREM Inductive == Spec => []IInv
<1>1. Init => IInv
  BY ProtectedPairAssumption, InitIInv
<1>2. IInv /\ [Next]_vars => IInv'
  BY ProtectedPairAssumption, StepIInv
<1> QED BY <1>1, <1>2, PTL DEF Spec

(***************************************************************************)
(* Every variable that counts, queues or places something keeps its type:  *)
(* no reading of a frame that is not there, no count below zero.           *)
(***************************************************************************)
THEOREM TypeCorrect == Spec => []TypeOK
<1>1. IInv => TypeOK
  BY DEF IInv
<1> QED BY Inductive, <1>1, PTL

(***************************************************************************)
(* The fixture clock never runs ahead of the responder, however many       *)
(* retries there are (run_mcp_setup_interop.py:155-156).                   *)
(***************************************************************************)
THEOREM ClockNeverAhead == Spec => []ClockWaits
<1>1. IInv => ClockWaits
  BY DEF IInv, TypeOK, Clock, ClockWaits
<1> QED BY Inductive, <1>1, PTL

(***************************************************************************)
(* A pair that is passed has earned it, with every core and every crash.   *)
(***************************************************************************)
THEOREM PairPassIsEarned == Spec => []PassIsEarned
<1>1. IInv => PassIsEarned
  BY DEF IInv, Exits, Passed, PassIsEarned
<1> QED BY Inductive, <1>1, PTL

-----------------------------------------------------------------------------
(* A pair of correct peers that are in time.                               *)

Awaited == IF at["client"] = "await" THEN 1 ELSE 0
Reported == {"release", "stop", "ended"}
Finished == Reported \cup {"report"}
Good == core = "good" /\ ~crashed /\ ~late

\* Nothing is lost: every frame sent is on its way, at work or answered.
Flow ==
  /\ got["req"] + Waiting("req") + Hand("req") = Captured("req")
  /\ got["resp"] + Waiting("resp") + Hand("resp") = Captured("resp")
  /\ Captured("req") + Queued("req") = got["resp"] + Awaited
  /\ Captured("resp") + Queued("resp") + Due = got["req"]
  /\ Waiting("resp") > 0 => out["resp"][1] = frames["resp"][Captured("resp")]

\* The server journal, and what has made it complete.
Rows ==
  /\ mode = "protected" =>
       \/ ledger \in {<<>>, <<"RESERVED">>} /\ effects = 0
       \/ ledger \in {<<"RESERVED", "EXECUTING">>, Complete} /\ effects = 1
  /\ mode \in {"server", "client"} => ledger = Complete /\ effects = 0
  /\ mode = "protected" /\ (marker > 0 \/ attempts > 1) => ledger = Complete
  /\ attempts = 0 => replies = 0
  /\ attempts > 0 => Setup + replies = Captured("resp") + Queued("resp")

\* At most one pending reply, and the last reply of a finished initiator is terminal.
Talk ==
  /\ attempts <= 2 /\ (attempts > 0 => mode \in {"protected", "server"})
  /\ at["client"] = "call" => attempts <= 1 /\ mode # "client"
  /\ attempts = 2 \/ (at["client"] = "call" /\ attempts = 1) =>
       /\ mode = "protected"
       /\ Captured("resp") > Setup /\ frames["resp"][Setup + 1] = "pending"
  /\ \A i \in 1..Captured("resp") :
       /\ i > Setup => frames["resp"][i] \in {"pending", "terminal"}
       /\ frames["resp"][i] = "pending" => i = Setup + 1 /\ mode = "protected"
       /\ frames["resp"][i] = "terminal" => ledger = Complete
  /\ \A i \in 1..Queued("resp") :
       /\ wire["resp"][i] = "pending" => attempts = 1 /\ mode = "protected"
       /\ wire["resp"][i] = "terminal" => ledger = Complete
  /\ at["client"] \in Finished =>
       /\ got["resp"] = Setup + attempts
       /\ mode \in {"protected", "server"} =>
            attempts > 0 /\ frames["resp"][Setup + attempts] = "terminal"

\* Where the peers are, and what their files tell the runner.
Stations ==
  /\ sockets /\ ~errors /\ main \notin {"kill", "over", "done"}
  /\ at["client"] \in {"off", "start", "call", "await"} \cup Finished
  /\ at["server"] \in {"start", "receive", "setup", "reply", "settle"} \cup Finished
  /\ \A p \in Peers : exit[p] = IF at[p] = "ended" THEN "good" ELSE "none"
  /\ at["client"] \in Reported <=> "client.json" \in files
  /\ at["server"] \in Reported => "server.json" \in files
  /\ at["server"] = "start" \/ "address" \in files
  /\ "release" \in files => main \in {"reap", "join"}
  /\ main \in {"server", "release", "reap", "join"} => "client.json" \in files
  /\ main = "join" => \A p \in Peers : Gone(p)
  /\ \A p \in Peers : /\ mode = "setup" /\ at[p] = "ended" => "release" \in files
                      /\ at[p] = "release" => mode = "setup"
                      /\ at[p] = "stop" => mode # "setup"

\* What the end of a peer or of a stream tells the other one.
Ends ==
  /\ \A w \in Ways : shut[w] => mode # "setup" /\ at[Source(w)] = "ended"
  /\ mode # "setup" /\ at["server"] \in Finished => at["client"] = "ended"
  /\ \A w \in Ways :
       /\ thread[w] = "off" => Captured(w) = 0
       /\ mode = "setup" /\ Captured(w) = Setup /\ Hand(w) = 0 => thread[w] = "ended"
       /\ thread[w] = "hold" => w = "resp" /\ mode = "protected" /\ attempts > 0

GoodRun == why = "none" /\ Flow /\ Rows /\ Talk /\ Stations /\ Ends

Decided ==
  /\ main \in {"kill", "over", "done"}
  /\ why = "passed" \/ (why = "exited before rendezvous" /\ written)

GoodInv == Good => GoodRun \/ Decided

\* The client journal, whatever the core.
Sends == at_sends = [n \in 1..attempts |-> n - 1]

\* The counts are natural numbers, before and after a step.
AtomsOK ==
  /\ Queued("req") \in Nat /\ Waiting("req") \in Nat /\ Captured("req") \in Nat
  /\ Queued("resp") \in Nat /\ Waiting("resp") \in Nat /\ Captured("resp") \in Nat
  /\ Hand("req") \in {0, 1} /\ Hand("resp") \in {0, 1} /\ Due \in {0, 1}
  /\ Awaited \in {0, 1} /\ got["req"] \in Nat /\ got["resp"] \in Nat
  /\ Setup \in Nat /\ attempts \in Nat /\ replies \in Nat

LEMMA Atoms == ASSUME ProtectedPairAssumption, TypeOK PROVE AtomsOK
<1>1. \A w \in Ways : /\ Queued(w) \in Nat /\ Waiting(w) \in Nat /\ Captured(w) \in Nat
                      /\ Hand(w) \in {0, 1} /\ got[w] \in Nat
  BY Named DEF Hand, TypeOK
<1> QED BY <1>1 DEF AtomsOK, Due, Awaited, TypeOK, ProtectedPairAssumption, Ways

LEMMA Balance ==
  ASSUME NEW q \in Nat, NEW h \in Nat, NEW w \in Nat, NEW c \in Nat, NEW g \in Nat,
         NEW qq \in Nat, NEW hh \in Nat, NEW ww \in Nat, NEW cc \in Nat, NEW gg \in Nat,
         NEW d \in Nat, NEW n \in Nat,
         g + w + h = c, gg + ww + hh = cc, c + q = gg + n, cc + qq + d = g
  PROVE  q + h + w + qq + hh + ww + d = n
  OBVIOUS

\* As many frames are on their way or at work as the initiator waits for.
LEMMA OneForOne ==
  ASSUME AtomsOK, Flow
  PROVE  Queued("req") + Hand("req") + Waiting("req")
           + Queued("resp") + Hand("resp") + Waiting("resp") + Due = Awaited
<1>1. /\ Queued("req") \in Nat /\ Hand("req") \in Nat /\ Waiting("req") \in Nat
      /\ Captured("req") \in Nat /\ got["req"] \in Nat
      /\ Queued("resp") \in Nat /\ Hand("resp") \in Nat /\ Waiting("resp") \in Nat
      /\ Captured("resp") \in Nat /\ got["resp"] \in Nat /\ Due \in Nat /\ Awaited \in Nat
  BY DEF AtomsOK
<1>2. /\ got["req"] + Waiting("req") + Hand("req") = Captured("req")
      /\ got["resp"] + Waiting("resp") + Hand("resp") = Captured("resp")
      /\ Captured("req") + Queued("req") = got["resp"] + Awaited
      /\ Captured("resp") + Queued("resp") + Due = got["req"]
  BY DEF Flow
<1> QED BY <1>1, <1>2, Balance

LEMMA NoneOfSeven ==
  ASSUME NEW a \in Nat, NEW b \in Nat, NEW c \in Nat, NEW d \in Nat, NEW e \in Nat,
         NEW f \in Nat, NEW g \in Nat, a + b + c + d + e + f + g = 0
  PROVE  a = 0 /\ b = 0 /\ c = 0 /\ d = 0 /\ e = 0 /\ f = 0 /\ g = 0
  OBVIOUS

\* While the initiator does not wait, every frame has been delivered.
LEMMA AllDelivered ==
  ASSUME AtomsOK, Flow, at["client"] # "await"
  PROVE  /\ Queued("req") = 0 /\ Hand("req") = 0 /\ Waiting("req") = 0
         /\ Queued("resp") = 0 /\ Hand("resp") = 0 /\ Waiting("resp") = 0 /\ Due = 0
         /\ Awaited = 0 /\ Captured("req") = got["resp"] /\ got["req"] = got["resp"]
         /\ Captured("resp") = got["resp"]
<1>1. Awaited = 0
  BY DEF Awaited
<1>2. /\ Queued("req") = 0 /\ Hand("req") = 0 /\ Waiting("req") = 0
      /\ Queued("resp") = 0 /\ Hand("resp") = 0 /\ Waiting("resp") = 0 /\ Due = 0
  <2>1. /\ Queued("req") \in Nat /\ Hand("req") \in Nat /\ Waiting("req") \in Nat
        /\ Queued("resp") \in Nat /\ Hand("resp") \in Nat /\ Waiting("resp") \in Nat
        /\ Due \in Nat
    BY DEF AtomsOK
  <2>2. Queued("req") + Hand("req") + Waiting("req")
          + Queued("resp") + Hand("resp") + Waiting("resp") + Due = 0
    BY <1>1, OneForOne
  <2> QED BY <2>1, <2>2, NoneOfSeven
<1>3. /\ got["req"] + Waiting("req") + Hand("req") = Captured("req")
      /\ got["resp"] + Waiting("resp") + Hand("resp") = Captured("resp")
      /\ Captured("req") + Queued("req") = got["resp"] + Awaited
  BY DEF Flow, Ways
<1> QED BY <1>1, <1>2, <1>3 DEF AtomsOK

\* A frame in one place means that the initiator waits and all other places are empty.
LEMMA OneIsUnderway ==
  ASSUME AtomsOK, Flow,
         Queued("req") + Hand("req") + Waiting("req")
           + Queued("resp") + Hand("resp") + Waiting("resp") + Due > 0
  PROVE  at["client"] = "await" /\ Awaited = 1
<1>1. Awaited # 0
  BY OneForOne DEF AtomsOK
<1> QED BY <1>1 DEF Awaited

\* A peer that is gone has been released by, or has outlived, a finished initiator.
LEMMA ServerOutlives ==
  ASSUME TypeOK, Stations, Ends, Gone("server") \/ at["server"] = "ended"
  PROVE  at["client"] \in Finished
<1>1. at["server"] = "ended"
  BY DEF Stations, Gone, Peers
<1>2. CASE mode # "setup"
  BY <1>1, <1>2 DEF Ends, Finished, Reported
<1>3. CASE mode = "setup"
  <2>1. "release" \in files
    BY <1>1, <1>3 DEF Stations, Peers
  <2>2. "client.json" \in files
    BY <2>1 DEF Stations
  <2> QED BY <2>2 DEF Stations, Finished
<1> QED BY <1>2, <1>3

LEMMA ClientGone ==
  ASSUME TypeOK, Stations, Gone("client")
  PROVE  at["client"] \in Finished
  BY DEF Stations, Gone, Peers, Finished, Reported

\* No reply comes before its call: the replies are at most the attempts.
LEMMA RepliesFollow ==
  ASSUME AtomsOK, Flow, Rows, Talk, Turns, Stations
  PROVE  replies <= attempts
<1>1. CASE attempts = 0
  BY <1>1 DEF Rows, AtomsOK
<1>2. CASE attempts > 0
  <2>1. got["resp"] + Awaited = Setup + attempts
    <3>1. CASE at["client"] = "await"
      BY <1>2, <3>1 DEF Turns, Awaited, AtomsOK
    <3>2. CASE at["client"] # "await"
      BY <1>2, <3>2 DEF Turns, Awaited, AtomsOK, Talk, Stations
    <3> QED BY <3>1, <3>2
  <2>2. got["req"] <= Captured("req")
    BY DEF Flow, AtomsOK, Ways
  <2>3. Setup + replies = Captured("resp") + Queued("resp")
    BY <1>2 DEF Rows
  <2>4. Captured("resp") + Queued("resp") <= got["req"] /\ Captured("req") <= got["resp"] + Awaited
    BY DEF Flow, AtomsOK
  <2> QED BY <2>1, <2>2, <2>3, <2>4 DEF AtomsOK
<1> QED BY <1>1, <1>2 DEF AtomsOK

LEMMA OneOfSeven ==
  ASSUME NEW a \in Nat, NEW b \in Nat, NEW c \in Nat, NEW d \in Nat, NEW e \in Nat,
         NEW f \in Nat, NEW g \in Nat, NEW n \in {0, 1}, a + b + c + d + e + f + g = n, a # 0
  PROVE  n = 1 /\ a = 1 /\ b = 0 /\ c = 0 /\ d = 0 /\ e = 0 /\ f = 0 /\ g = 0
  OBVIOUS

\* Where the frame is, it is the only one.
LEMMA OnlyOne ==
  ASSUME AtomsOK, Flow
  PROVE  /\ Queued("req") # 0 =>
              /\ Queued("req") = 1 /\ Hand("req") = 0 /\ Waiting("req") = 0 /\ Queued("resp") = 0
              /\ Hand("resp") = 0 /\ Waiting("resp") = 0 /\ Due = 0 /\ Awaited = 1
         /\ Hand("req") # 0 =>
              /\ Hand("req") = 1 /\ Queued("req") = 0 /\ Waiting("req") = 0 /\ Queued("resp") = 0
              /\ Hand("resp") = 0 /\ Waiting("resp") = 0 /\ Due = 0 /\ Awaited = 1
         /\ Waiting("req") # 0 =>
              /\ Waiting("req") = 1 /\ Queued("req") = 0 /\ Hand("req") = 0 /\ Queued("resp") = 0
              /\ Hand("resp") = 0 /\ Waiting("resp") = 0 /\ Due = 0 /\ Awaited = 1
         /\ Queued("resp") # 0 =>
              /\ Queued("resp") = 1 /\ Queued("req") = 0 /\ Hand("req") = 0 /\ Waiting("req") = 0
              /\ Hand("resp") = 0 /\ Waiting("resp") = 0 /\ Due = 0 /\ Awaited = 1
         /\ Hand("resp") # 0 =>
              /\ Hand("resp") = 1 /\ Queued("req") = 0 /\ Hand("req") = 0 /\ Waiting("req") = 0
              /\ Queued("resp") = 0 /\ Waiting("resp") = 0 /\ Due = 0 /\ Awaited = 1
         /\ Waiting("resp") # 0 =>
              /\ Waiting("resp") = 1 /\ Queued("req") = 0 /\ Hand("req") = 0 /\ Waiting("req") = 0
              /\ Queued("resp") = 0 /\ Hand("resp") = 0 /\ Due = 0 /\ Awaited = 1
         /\ Due # 0 =>
              /\ Due = 1 /\ Queued("req") = 0 /\ Hand("req") = 0 /\ Waiting("req") = 0
              /\ Queued("resp") = 0 /\ Hand("resp") = 0 /\ Waiting("resp") = 0 /\ Awaited = 1
<1> DEFINE a == Queued("req")
           b == Hand("req")
           c == Waiting("req")
           d == Queued("resp")
           e == Hand("resp")
           f == Waiting("resp")
           g == Due
           n == Awaited
<1>1. /\ a \in Nat /\ b \in Nat /\ c \in Nat /\ d \in Nat /\ e \in Nat /\ f \in Nat
      /\ g \in Nat /\ n \in {0, 1}
  BY DEF AtomsOK
<1>2. a + b + c + d + e + f + g = n
  BY OneForOne
<1> HIDE DEF a, b, c, d, e, f, g, n
<1>3. b + a + c + d + e + f + g = n /\ c + a + b + d + e + f + g = n
  BY <1>1, <1>2
<1>4. d + a + b + c + e + f + g = n /\ e + a + b + c + d + f + g = n
  BY <1>1, <1>2
<1>5. f + a + b + c + d + e + g = n /\ g + a + b + c + d + e + f = n
  BY <1>1, <1>2
<1>6. a # 0 => n = 1 /\ a = 1 /\ b = 0 /\ c = 0 /\ d = 0 /\ e = 0 /\ f = 0 /\ g = 0
  BY <1>1, <1>2, OneOfSeven
<1>7. b # 0 => n = 1 /\ b = 1 /\ a = 0 /\ c = 0 /\ d = 0 /\ e = 0 /\ f = 0 /\ g = 0
  BY <1>1, <1>3, OneOfSeven
<1>8. c # 0 => n = 1 /\ c = 1 /\ a = 0 /\ b = 0 /\ d = 0 /\ e = 0 /\ f = 0 /\ g = 0
  BY <1>1, <1>3, OneOfSeven
<1>9. d # 0 => n = 1 /\ d = 1 /\ a = 0 /\ b = 0 /\ c = 0 /\ e = 0 /\ f = 0 /\ g = 0
  BY <1>1, <1>4, OneOfSeven
<1>10. e # 0 => n = 1 /\ e = 1 /\ a = 0 /\ b = 0 /\ c = 0 /\ d = 0 /\ f = 0 /\ g = 0
  BY <1>1, <1>4, OneOfSeven
<1>11. f # 0 => n = 1 /\ f = 1 /\ a = 0 /\ b = 0 /\ c = 0 /\ d = 0 /\ e = 0 /\ g = 0
  BY <1>1, <1>5, OneOfSeven
<1>12. g # 0 => n = 1 /\ g = 1 /\ a = 0 /\ b = 0 /\ c = 0 /\ d = 0 /\ e = 0 /\ f = 0
  BY <1>1, <1>5, OneOfSeven
<1> QED BY <1>6, <1>7, <1>8, <1>9, <1>10, <1>11, <1>12 DEF a, b, c, d, e, f, g, n

LEMMA AtomsNext == ASSUME ProtectedPairAssumption, TypeOK' PROVE AtomsOK'
<1>1. \A w \in Ways : /\ Queued(w)' \in Nat /\ Waiting(w)' \in Nat /\ Captured(w)' \in Nat
                      /\ Hand(w)' \in {0, 1} /\ got'[w] \in Nat
  BY DEF Hand, TypeOK, Queued, Waiting, Captured
<1> QED BY <1>1 DEF AtomsOK, Due, Awaited, TypeOK, ProtectedPairAssumption, Ways

-----------------------------------------------------------------------------
(* The steps of correct peers and relays that move a frame.                *)

\* A send puts one frame on the wire of its direction.
LEMMA Sent ==
  ASSUME TypeOK, NEW w \in Ways, NEW f \in Frames,
         wire' = [wire EXCEPT ![w] = Append(@, f)]
  PROVE  /\ Queued(w)' = Queued(w) + 1
         /\ \A v \in Ways : v # w => Queued(v)' = Queued(v) /\ wire'[v] = wire[v]
         /\ Queued(w) = 0 => wire'[w][1] = f
<1>1. wire[w] \in Seq(Frames) /\ wire \in [Ways -> Seq(Frames)]
  BY DEF TypeOK
<1>2. wire'[w] = Append(wire[w], f) /\ \A v \in Ways : v # w => wire'[v] = wire[v]
  BY <1>1
<1>3. Len(Append(wire[w], f)) = Len(wire[w]) + 1
      /\ (Len(wire[w]) = 0 => Append(wire[w], f)[1] = f)
  BY <1>1
<1> QED BY <1>2, <1>3 DEF Queued

LEMMA SendSetupGood ==
  ASSUME ProtectedPairAssumption, IInv, IInv', GoodRun, SendSetup
  PROVE  GoodRun'
<1> USE DEF fixed, runner, peers, initiator, responder, relays, Peers, Ways
<1>1. AtomsOK /\ AtomsOK' /\ TypeOK
  BY Atoms, AtomsNext DEF IInv
<1>2. at["client"] = "start" /\ at'["client"] = "await" /\ at'["server"] = at["server"]
  BY <1>1 DEF SendSetup, TypeOK
<1>3. Flow /\ Rows /\ Talk /\ Stations /\ Ends /\ why = "none"
  BY DEF GoodRun
<1>4. Queued("req") = 0 /\ Queued("resp") = 0 /\ Waiting("resp") = 0 /\ Awaited = 0 /\ Awaited' = 1
  BY <1>1, <1>2, <1>3, AllDelivered DEF Awaited
<1>5. /\ Queued("req")' = Queued("req") + 1 /\ Queued("resp")' = Queued("resp")
      /\ wire'["resp"] = wire["resp"]
  BY <1>1, Sent DEF SendSetup, Frames
<1>6. /\ \A w \in Ways : Waiting(w)' = Waiting(w) /\ Captured(w)' = Captured(w) /\ Hand(w)' = Hand(w)
      /\ Due' = Due
      /\ UNCHANGED <<mode, core, main, poll, why, written, files, marker, clock, attempts,
                     replies,
                     ledger, effects, exit, out, shut, frames, thread, errors, sockets, got>>
  BY <1>2 DEF SendSetup, Waiting, Captured, Hand, Due, Answering
<1>7. attempts = 0
  BY <1>2 DEF IInv, Turns
<1>8. Flow'
  BY <1>1, <1>3, <1>4, <1>5, <1>6 DEF Flow, AtomsOK
<1>9. Rows'
  BY <1>3, <1>5, <1>6 DEF Rows
<1>10. Talk'
  BY <1>2, <1>3, <1>4, <1>5, <1>6, <1>7 DEF Talk, Finished, Reported
<1>11. Stations'
  BY <1>2, <1>3, <1>6 DEF Stations, Gone, Finished, Reported
<1>12. Ends'
  BY <1>2, <1>3, <1>6 DEF Ends, Source, Finished, Reported
<1> QED BY <1>3, <1>6, <1>8, <1>9, <1>10, <1>11, <1>12 DEF GoodRun

LEMMA SendCallGood ==
  ASSUME ProtectedPairAssumption, IInv, IInv', GoodRun, SendCall
  PROVE  GoodRun'
<1> USE DEF fixed, runner, peers, initiator, responder, relays, Peers, Ways
<1>1. AtomsOK /\ AtomsOK' /\ TypeOK
  BY Atoms, AtomsNext DEF IInv
<1>2. at["client"] = "call" /\ at'["client"] = "await" /\ at'["server"] = at["server"]
      /\ attempts' = attempts + 1
  BY <1>1 DEF SendCall, TypeOK
<1>3. Flow /\ Rows /\ Talk /\ Stations /\ Ends /\ why = "none"
  BY DEF GoodRun
<1>4. /\ Queued("req") = 0 /\ Queued("resp") = 0 /\ Waiting("resp") = 0
      /\ Awaited = 0 /\ Awaited' = 1 /\ Captured("resp") = got["resp"]
  BY <1>1, <1>2, <1>3, AllDelivered DEF Awaited
<1>5. /\ Queued("req")' = Queued("req") + 1 /\ Queued("resp")' = Queued("resp")
      /\ wire'["resp"] = wire["resp"]
  BY <1>1, Sent DEF SendCall, Frames
<1>6. /\ \A w \in Ways : Waiting(w)' = Waiting(w) /\ Captured(w)' = Captured(w) /\ Hand(w)' = Hand(w)
      /\ Due' = Due
      /\ UNCHANGED <<mode, core, main, poll, why, written, files, marker, replies,
                     ledger, effects, exit, out, shut, frames, thread, errors, sockets, got>>
  BY <1>2 DEF SendCall, Waiting, Captured, Hand, Due, Answering
<1>7. /\ attempts \in {0, 1} /\ mode \in {"protected", "server"}
      /\ attempts = 1 => mode = "protected" /\ Captured("resp") > Setup
                          /\ frames["resp"][Setup + 1] = "pending"
      /\ got["resp"] = Setup + attempts
  <2>1. got["resp"] = Setup + attempts /\ mode # "setup"
    BY <1>2 DEF IInv, Turns
  <2>2. attempts <= 1 /\ mode # "client"
    BY <1>2, <1>3 DEF Talk
  <2>3. attempts = 1 => mode = "protected" /\ Captured("resp") > Setup
                          /\ frames["resp"][Setup + 1] = "pending"
    BY <1>2, <1>3 DEF Talk
  <2>4. attempts \in Nat /\ mode \in {"setup", "protected", "server", "client"}
    BY <1>1 DEF TypeOK, PairModes
  <2> QED BY <2>1, <2>2, <2>3, <2>4
<1>8. attempts = 1 => ledger = Complete
  <2>1. attempts = 1 => marker > 0
    <3>1. mode = "protected" => marker >= attempts
      BY <1>2 DEF IInv, Clock
    <3>2. marker \in Nat
      BY <1>1 DEF TypeOK
    <3> QED BY <1>7, <3>1, <3>2
  <2> QED BY <1>3, <1>7, <2>1 DEF Rows
<1>9. Flow'
  BY <1>1, <1>3, <1>4, <1>5, <1>6 DEF Flow, AtomsOK
<1>10. Rows'
  BY <1>1, <1>2, <1>3, <1>4, <1>5, <1>6, <1>7, <1>8 DEF Rows, AtomsOK
<1>11. Talk'
  BY <1>2, <1>3, <1>4, <1>5, <1>6, <1>7 DEF Talk, Finished, Reported
<1>12. Stations'
  BY <1>2, <1>3, <1>6 DEF Stations, Gone, Finished, Reported
<1>13. Ends'
  <2>1. attempts' > 0
    BY <1>2, <1>7
  <2> QED BY <1>2, <1>3, <1>6, <2>1 DEF Ends, Source, Finished, Reported
<1> QED BY <1>3, <1>6, <1>9, <1>10, <1>11, <1>12, <1>13 DEF GoodRun

\* A read takes the one frame that has been forwarded.
LEMMA Read ==
  ASSUME TypeOK, NEW w \in Ways, Waiting(w) = 1,
         out' = [out EXCEPT ![w] = Tail(@)], got' = [got EXCEPT ![w] = @ + 1]
  PROVE  /\ Waiting(w)' = 0 /\ got'[w] = got[w] + 1
         /\ \A v \in Ways : v # w => Waiting(v)' = Waiting(v) /\ out'[v] = out[v] /\ got'[v] = got[v]
         /\ Head(out[w]) = out[w][1]
<1>1. out[w] \in Seq(Frames) /\ Len(out[w]) = 1 /\ out \in [Ways -> Seq(Frames)]
      /\ got \in [Ways -> Nat]
  BY DEF TypeOK, Waiting
<1>2. Len(Tail(out[w])) = 0 /\ Head(out[w]) = out[w][1]
  BY <1>1
<1> QED BY <1>1, <1>2 DEF Waiting

LEMMA ReadReplyGood ==
  ASSUME ProtectedPairAssumption, Calls > 1, core = "good", IInv, IInv', GoodRun, ReadReply
  PROVE  GoodRun'
<1> USE DEF fixed, runner, peers, initiator, responder, relays, Peers, Ways
<1> DEFINE reply == Head(out["resp"])
<1>1. AtomsOK /\ AtomsOK' /\ TypeOK
  BY Atoms, AtomsNext DEF IInv
<1>2. /\ at["client"] = "await" /\ at'["client"] = After(reply) /\ at'["server"] = at["server"]
      /\ Waiting("resp") # 0
  BY <1>1 DEF ReadReply, TypeOK, Waiting
<1>3. Flow /\ Rows /\ Talk /\ Stations /\ Ends /\ why = "none"
  BY DEF GoodRun
<1>4. /\ Waiting("resp") = 1 /\ Queued("req") = 0 /\ Queued("resp") = 0 /\ Awaited = 1
      /\ Hand("resp") = 0
  BY <1>1, <1>2, <1>3, OnlyOne
<1>5. /\ Waiting("resp")' = 0 /\ Waiting("req")' = Waiting("req")
      /\ got'["resp"] = got["resp"] + 1 /\ got'["req"] = got["req"] /\ reply = out["resp"][1]
  BY <1>1, <1>4, Read DEF ReadReply
<1>6. /\ \A w \in Ways : Queued(w)' = Queued(w) /\ Captured(w)' = Captured(w) /\ Hand(w)' = Hand(w)
      /\ Due' = Due
      /\ UNCHANGED <<mode, core, main, poll, why, written, files, marker, clock, attempts,
                     replies,
                     ledger, effects, exit, wire, shut, frames, thread, errors, sockets>>
  BY <1>2 DEF ReadReply, Queued, Captured, Hand, Due, Answering
<1>7. Captured("resp") = got["resp"] + 1 /\ reply = frames["resp"][Captured("resp")]
  BY <1>1, <1>3, <1>4, <1>5 DEF Flow, AtomsOK
<1>8. Fits("resp", reply)
  <2>1. 1 \in 1..Len(out["resp"])
    BY <1>4 DEF Waiting
  <2> QED BY <1>5, <2>1 DEF IInv, Contents
<1>a. attempts \in Nat /\ Setup \in Nat /\ Setup > 0 /\ got["resp"] \in Nat
  BY <1>1 DEF AtomsOK, ProtectedPairAssumption
<1>b. mode \in {"setup", "protected", "server", "client"}
  BY <1>1 DEF TypeOK, PairModes
<1>9. ASSUME attempts = 0
      PROVE  Talk' /\ at'["client"] \in {"start", "report", "call"}
  <2>1. reply = "setup" /\ got["resp"] < Setup
    BY <1>2, <1>8, <1>9 DEF Fits, IInv, Turns
  <2>2. \/ at'["client"] = "start"
        \/ /\ at'["client"] = "report" /\ mode \in {"setup", "client"}
           /\ got'["resp"] = Setup + attempts
        \/ at'["client"] = "call" /\ mode # "client"
    BY <1>2, <1>5, <1>9, <1>a, <2>1 DEF After
  <2>3. Talk'
    BY <1>3, <1>4, <1>6, <1>9, <2>2 DEF Talk, Finished, Reported
  <2> QED BY <2>2, <2>3
<1>10. ASSUME attempts > 0
       PROVE  Talk' /\ at'["client"] \in {"start", "report", "call"}
  <2>1. got["resp"] = Setup + attempts - 1 /\ reply \in {"pending", "terminal"}
    BY <1>2, <1>8, <1>10 DEF Fits, IInv, Turns
  <2>2. mode \in {"protected", "server"} /\ Captured("resp") = Setup + attempts
    BY <1>3, <1>7, <1>10, <1>a, <2>1 DEF Talk
  <2>3. Captured("resp") \in 1..Captured("resp")
    BY <1>a, <1>10, <2>2
  <2>4. CASE reply = "terminal"
    <3>1. at'["client"] = "report"
      BY <1>2, <2>2, <2>4 DEF After
    <3>2. frames["resp"][Setup + attempts] = "terminal" /\ got'["resp"] = Setup + attempts
      BY <1>5, <1>7, <1>a, <2>1, <2>2, <2>4
    <3>3. Talk'
      <4>1. ~(at'["client"] = "call")
        BY <3>1
      <4> QED BY <1>3, <1>4, <1>6, <1>10, <2>2, <3>1, <3>2, <4>1 DEF Talk
    <3> QED BY <3>1, <3>3
  <2>5. CASE reply = "pending"
    <3>1. Captured("resp") = Setup + 1 /\ mode = "protected"
      BY <1>3, <1>7, <2>3, <2>5 DEF Talk
    <3>2. attempts = 1 /\ Captured("resp") > Setup /\ frames["resp"][Setup + 1] = "pending"
      BY <1>7, <1>a, <2>2, <2>5, <3>1
    <3>3. at'["client"] = "call"
      BY <1>2, <2>5, <3>2 DEF After
    <3>4. Talk'
      BY <1>3, <1>4, <1>6, <3>1, <3>2, <3>3 DEF Talk, Finished, Reported
    <3> QED BY <3>3, <3>4
  <2> QED BY <2>1, <2>4, <2>5
<1>11. Awaited' = 0 /\ Talk' /\ at'["client"] \in {"start", "report", "call"}
  BY <1>9, <1>10, <1>a DEF Awaited
<1>12. Flow'
  BY <1>1, <1>3, <1>4, <1>5, <1>6, <1>11 DEF Flow, AtomsOK
<1>13. Rows'
  BY <1>3, <1>6 DEF Rows
<1>14. Stations'
  BY <1>2, <1>3, <1>6, <1>11 DEF Stations, Gone, Finished, Reported
<1>15. Ends'
  BY <1>2, <1>3, <1>6, <1>11 DEF Ends, Source, Finished, Reported
<1> QED BY <1>3, <1>6, <1>11, <1>12, <1>13, <1>14, <1>15 DEF GoodRun

\* Sequences of two and of three rows, as Append makes them.
LEMMA SameRows ==
  ASSUME NEW S, NEW s \in Seq(S), NEW t \in Seq(S), Len(s) = Len(t),
         \A i \in 1..Len(s) : s[i] = t[i]
  PROVE  s = t
<1>1. s = [i \in 1..Len(s) |-> s[i]] /\ t = [i \in 1..Len(t) |-> t[i]]
  OBVIOUS
<1> QED BY <1>1

LEMMA AppendTwo ==
  ASSUME NEW S, NEW a \in S, NEW b \in S
  PROVE  Append(<<a>>, b) = <<a, b>>
<1>1. <<a>> \in Seq(S) /\ <<a, b>> \in Seq(S)
  OBVIOUS
<1>2. Append(<<a>>, b) \in Seq(S) /\ Len(Append(<<a>>, b)) = 2
  BY <1>1, AppendProperties
<1>3. Append(<<a>>, b)[1] = a
  BY <1>1, AppendProperties
<1>4. Append(<<a>>, b)[2] = b
  BY <1>1, AppendProperties
<1>5. Len(<<a, b>>) = 2 /\ <<a, b>>[1] = a /\ <<a, b>>[2] = b
  OBVIOUS
<1> DEFINE s == Append(<<a>>, b)
           t == <<a, b>>
<1>6. /\ s \in Seq(S) /\ t \in Seq(S) /\ Len(s) = 2 /\ Len(t) = 2
      /\ s[1] = t[1] /\ s[2] = t[2]
  BY <1>1, <1>2, <1>3, <1>4, <1>5
<1> HIDE DEF s, t
<1>7. \A i \in 1..Len(s) : s[i] = t[i]
  BY <1>6
<1>8. s = t
  BY <1>6, <1>7, SameRows
<1> QED BY <1>8 DEF s, t

LEMMA AppendThree ==
  ASSUME NEW S, NEW a \in S, NEW b \in S, NEW c \in S
  PROVE  Append(<<a, b>>, c) = <<a, b, c>>
<1>1. <<a, b>> \in Seq(S) /\ <<a, b, c>> \in Seq(S)
  OBVIOUS
<1>2. Append(<<a, b>>, c) \in Seq(S) /\ Len(Append(<<a, b>>, c)) = 3
  BY <1>1, AppendProperties
<1>3. Append(<<a, b>>, c)[1] = a /\ Append(<<a, b>>, c)[2] = b
  BY <1>1, AppendProperties
<1>4. Append(<<a, b>>, c)[3] = c
  BY <1>1, AppendProperties
<1>5. Len(<<a, b, c>>) = 3 /\ <<a, b, c>>[1] = a /\ <<a, b, c>>[2] = b /\ <<a, b, c>>[3] = c
  OBVIOUS
<1> DEFINE s == Append(<<a, b>>, c)
           t == <<a, b, c>>
<1>6. /\ s \in Seq(S) /\ t \in Seq(S) /\ Len(s) = 3 /\ Len(t) = 3
      /\ s[1] = t[1] /\ s[2] = t[2] /\ s[3] = t[3]
  BY <1>1, <1>2, <1>3, <1>4, <1>5
<1> HIDE DEF s, t
<1>7. \A i \in 1..Len(s) : s[i] = t[i]
  BY <1>6
<1>8. s = t
  BY <1>6, <1>7, SameRows
<1> QED BY <1>8 DEF s, t

\* The forms the journal can have.
LEMMA Journal ==
  /\ Append(<<>>, "RESERVED") = <<"RESERVED">>
  /\ Append(<<"RESERVED">>, "EXECUTING") = <<"RESERVED", "EXECUTING">>
  /\ Append(<<"RESERVED", "EXECUTING">>, "COMPLETED") = Complete
  /\ Complete # <<>> /\ Complete # <<"RESERVED">> /\ Complete # <<"RESERVED", "EXECUTING">>
  /\ Complete[Len(Complete)] = "COMPLETED"
<1> DEFINE S == {"RESERVED", "EXECUTING", "COMPLETED"}
<1>1. Append(<<>>, "RESERVED") = <<"RESERVED">>
  OBVIOUS
<1>2. "RESERVED" \in S /\ "EXECUTING" \in S /\ "COMPLETED" \in S
  OBVIOUS
<1> HIDE DEF S
<1>3. Append(<<"RESERVED">>, "EXECUTING") = <<"RESERVED", "EXECUTING">>
  BY <1>2, AppendTwo
<1>4. Append(<<"RESERVED", "EXECUTING">>, "COMPLETED") = Complete
  BY <1>2, AppendThree DEF Complete
<1>5. Complete # <<>> /\ Complete # <<"RESERVED">> /\ Complete # <<"RESERVED", "EXECUTING">>
  BY DEF Complete
<1>6. Complete[Len(Complete)] = "COMPLETED"
  BY DEF Complete
<1> QED BY <1>1, <1>3, <1>4, <1>5, <1>6

LEMMA ReadRequestGood ==
  ASSUME ProtectedPairAssumption, core = "good", IInv, IInv', GoodRun, ReadRequest
  PROVE  GoodRun'
<1> USE DEF fixed, runner, peers, initiator, responder, relays, Peers, Ways
<1> DEFINE call == Head(out["req"]) = "call"
<1>1. AtomsOK /\ AtomsOK' /\ TypeOK
  BY Atoms, AtomsNext DEF IInv
<1>2. /\ at["server"] = "receive" /\ at'["client"] = at["client"]
      /\ at'["server"] = IF call THEN "reply" ELSE "setup"
      /\ Waiting("req") # 0
      /\ ledger' = IF call /\ ledger = <<>> THEN Append(ledger, "RESERVED") ELSE ledger
  BY <1>1 DEF ReadRequest, TypeOK, Waiting
<1>3. Flow /\ Rows /\ Talk /\ Stations /\ Ends /\ why = "none"
  BY DEF GoodRun
<1>4. /\ Waiting("req") = 1 /\ Queued("resp") = 0 /\ Waiting("resp") = 0 /\ Awaited = 1
      /\ Due = 0 /\ at["client"] = "await"
  BY <1>1, <1>2, <1>3, OnlyOne DEF Awaited
<1>5. /\ Waiting("req")' = 0 /\ Waiting("resp")' = Waiting("resp")
      /\ got'["req"] = got["req"] + 1 /\ got'["resp"] = got["resp"]
      /\ Head(out["req"]) = out["req"][1]
  BY <1>1, <1>4, Read DEF ReadRequest
<1>6. /\ \A w \in Ways : Queued(w)' = Queued(w) /\ Captured(w)' = Captured(w) /\ Hand(w)' = Hand(w)
      /\ Due' = 1 /\ Awaited' = Awaited
      /\ UNCHANGED <<mode, core, main, poll, why, written, files, marker, clock, attempts,
                     replies,
                     effects, exit, wire, shut, frames, thread, errors, sockets>>
  BY <1>2 DEF ReadRequest, Queued, Captured, Hand, Due, Answering, Awaited
<1>7. call => attempts > 0
  <2>1. 1 \in 1..Len(out["req"])
    BY <1>4 DEF Waiting
  <2>2. Fits("req", out["req"][1])
    BY <2>1 DEF IInv, Contents
  <2> QED BY <1>1, <1>5, <2>2 DEF Fits, AtomsOK
<1>8. /\ ledger = Complete => ledger' = Complete
      /\ \/ ledger' = ledger
         \/ mode = "protected" /\ ledger = <<>> /\ ledger' = <<"RESERVED">>
  BY <1>2, <1>3, <1>7, Journal DEF Rows, Talk
<1>9. Flow'
  BY <1>1, <1>3, <1>4, <1>5, <1>6 DEF Flow, AtomsOK
<1>10. Rows'
  BY <1>3, <1>6, <1>8, Journal DEF Rows
<1>11. Talk'
  BY <1>2, <1>3, <1>4, <1>5, <1>6, <1>8 DEF Talk, Finished, Reported
<1>12. Stations'
  BY <1>2, <1>3, <1>6 DEF Stations, Gone, Finished, Reported
<1>13. Ends'
  BY <1>2, <1>3, <1>6 DEF Ends, Source, Finished, Reported
<1> QED BY <1>3, <1>6, <1>9, <1>10, <1>11, <1>12, <1>13 DEF GoodRun

LEMMA ReplySetupGood ==
  ASSUME ProtectedPairAssumption, IInv, IInv', GoodRun, ReplySetup
  PROVE  GoodRun'
<1> USE DEF fixed, runner, peers, initiator, responder, relays, Peers, Ways
<1>1. AtomsOK /\ AtomsOK' /\ TypeOK
  BY Atoms, AtomsNext DEF IInv
<1>2. /\ at["server"] = "setup" /\ at'["client"] = at["client"] /\ Due = 1 /\ Due' = 0
      /\ at'["server"] \in {"report", "receive"} /\ (at'["server"] = "report" => mode = "setup")
      /\ attempts = 0
  BY <1>1 DEF ReplySetup, TypeOK, Due, Answering, IInv, Contents
<1>3. Flow /\ Rows /\ Talk /\ Stations /\ Ends /\ why = "none"
  BY DEF GoodRun
<1>4. Queued("resp") = 0 /\ Waiting("resp") = 0 /\ at["client"] = "await"
  BY <1>1, <1>2, <1>3, OnlyOne DEF Awaited
<1>5. /\ Queued("resp")' = Queued("resp") + 1 /\ Queued("req")' = Queued("req")
      /\ wire'["resp"][1] = "setup"
  BY <1>1, <1>4, Sent DEF ReplySetup, Frames
<1>6. /\ \A w \in Ways : Waiting(w)' = Waiting(w) /\ Captured(w)' = Captured(w) /\ Hand(w)' = Hand(w)
      /\ Awaited' = Awaited
      /\ UNCHANGED <<mode, core, main, poll, why, written, files, marker, clock, attempts,
                     replies,
                     ledger, effects, exit, out, shut, frames, thread, errors, sockets, got>>
  BY <1>2 DEF ReplySetup, Waiting, Captured, Hand, Awaited
<1>7. Flow'
  BY <1>1, <1>2, <1>3, <1>4, <1>5, <1>6 DEF Flow, AtomsOK
<1>8. Rows'
  BY <1>2, <1>3, <1>6 DEF Rows
<1>9. Talk'
  <2>1. Queued("resp")' = 1
    BY <1>4, <1>5
  <2> QED BY <1>2, <1>3, <1>4, <1>5, <1>6, <2>1 DEF Talk, Finished, Reported
<1>10. Stations'
  BY <1>2, <1>3, <1>6 DEF Stations, Gone, Finished, Reported
<1>11. Ends'
  BY <1>2, <1>3, <1>6 DEF Ends, Source, Finished, Reported
<1> QED BY <1>3, <1>6, <1>7, <1>8, <1>9, <1>10, <1>11 DEF GoodRun

LEMMA ReplyGood ==
  ASSUME ProtectedPairAssumption, core = "good", IInv, IInv', GoodRun, Reply
  PROVE  GoodRun'
<1> USE DEF fixed, runner, peers, initiator, responder, relays, Peers, Ways
<1>1. AtomsOK /\ AtomsOK' /\ TypeOK
  BY Atoms, AtomsNext DEF IInv
<1>2. /\ at["server"] = "reply" /\ at'["client"] = at["client"] /\ Due = 1 /\ Due' = 0
      /\ at'["server"] \in {"settle", "receive"} /\ attempts > 0 /\ replies' = replies + 1
  BY <1>1 DEF Reply, TypeOK, Due, Answering, IInv, Contents
<1>3. Flow /\ Rows /\ Talk /\ Stations /\ Ends /\ why = "none"
  BY DEF GoodRun
<1>4. Queued("resp") = 0 /\ Waiting("resp") = 0 /\ at["client"] = "await"
  BY <1>1, <1>2, <1>3, OnlyOne DEF Awaited
<1>5. /\ Queued("resp")' = Queued("resp") + 1 /\ Queued("req")' = Queued("req")
      /\ wire'["resp"][1] = Verdict
  <2>1. Verdict \in Frames
    BY DEF Verdict, Frames
  <2> QED BY <1>1, <1>4, <2>1, Sent DEF Reply
<1>6. /\ \A w \in Ways : Waiting(w)' = Waiting(w) /\ Captured(w)' = Captured(w) /\ Hand(w)' = Hand(w)
      /\ Awaited' = Awaited
      /\ UNCHANGED <<mode, core, main, poll, why, written, files, marker, clock, attempts,
                     ledger, effects, exit, out, shut, frames, thread, errors, sockets, got>>
  BY <1>2 DEF Reply, Waiting, Captured, Hand, Awaited
<1>7. /\ Verdict = "terminal" => ledger = Complete
      /\ Verdict = "pending" => attempts = 1 /\ mode = "protected"
      /\ Verdict \in {"pending", "terminal"}
  <2>1. mode \in {"protected", "server"} /\ attempts \in {1, 2}
    BY <1>1, <1>2, <1>3 DEF Talk, AtomsOK
  <2>2. ledger = Complete => Verdict = "terminal"
    BY Journal DEF Verdict
  <2>3. ledger # Complete => mode = "protected" /\ attempts = 1
    BY <1>3, <2>1 DEF Rows
  <2>4. Verdict = "terminal" => ledger = Complete
    <3>1. ASSUME Verdict = "terminal" PROVE ledger # <<>> /\ ledger[Len(ledger)] = "COMPLETED"
      BY <3>1 DEF Verdict
    <3>2. ledger \in {<<>>, <<"RESERVED">>, <<"RESERVED", "EXECUTING">>, Complete}
      BY <1>3, <2>1 DEF Rows
    <3> QED BY <3>1, <3>2
  <2>5. Verdict \in {"pending", "terminal"}
    BY DEF Verdict
  <2> QED BY <2>2, <2>3, <2>4, <2>5
<1>8. Flow'
  BY <1>1, <1>2, <1>3, <1>4, <1>5, <1>6 DEF Flow, AtomsOK
<1>9. Rows'
  BY <1>1, <1>2, <1>3, <1>4, <1>5, <1>6 DEF Rows, AtomsOK
<1>10. Talk'
  <2>1. Queued("resp")' = 1
    BY <1>4, <1>5
  <2> QED BY <1>2, <1>3, <1>4, <1>5, <1>6, <1>7, <2>1 DEF Talk, Finished, Reported
<1>11. Stations'
  BY <1>2, <1>3, <1>6 DEF Stations, Gone, Finished, Reported
<1>12. Ends'
  BY <1>2, <1>3, <1>6 DEF Ends, Source, Finished, Reported
<1> QED BY <1>3, <1>6, <1>8, <1>9, <1>10, <1>11, <1>12 DEF GoodRun

LEMMA CaptureGood ==
  ASSUME ProtectedPairAssumption, Calls > 1, IInv, IInv', GoodRun, NEW w \in Ways, Capture(w)
  PROVE  GoodRun'
<1> USE DEF fixed, runner, peers, initiator, responder, relays, Ways
<1> DEFINE frame == wire[w][1]
           v == IF w = "req" THEN "resp" ELSE "req"
<1>1. AtomsOK /\ AtomsOK' /\ TypeOK
  BY Atoms, AtomsNext DEF IInv
<1>2. /\ thread[w] = "read" /\ Queued(w) # 0
      /\ wire[w] \in Seq(Frames) /\ Head(wire[w]) = frame /\ frame \in Frames
      /\ Len(Tail(wire[w])) = Queued(w) - 1
  BY <1>1 DEF Capture, TypeOK, Queued
<1>3. Flow /\ Rows /\ Talk /\ Stations /\ Ends /\ why = "none"
  BY DEF GoodRun
<1>4. /\ Queued(w) = 1 /\ Hand("req") = 0 /\ Hand("resp") = 0 /\ Due = 0 /\ Awaited = 1
      /\ Waiting("req") = 0 /\ Waiting("resp") = 0 /\ Queued(v) = 0 /\ at["client"] = "await"
  BY <1>1, <1>2, <1>3, OnlyOne DEF Awaited
<1>5. Captured(w) = got["resp"]
  BY <1>1, <1>3, <1>4 DEF Flow, AtomsOK
<1>6. attempts \in Nat /\ Setup \in Nat /\ Calls \in Nat /\ got["resp"] \in Nat
  BY <1>1 DEF AtomsOK, ProtectedPairAssumption
<1>7. IF attempts = 0 THEN got["resp"] < Setup
                      ELSE got["resp"] = Setup + attempts - 1 /\ attempts <= 2 /\ mode # "setup"
  BY <1>3, <1>4 DEF IInv, Turns, Talk, Quiet
<1>8. Captured(w) < Limit
  BY <1>5, <1>6, <1>7 DEF Limit, Protected
<1>9. /\ wire' = [wire EXCEPT ![w] = Tail(@)]
      /\ frames' = [frames EXCEPT ![w] = Append(@, frame)]
      /\ thread' = [thread EXCEPT ![w] = IF Held(w, frame) THEN "hold" ELSE "send"]
      /\ UNCHANGED <<mode, core, main, poll, why, written, files, marker, clock, at, attempts,
                     replies,
                     ledger, effects, exit, out, shut, errors, sockets, got>>
  <2>1. ~(Len(frames[w]) >= Limit)
    <3>1. Len(frames[w]) \in Nat /\ Limit \in Nat
      BY <1>1, <1>6, Numbers DEF Limit
    <3> QED BY <1>8, <3>1 DEF Captured
  <2> QED BY <1>2, <2>1 DEF Capture
<1>10. /\ wire'[w] = Tail(wire[w]) /\ wire'[v] = wire[v] /\ frames'[v] = frames[v]
       /\ frames'[w] = Append(frames[w], frame) /\ thread'[v] = thread[v] /\ v \in Ways /\ v # w
       /\ thread'[w] \in {"hold", "send"}
       /\ thread'[w] = "hold" => w = "resp" /\ mode = "protected"
  <2>1. /\ wire \in [Ways -> Seq(Frames)] /\ frames \in [Ways -> Seq(Frames)]
        /\ DOMAIN thread = Ways
    BY <1>1 DEF TypeOK
  <2> QED BY <1>9, <2>1 DEF Held
<1>11. /\ Queued(w)' = 0 /\ Queued(v)' = Queued(v)
       /\ Captured(w)' = Captured(w) + 1 /\ Captured(v)' = Captured(v)
       /\ Hand(w)' = 1 /\ Hand(v)' = Hand(v) /\ Due' = Due /\ Awaited' = Awaited
       /\ Waiting("req")' = Waiting("req") /\ Waiting("resp")' = Waiting("resp")
  <2>1. frames[w] \in Seq(Frames)
    BY <1>1 DEF TypeOK
  <2>2. Len(Append(frames[w], frame)) = Len(frames[w]) + 1
    BY <1>2, <2>1, AppendProperties
  <2>3. Captured(w)' = Captured(w) + 1 /\ Captured(v)' = Captured(v)
    BY <1>10, <2>2 DEF Captured
  <2>4. Queued(w)' = 0 /\ Queued(v)' = Queued(v)
    <3>1. Len(wire'[w]) = Queued(w) - 1
      BY <1>2, <1>10
    <3> QED BY <1>4, <1>10, <3>1 DEF Queued
  <2>5. Hand(w)' = 1 /\ Hand(v)' = Hand(v)
    BY <1>10 DEF Hand, InHand
  <2>6. Due' = Due /\ Awaited' = Awaited
    BY <1>9 DEF Due, Answering, Awaited
  <2>7. Waiting("req")' = Waiting("req") /\ Waiting("resp")' = Waiting("resp")
    BY <1>9 DEF Waiting
  <2> QED BY <2>3, <2>4, <2>5, <2>6, <2>7
<1>12. /\ frames'[w][Captured(w) + 1] = frame
       /\ \A i \in 1..Captured(w) : frames'[w][i] = frames[w][i]
  <2>1. frames[w] \in Seq(Frames)
    BY <1>1 DEF TypeOK
  <2> QED BY <1>2, <1>10, <2>1, AppendProperties DEF Captured
<1>13. Flow'
  <2>1. CASE w = "req"
    BY <1>1, <1>3, <1>4, <1>9, <1>11, <2>1 DEF Flow, AtomsOK
  <2>2. CASE w = "resp"
    BY <1>1, <1>3, <1>4, <1>9, <1>11, <2>2 DEF Flow, AtomsOK
  <2> QED BY <2>1, <2>2
<1>14. Rows'
  <2>1. Captured("resp")' + Queued("resp")' = Captured("resp") + Queued("resp")
    BY <1>1, <1>4, <1>11 DEF AtomsOK
  <2> QED BY <1>3, <1>9, <2>1 DEF Rows
<1>15. Talk'
  <2>1. CASE w = "req"
    BY <1>3, <1>9, <1>10, <1>11, <2>1 DEF Talk
  <2>2. CASE w = "resp"
    <3>1. /\ frame = "pending" => attempts = 1 /\ mode = "protected"
          /\ frame = "terminal" => ledger = Complete
      <4>1. 1 \in 1..Queued("resp")
        BY <1>4, <2>2
      <4> QED BY <1>3, <2>2, <4>1 DEF Talk
    <3>2. Captured("resp") + 1 > Setup => frame \in {"pending", "terminal"}
      <4>1. Fits("resp", frame)
        <5>0. Queued("resp") = 1
          BY <1>4, <2>2
        <5>1. 1 \in 1..Len(wire["resp"])
          BY <5>0 DEF Queued
        <5> QED BY <2>2, <5>1 DEF IInv, Contents
      <4> QED BY <1>5, <1>6, <1>7, <2>2, <4>1 DEF Fits
    <3>3. frame = "pending" => Captured("resp") + 1 = Setup + 1
      BY <1>5, <1>6, <1>7, <2>2, <3>1
    <3>4. Captured("resp")' = Captured("resp") + 1 /\ Queued("resp")' = 0 /\ Captured("resp") \in Nat
      BY <1>1, <1>11, <2>2 DEF AtomsOK
    <3>5. \A i \in 1..(Captured("resp") + 1) :
            /\ i > Setup => frames'["resp"][i] \in {"pending", "terminal"}
            /\ frames'["resp"][i] = "pending" => i = Setup + 1 /\ mode = "protected"
            /\ frames'["resp"][i] = "terminal" => ledger = Complete
      <4> SUFFICES ASSUME NEW i \in 1..(Captured("resp") + 1)
                   PROVE  /\ i > Setup => frames'["resp"][i] \in {"pending", "terminal"}
                          /\ frames'["resp"][i] = "pending" => i = Setup + 1 /\ mode = "protected"
                          /\ frames'["resp"][i] = "terminal" => ledger = Complete
        OBVIOUS
      <4>1. CASE i = Captured("resp") + 1
        BY <1>12, <2>2, <3>1, <3>2, <3>3, <4>1
      <4>2. CASE i \in 1..Captured("resp")
        BY <1>3, <1>12, <2>2, <4>2 DEF Talk
      <4> QED BY <3>4, <4>1, <4>2
    <3>6. attempts = 2 => /\ mode = "protected" /\ Captured("resp") + 1 > Setup
                           /\ frames'["resp"][Setup + 1] = "pending"
      <4>1. attempts = 2 => /\ mode = "protected" /\ Captured("resp") > Setup
                             /\ frames["resp"][Setup + 1] = "pending"
        BY <1>3 DEF Talk
      <4>2. Captured("resp") > Setup => Setup + 1 \in 1..Captured("resp")
        BY <1>6, <3>4
      <4> QED BY <1>12, <2>2, <1>6, <3>4, <4>1, <4>2
    <3>7. at'["client"] = "await"
      BY <1>4, <1>9
    <3>8. at'["client"] \notin Finished /\ at'["client"] # "call" /\ 1..0 = {}
      BY <3>7 DEF Finished, Reported
    <3>9. /\ attempts' <= 2 /\ (attempts' > 0 => mode' \in {"protected", "server"})
          /\ attempts' = attempts /\ mode' = mode /\ ledger' = ledger
      BY <1>3, <1>9 DEF Talk
    <3>10. \A i \in 1..Captured("resp")' :
             /\ i > Setup => frames'["resp"][i] \in {"pending", "terminal"}
             /\ frames'["resp"][i] = "pending" => i = Setup + 1 /\ mode = "protected"
             /\ frames'["resp"][i] = "terminal" => ledger = Complete
      BY <3>4, <3>5
    <3>11. \A i \in 1..Queued("resp")' : FALSE
      BY <3>4, <3>8
    <3> QED BY <3>4, <3>6, <3>8, <3>9, <3>10, <3>11 DEF Talk
  <2> QED BY <2>1, <2>2
<1>16. Stations'
  BY <1>3, <1>9 DEF Stations, Gone
<1>17. Ends'
  <2>1. \A u \in Ways : u = w \/ u = v
    OBVIOUS
  <2>2. Hand(w)' # 0
    BY <1>11
  <2>3. thread'[w] = "hold" => w = "resp" /\ mode = "protected" /\ attempts > 0
    <3>1. ASSUME thread'[w] = "hold" PROVE w = "resp" /\ mode = "protected" /\ frame = "pending"
      BY <1>1, <1>9, <3>1 DEF TypeOK, Held
    <3>2. Queued("resp") = 1 => 1 \in 1..Queued("resp")
      OBVIOUS
    <3> QED BY <1>3, <1>4, <3>1, <3>2 DEF Talk
  <2>4. thread'[w] # "off" /\ thread'[v] = thread[v] /\ Captured(v)' = Captured(v)
    BY <1>10, <1>11
  <2> QED BY <1>3, <1>9, <1>10, <1>11, <2>1, <2>2, <2>3, <2>4 DEF Ends, Source
<1> QED BY <1>3, <1>9, <1>13, <1>14, <1>15, <1>16, <1>17 DEF GoodRun

LEMMA ForwardGood ==
  ASSUME ProtectedPairAssumption, IInv, IInv', GoodRun, NEW w \in Ways, Forward(w)
  PROVE  GoodRun'
<1> USE DEF fixed, runner, peers, initiator, responder, relays, Ways
<1> DEFINE frame == frames[w][Len(frames[w])]
           v == IF w = "req" THEN "resp" ELSE "req"
<1>1. AtomsOK /\ AtomsOK' /\ TypeOK
  BY Atoms, AtomsNext DEF IInv
<1>2. thread[w] = "send" /\ Hand(w) # 0 /\ v \in Ways /\ v # w
  BY DEF Forward, Hand, InHand
<1>3. Flow /\ Rows /\ Talk /\ Stations /\ Ends /\ why = "none"
  BY DEF GoodRun
<1>4. /\ Hand(w) = 1 /\ Hand(v) = 0 /\ Queued("req") = 0 /\ Queued("resp") = 0 /\ Due = 0
      /\ Awaited = 1 /\ Waiting("req") = 0 /\ Waiting("resp") = 0 /\ at["client"] = "await"
  BY <1>1, <1>2, <1>3, OnlyOne DEF Awaited
<1>5. ~Gone(Other(w))
  <2>1. at["client"] \notin Finished
    BY <1>4 DEF Finished, Reported
  <2> QED BY <1>1, <1>3, <2>1, ServerOutlives, ClientGone DEF Other
<1>6. /\ out' = [out EXCEPT ![w] = Append(@, frame)]
      /\ thread' = [thread EXCEPT ![w] = IF ~Protected /\ Len(frames[w]) = Limit THEN "ended"
                                         ELSE "read"]
      /\ UNCHANGED <<mode, core, main, poll, why, written, files, marker, clock, at, attempts,
                     replies,
                     ledger, effects, exit, wire, shut, frames, errors, sockets, got>>
  BY <1>5 DEF Forward
<1>7. /\ out'[w] = Append(out[w], frame) /\ out'[v] = out[v] /\ thread'[v] = thread[v]
      /\ thread'[w] = IF ~Protected /\ Len(frames[w]) = Limit THEN "ended" ELSE "read"
  <2>1. out \in [Ways -> Seq(Frames)] /\ DOMAIN thread = Ways
    BY <1>1 DEF TypeOK
  <2> QED BY <1>2, <1>6, <2>1
<1>8. out[w] \in Seq(Frames) /\ frame \in Frames /\ Len(out[w]) = 0
  <2>1. frames[w] \in Seq(Frames) /\ Len(frames[w]) > 0
    BY <1>1, <1>2 DEF TypeOK, IInv, Contents, InHand
  <2>2. Len(out[w]) = 0
    BY <1>4 DEF Waiting
  <2> QED BY <1>1, <2>1, <2>2 DEF TypeOK
<1>9. Waiting(w)' = 1 /\ Waiting(v)' = Waiting(v) /\ out'[w][1] = frames[w][Captured(w)]
  BY <1>7, <1>8, Alone DEF Waiting, Captured
<1>10. /\ Hand(w)' = 0 /\ Hand(v)' = Hand(v) /\ Due' = Due /\ Awaited' = Awaited
       /\ \A u \in Ways : Queued(u)' = Queued(u) /\ Captured(u)' = Captured(u)
  BY <1>6, <1>7 DEF Hand, InHand, Due, Answering, Awaited, Queued, Captured
<1>11. Flow'
  <2>1. CASE w = "req"
    BY <1>1, <1>3, <1>4, <1>6, <1>9, <1>10, <2>1 DEF Flow, AtomsOK
  <2>2. CASE w = "resp"
    BY <1>1, <1>3, <1>4, <1>6, <1>9, <1>10, <2>2 DEF Flow, AtomsOK
  <2> QED BY <2>1, <2>2
<1>12. Rows'
  BY <1>3, <1>6, <1>10 DEF Rows
<1>13. Talk'
  BY <1>3, <1>6, <1>10 DEF Talk
<1>14. Stations'
  BY <1>3, <1>6 DEF Stations, Gone
<1>15. Ends'
  <2>1. mode = "setup" /\ Captured(w) = Setup => thread'[w] = "ended"
    BY <1>7 DEF Protected, Limit, Captured
  <2>2. \A u \in Ways : u = w \/ u = v
    OBVIOUS
  <2>3. thread'[w] \in {"ended", "read"}
    BY <1>7
  <2> QED BY <1>3, <1>6, <1>7, <1>10, <2>1, <2>2, <2>3 DEF Ends, Source
<1> QED BY <1>3, <1>6, <1>11, <1>12, <1>13, <1>14, <1>15 DEF GoodRun

-----------------------------------------------------------------------------
(* Their steps that move no frame.                                         *)

LEMMA FlowKept ==
  ASSUME Flow, UNCHANGED <<wire, out, frames, got>>, Due' = Due, Awaited' = Awaited,
         Hand("req")' = Hand("req"), Hand("resp")' = Hand("resp")
  PROVE  Flow'
  BY DEF Flow, Waiting, Queued, Captured

LEMMA RowsKept ==
  ASSUME Rows, UNCHANGED <<mode, wire, frames, attempts, replies, ledger, effects, marker>>
  PROVE  Rows'
  BY DEF Rows, Queued, Captured

LEMMA TalkKept ==
  ASSUME Talk, UNCHANGED <<mode, attempts, wire, frames, got>>,
         ledger = Complete => ledger' = Complete,
         at'["client"] = "call" => at["client"] = "call",
         at'["client"] \in Finished => at["client"] \in Finished
  PROVE  Talk'
<1>1. /\ Captured("resp")' = Captured("resp") /\ Queued("resp")' = Queued("resp")
      /\ frames' = frames /\ wire' = wire /\ got' = got /\ mode' = mode /\ attempts' = attempts
  BY DEF Queued, Captured
<1> QED BY <1>1 DEF Talk

LEMMA ExecuteGood ==
  ASSUME ProtectedPairAssumption, core = "good", IInv, IInv', GoodRun, Execute
  PROVE  GoodRun'
<1> USE DEF fixed, runner, peers, initiator, responder, relays, Ways
<1>1. Flow /\ Rows /\ Talk /\ Stations /\ Ends /\ why = "none" /\ TypeOK
  BY DEF GoodRun, IInv
<1>2. UNCHANGED <<mode, core, main, poll, why, written, files, marker, clock, at, attempts,
                  replies,
                  exit, wire, out, shut, frames, thread, errors, sockets, got>>
  BY DEF Execute
<1>3. /\ ledger # <<>>
      /\ \/ /\ ledger[Len(ledger)] = "RESERVED" /\ ledger' = Append(ledger, "EXECUTING")
            /\ effects' = effects + 1
         \/ /\ ledger[Len(ledger)] = "EXECUTING" /\ ledger' = Append(ledger, "COMPLETED")
            /\ effects' = effects
  BY DEF Execute
<1>4. mode = "protected" /\ ledger # Complete
  <2>1. ledger # Complete
    BY <1>3, Journal
  <2> QED BY <1>1, <1>3, <2>1 DEF Rows, IInv, Quiet, TypeOK, PairModes
<1>5. \/ ledger = <<"RESERVED">> /\ effects = 0
      \/ ledger = <<"RESERVED", "EXECUTING">> /\ effects = 1
  BY <1>1, <1>3, <1>4 DEF Rows
<1>6. \/ ledger' = <<"RESERVED", "EXECUTING">> /\ effects' = 1
      \/ ledger' = Complete /\ effects' = 1
  <2>1. CASE ledger = <<"RESERVED">>
    <3>1. ledger[Len(ledger)] = "RESERVED" /\ ledger # <<"RESERVED", "EXECUTING">>
      BY <2>1
    <3> QED BY <1>3, <1>5, <2>1, <3>1, Journal
  <2>2. CASE ledger = <<"RESERVED", "EXECUTING">>
    <3>1. ledger[Len(ledger)] = "EXECUTING" /\ ledger # <<"RESERVED">>
      BY <2>2
    <3> QED BY <1>3, <1>5, <2>2, <3>1, Journal
  <2> QED BY <1>5, <2>1, <2>2
<1>7. Flow'
  BY <1>1, <1>2, FlowKept DEF Hand, Due, Answering, Awaited
<1>8. Rows'
  BY <1>1, <1>2, <1>4, <1>6 DEF Rows, Queued, Captured
<1>9. Talk'
  BY <1>1, <1>2, <1>4, TalkKept
<1>10. Stations'
  BY <1>1, <1>2 DEF Stations, Gone
<1>11. Ends'
  BY <1>1, <1>2 DEF Ends, Captured, Hand
<1> QED BY <1>1, <1>2, <1>7, <1>8, <1>9, <1>10, <1>11 DEF GoodRun

LEMMA SettleGood ==
  ASSUME ProtectedPairAssumption, IInv, IInv', GoodRun, Settle
  PROVE  GoodRun'
<1> USE DEF fixed, runner, peers, initiator, responder, relays, Ways, Peers
<1>1. Flow /\ Rows /\ Talk /\ Stations /\ Ends /\ why = "none" /\ TypeOK /\ AtomsOK
  BY Atoms DEF GoodRun, IInv
<1>2. /\ UNCHANGED <<mode, core, main, poll, why, written, files, clock, attempts, replies,
                     ledger,
                     effects, exit, wire, out, shut, frames, thread, errors, sockets, got>>
      /\ at["server"] = "settle" /\ at'["server"] = "receive" /\ at'["client"] = at["client"]
      /\ marker' = replies
      /\ replies = 1 => effects > 0 /\ ledger[Len(ledger)] = "COMPLETED"
  BY <1>1 DEF Settle, TypeOK
<1>3. mode = "protected" /\ marker' > 0 => ledger = Complete
  <2>1. CASE replies = 1 /\ mode = "protected"
    <3>1. effects # 0 /\ ledger[Len(ledger)] = "COMPLETED"
      BY <1>2, <2>1
    <3>2. ledger \in {<<"RESERVED", "EXECUTING">>, Complete}
      BY <1>1, <2>1, <3>1 DEF Rows
    <3>3. ledger = <<"RESERVED", "EXECUTING">> => ledger[Len(ledger)] = "EXECUTING"
      OBVIOUS
    <3> QED BY <3>1, <3>2, <3>3
  <2>2. CASE replies > 1 /\ mode = "protected"
    <3>1. replies <= attempts
      BY <1>1, RepliesFollow DEF IInv
    <3> QED BY <1>1, <2>2, <3>1 DEF Rows, AtomsOK
  <2> QED BY <1>1, <1>2, <2>1, <2>2 DEF AtomsOK
<1>4. Flow'
  BY <1>1, <1>2, FlowKept DEF Hand, Due, Answering, Awaited
<1>5. Rows'
  BY <1>1, <1>2, <1>3 DEF Rows, Queued, Captured
<1>6. Talk'
  BY <1>1, <1>2, TalkKept
<1>7. Stations'
  BY <1>1, <1>2 DEF Stations, Gone, Finished, Reported
<1>8. Ends'
  BY <1>1, <1>2 DEF Ends, Captured, Hand, Source, Finished, Reported
<1> QED BY <1>1, <1>2, <1>4, <1>5, <1>6, <1>7, <1>8 DEF GoodRun

\* What a finished initiator tells: the count of attempts, and the journal.
LEMMA WhenFinished ==
  ASSUME ProtectedPairAssumption, IInv, GoodRun, at["client"] \in Finished
  PROVE  /\ \A w \in Ways : Captured(w) = Setup + attempts
         /\ got["req"] = Setup + attempts
         /\ attempts \in 0..2 /\ Setup \in Nat
         /\ mode \in {"protected", "server"} =>
              attempts > 0 /\ frames["resp"][Setup + attempts] = "terminal"
         /\ attempts > 0 => mode \in {"protected", "server"}
         /\ attempts = 2 => mode = "protected" /\ frames["resp"][Setup + 1] = "pending"
         /\ mode # "setup" => ledger = Complete
         /\ effects = IF mode = "protected" THEN 1 ELSE 0
<1>1. Flow /\ Rows /\ Talk /\ TypeOK /\ AtomsOK
  BY Atoms DEF GoodRun, IInv
<1>2. at["client"] # "await"
  BY DEF Finished, Reported
<1>3. /\ got["resp"] = Setup + attempts
      /\ mode \in {"protected", "server"} =>
            attempts > 0 /\ frames["resp"][Setup + attempts] = "terminal"
      /\ attempts <= 2 /\ (attempts > 0 => mode \in {"protected", "server"})
      /\ attempts = 2 => mode = "protected" /\ frames["resp"][Setup + 1] = "pending"
  BY <1>1 DEF Talk
<1>4. /\ Captured("req") = got["resp"] /\ got["req"] = got["resp"] /\ Captured("resp") = got["resp"]
  BY <1>1, <1>2, AllDelivered
<1>5. attempts \in Nat /\ Setup \in Nat
  BY <1>1 DEF AtomsOK
<1>6. mode \in {"protected", "server"} => ledger = Complete
  <2>1. attempts > 0 => Setup + attempts \in 1..Captured("resp")
    BY <1>3, <1>4, <1>5
  <2> QED BY <1>1, <1>3, <2>1 DEF Talk
<1>7. mode # "setup" => ledger = Complete
  BY <1>1, <1>6 DEF Rows, TypeOK, PairModes
<1>8. effects = IF mode = "protected" THEN 1 ELSE 0
  <2>1. CASE mode = "protected"
    BY <1>1, <1>6, <2>1, Journal DEF Rows
  <2>2. CASE mode # "protected"
    BY <1>1, <2>2 DEF Rows, TypeOK, PairModes, IInv, Quiet
  <2> QED BY <2>1, <2>2
<1>9. attempts \in 0..2
  BY <1>3, <1>5
<1> QED BY <1>3, <1>4, <1>5, <1>7, <1>8, <1>9 DEF Ways

LEMMA EndOfStreamGood ==
  ASSUME ProtectedPairAssumption, IInv, IInv', GoodRun, EndOfStream
  PROVE  GoodRun'
<1> USE DEF fixed, runner, peers, initiator, responder, relays, Ways, Peers
<1>1. Flow /\ Rows /\ Talk /\ Stations /\ Ends /\ why = "none" /\ TypeOK
  BY DEF GoodRun, IInv
<1>2. /\ UNCHANGED <<mode, core, main, poll, why, written, files, marker, clock, attempts,
                     replies,
                     ledger, effects, exit, wire, out, shut, frames, thread, errors, sockets, got>>
      /\ at["server"] = "receive" /\ at'["client"] = at["client"] /\ shut["req"]
      /\ at'["server"] = IF got["req"] >= Setup /\ effects = (IF mode = "protected" THEN 1 ELSE 0)
                           THEN "report" ELSE "fail"
  BY <1>1 DEF EndOfStream, TypeOK, Stations
<1>3. mode # "setup" /\ at["client"] = "ended"
  BY <1>1, <1>2 DEF Ends, Source
<1>4. at'["server"] = "report"
  <2>1. at["client"] \in Finished
    BY <1>3 DEF Finished, Reported
  <2>2. /\ got["req"] = Setup + attempts /\ attempts \in 0..2 /\ Setup \in Nat
        /\ effects = IF mode = "protected" THEN 1 ELSE 0
    BY <2>1, WhenFinished
  <2> QED BY <1>2, <2>2
<1>5. Flow'
  BY <1>1, <1>2, <1>4, FlowKept DEF Hand, Due, Answering, Awaited
<1>6. Rows'
  BY <1>1, <1>2, RowsKept
<1>7. Talk'
  BY <1>1, <1>2, TalkKept
<1>8. Stations'
  BY <1>1, <1>2, <1>4 DEF Stations, Gone, Finished, Reported
<1>9. Ends'
  BY <1>1, <1>2, <1>3 DEF Ends, Captured, Hand, Source
<1> QED BY <1>1, <1>2, <1>5, <1>6, <1>7, <1>8, <1>9 DEF GoodRun

LEMMA ListenGood ==
  ASSUME ProtectedPairAssumption, IInv, IInv', GoodRun, Listen
  PROVE  GoodRun'
<1> USE DEF fixed, runner, peers, initiator, responder, relays, Ways, Peers
<1>1. Flow /\ Rows /\ Talk /\ Stations /\ Ends /\ why = "none" /\ TypeOK
  BY DEF GoodRun, IInv
<1>2. /\ UNCHANGED <<mode, core, main, poll, why, written, marker, clock, attempts, replies,
                     ledger, effects, exit, wire, out, shut, frames, thread, errors, sockets, got>>
      /\ at["server"] = "start" /\ at'["server"] = "receive" /\ at'["client"] = at["client"]
      /\ files' = files \cup {"address"}
  BY <1>1 DEF Listen, TypeOK
<1>3. Flow'
  BY <1>1, <1>2, FlowKept DEF Hand, Due, Answering, Awaited
<1>4. Rows'
  BY <1>1, <1>2, RowsKept
<1>5. Talk'
  BY <1>1, <1>2, TalkKept
<1>6. Stations'
  BY <1>1, <1>2 DEF Stations, Gone, Finished, Reported
<1>7. Ends'
  BY <1>1, <1>2 DEF Ends, Captured, Hand, Source, Finished, Reported
<1> QED BY <1>1, <1>2, <1>3, <1>4, <1>5, <1>6, <1>7 DEF GoodRun

LEMMA ReportGood ==
  ASSUME ProtectedPairAssumption, IInv, IInv', GoodRun, NEW p \in Peers, Report(p)
  PROVE  GoodRun'
<1> USE DEF fixed, runner, peers, initiator, responder, relays, Ways, Peers
<1> DEFINE q == IF p = "client" THEN "server" ELSE "client"
<1>1. Flow /\ Rows /\ Talk /\ Stations /\ Ends /\ why = "none" /\ TypeOK
  BY DEF GoodRun, IInv
<1>2. /\ UNCHANGED <<mode, core, main, poll, why, written, marker, clock, attempts, replies,
                     ledger, effects, exit, wire, out, shut, frames, thread, errors, sockets, got>>
      /\ at[p] = "report" /\ at'[p] = (IF Protected THEN "stop" ELSE "release") /\ at'[q] = at[q]
      /\ files' = files \cup {IF p = "client" THEN "client.json" ELSE "server.json"}
  BY <1>1 DEF Report, TypeOK, FileOf
<1>3. Flow'
  BY <1>1, <1>2, FlowKept DEF Hand, Due, Answering, Awaited
<1>4. Rows'
  BY <1>1, <1>2, RowsKept
<1>5. Talk'
  BY <1>1, <1>2, TalkKept DEF Finished, Reported
<1>6. Stations'
  BY <1>1, <1>2 DEF Stations, Gone, Finished, Reported, Protected
<1>7. Ends'
  BY <1>1, <1>2 DEF Ends, Captured, Hand, Source, Finished, Reported
<1> QED BY <1>1, <1>2, <1>3, <1>4, <1>5, <1>6, <1>7 DEF GoodRun

LEMMA LeaveGood ==
  ASSUME ProtectedPairAssumption, IInv, IInv', GoodRun, NEW p \in Peers, Leave(p)
  PROVE  GoodRun'
<1> USE DEF fixed, runner, peers, initiator, responder, relays, Ways, Peers
<1> DEFINE q == IF p = "client" THEN "server" ELSE "client"
<1>1. Flow /\ Rows /\ Talk /\ Stations /\ Ends /\ why = "none" /\ TypeOK
  BY DEF GoodRun, IInv
<1>2. /\ UNCHANGED <<mode, core, main, poll, why, written, files, marker, clock, attempts,
                     replies,
                     ledger, effects, wire, out, shut, frames, thread, errors, sockets, got>>
      /\ at[p] = "stop" \/ (at[p] = "release" /\ "release" \in files)
      /\ at'[p] = "ended" /\ at'[q] = at[q] /\ exit'[p] = "good" /\ exit'[q] = exit[q]
  BY <1>1 DEF Leave, TypeOK, Stations, Finished, Reported
<1>3. Flow'
  BY <1>1, <1>2, FlowKept DEF Hand, Due, Answering, Awaited
<1>4. Rows'
  BY <1>1, <1>2, RowsKept
<1>5. Talk'
  BY <1>1, <1>2, TalkKept DEF Finished, Reported
<1>6. Stations'
  BY <1>1, <1>2 DEF Stations, Gone, Finished, Reported
<1>7. Ends'
  BY <1>1, <1>2 DEF Ends, Captured, Hand, Source, Finished, Reported
<1> QED BY <1>1, <1>2, <1>3, <1>4, <1>5, <1>6, <1>7 DEF GoodRun

LEMMA LetGoGood ==
  ASSUME ProtectedPairAssumption, IInv, IInv', GoodRun, LetGo
  PROVE  GoodRun'
<1> USE DEF fixed, runner, peers, initiator, responder, relays, Ways
<1>1. Flow /\ Rows /\ Talk /\ Stations /\ Ends /\ why = "none" /\ TypeOK
  BY DEF GoodRun, IInv
<1>2. /\ UNCHANGED <<mode, core, main, poll, why, written, files, marker, clock, at, attempts,
                     replies,
                     ledger, effects, exit, wire, out, shut, frames, errors, sockets, got>>
      /\ thread["resp"] = "hold" /\ thread'["resp"] = "send" /\ thread'["req"] = thread["req"]
  BY <1>1 DEF LetGo, TypeOK
<1>3. Hand("req")' = Hand("req") /\ Hand("resp")' = Hand("resp") /\ Hand("resp")' # 0
  BY <1>2 DEF Hand, InHand
<1>4. Flow'
  BY <1>1, <1>2, <1>3, FlowKept DEF Due, Answering, Awaited
<1>5. Rows'
  BY <1>1, <1>2, RowsKept
<1>6. Talk'
  BY <1>1, <1>2, TalkKept
<1>7. Stations'
  BY <1>1, <1>2 DEF Stations, Gone
<1>8. Ends'
  BY <1>1, <1>2, <1>3 DEF Ends, Captured
<1> QED BY <1>1, <1>2, <1>4, <1>5, <1>6, <1>7, <1>8 DEF GoodRun

LEMMA PassEndGood ==
  ASSUME ProtectedPairAssumption, IInv, IInv', GoodRun, NEW w \in Ways, PassEnd(w)
  PROVE  GoodRun'
<1> USE DEF fixed, runner, peers, initiator, responder, relays, Peers
<1> DEFINE v == IF w = "req" THEN "resp" ELSE "req"
<1>1. Flow /\ Rows /\ Talk /\ Stations /\ Ends /\ why = "none" /\ TypeOK
  BY DEF GoodRun, IInv
<1>2. /\ UNCHANGED <<mode, core, main, poll, why, written, files, marker, clock, at, attempts,
                     replies,
                     ledger, effects, exit, wire, out, frames, sockets, got>>
      /\ thread[w] = "read" /\ thread'[w] = "ended" /\ thread'[v] = thread[v]
      /\ Gone(Source(w)) /\ shut'[v] = shut[v] /\ errors' = (errors \/ ~Protected)
      /\ w \in {"req", "resp"} /\ v \in Ways /\ \A u \in Ways : u = w \/ u = v
  <2>1. thread'[w] = "ended" /\ thread'[v] = thread[v]
    BY <1>1 DEF PassEnd, TypeOK, Ways
  <2>2. shut'[v] = shut[v]
    BY DEF PassEnd, Ways
  <2> QED BY <2>1, <2>2 DEF PassEnd, Ways
<1>3. Source(w) \in Peers /\ at[Source(w)] = "ended"
  BY <1>1, <1>2 DEF Stations, Gone, Source
<1>4. Hand(w)' = Hand(w) /\ Hand(v)' = Hand(v) /\ Hand(w) = 0
  BY <1>2 DEF Hand, InHand
<1>5. mode # "setup"
  <2> SUFFICES ASSUME mode = "setup" PROVE FALSE
    OBVIOUS
  <2>1. "release" \in files
    BY <1>1, <1>3 DEF Stations
  <2>2. at["client"] \in Finished
    BY <1>1, <2>1 DEF Stations, Finished
  <2>3. Captured(w) = Setup
    <3>1. Captured(w) = Setup + attempts /\ Setup \in Nat
      BY <2>2, WhenFinished
    <3>2. attempts = 0
      BY DEF IInv, Quiet
    <3> QED BY <3>1, <3>2
  <2> QED BY <1>1, <1>2, <1>4, <2>3 DEF Ends
<1>6. ~errors'
  <2>1. ~errors /\ Protected
    BY <1>1, <1>5 DEF Protected, Stations
  <2> QED BY <1>2, <2>1
<1>7. Flow'
  <2>1. Hand("req")' = Hand("req") /\ Hand("resp")' = Hand("resp")
    BY <1>2, <1>4
  <2> QED BY <1>1, <1>2, <2>1, FlowKept DEF Due, Answering, Awaited
<1>8. Rows'
  BY <1>1, <1>2, RowsKept
<1>9. Talk'
  BY <1>1, <1>2, TalkKept
<1>10. Stations'
  BY <1>1, <1>2, <1>6 DEF Stations, Gone
<1>11. Ends'
  BY <1>1, <1>2, <1>3, <1>4, <1>5 DEF Ends, Captured
<1> QED BY <1>1, <1>2, <1>7, <1>8, <1>9, <1>10, <1>11 DEF GoodRun

LEMMA LookGood ==
  ASSUME ProtectedPairAssumption, IInv, IInv', GoodRun, Look
  PROVE  GoodRun'
<1> USE DEF fixed, runner, peers, initiator, responder, relays, Ways, Peers
<1>1. Flow /\ Rows /\ Talk /\ Stations /\ Ends /\ why = "none" /\ TypeOK
  BY DEF GoodRun, IInv
<1>2. /\ UNCHANGED <<mode, core, why, files, marker, clock, at, attempts, replies,
                     ledger, effects, exit, wire, out, shut, frames, thread, errors, sockets, got>>
      /\ main \in Rendezvous
      /\ main' = main \/ (main' = Next1(main) /\ FileOf(main) \in files)
  BY DEF Look
<1>3. Flow'
  BY <1>1, <1>2, FlowKept DEF Hand, Due, Answering, Awaited
<1>4. Rows'
  BY <1>1, <1>2, RowsKept
<1>5. Talk'
  BY <1>1, <1>2, TalkKept
<1>6. Stations'
  BY <1>1, <1>2 DEF Stations, Gone, Next1, FileOf, Rendezvous
<1>7. Ends'
  BY <1>1, <1>2 DEF Ends, Captured, Hand
<1> QED BY <1>1, <1>2, <1>3, <1>4, <1>5, <1>6, <1>7 DEF GoodRun

\* A peer that is gone has written its file: the runner can only have missed it.
LEMMA AskGood ==
  ASSUME ProtectedPairAssumption, IInv, IInv', GoodRun, Ask
  PROVE  GoodRun' \/ Decided'
<1> USE DEF fixed, runner, peers, initiator, responder, relays, Ways, Peers
<1>1. Flow /\ Rows /\ Talk /\ Stations /\ Ends /\ why = "none" /\ TypeOK
  BY DEF GoodRun, IInv
<1>2. main \in Rendezvous
  BY DEF IInv, RunnerInv, Ask
<1>3. CASE AskWriter
  <2>1. main' = "kill" /\ why' = "exited before rendezvous" /\ written' = (FileOf(main) \in files)
    BY <1>3 DEF Ask, Fail
  <2>2. FileOf(main) \in files
    <3>1. CASE main = "client"
      BY <1>1, <1>3, <3>1 DEF AskWriter, Stations, Gone, FileOf, Reported
    <3>2. CASE main = "server"
      BY <1>1, <1>3, <3>2 DEF AskWriter, Stations, Gone, FileOf, Reported
    <3>3. CASE main = "address"
      BY <1>1, <1>3, <3>3 DEF AskWriter, Stations, Gone, FileOf
    <3> QED BY <1>2, <3>1, <3>2, <3>3 DEF Rendezvous
  <2> QED BY <2>1, <2>2 DEF Decided
<1>4. CASE ~AskWriter
  <2>1. UNCHANGED <<mode, core, main, why, written, files, marker, clock, at, attempts,
                    replies, ledger,
                    effects, exit, wire, out, shut, frames, thread, errors, sockets, got>>
    BY <1>4 DEF Ask
  <2>2. Flow' /\ Rows' /\ Talk'
    BY <1>1, <2>1, FlowKept, RowsKept, TalkKept DEF Hand, Due, Answering, Awaited
  <2>3. Stations'
    BY <1>1, <2>1 DEF Stations, Gone
  <2>4. Ends'
    BY <1>1, <2>1 DEF Ends, Captured, Hand
  <2> QED BY <1>1, <2>1, <2>2, <2>3, <2>4 DEF GoodRun
<1> QED BY <1>3, <1>4

LEMMA ConnectGood ==
  ASSUME ProtectedPairAssumption, IInv, IInv', GoodRun, Connect
  PROVE  GoodRun'
<1> USE DEF fixed, runner, peers, initiator, responder, relays, Ways, Peers
<1>1. Flow /\ Rows /\ Talk /\ Stations /\ Ends /\ why = "none" /\ TypeOK
  BY DEF GoodRun, IInv
<1>2. /\ UNCHANGED <<mode, core, main, poll, why, written, files, marker, clock, attempts,
                     replies,
                     ledger, effects, exit, wire, out, shut, frames, thread, errors, sockets, got>>
      /\ at["client"] = "off" /\ at'["client"] = "start" /\ at'["server"] = at["server"]
  BY <1>1 DEF Connect, TypeOK
<1>3. Flow'
  BY <1>1, <1>2, FlowKept DEF Hand, Due, Answering, Awaited
<1>4. Rows'
  BY <1>1, <1>2, RowsKept
<1>5. Talk'
  BY <1>1, <1>2, TalkKept DEF Finished, Reported
<1>6. Stations'
  BY <1>1, <1>2 DEF Stations, Gone, Finished, Reported
<1>7. Ends'
  BY <1>1, <1>2 DEF Ends, Captured, Hand, Source, Finished, Reported
<1> QED BY <1>1, <1>2, <1>3, <1>4, <1>5, <1>6, <1>7 DEF GoodRun

LEMMA AcceptGood ==
  ASSUME ProtectedPairAssumption, IInv, IInv', GoodRun, Accept
  PROVE  GoodRun'
<1> USE DEF fixed, runner, peers, initiator, responder, relays, Ways, Peers
<1>1. Flow /\ Rows /\ Talk /\ Stations /\ Ends /\ why = "none" /\ TypeOK
  BY DEF GoodRun, IInv
<1>2. /\ UNCHANGED <<mode, core, poll, why, written, files, marker, clock, at, attempts, replies,
                     ledger, effects, exit, wire, out, shut, frames, errors, sockets, got>>
      /\ main = "connect" /\ main' = "client" /\ \A w \in Ways : thread'[w] = "read"
  BY DEF Accept
<1>3. \A w \in Ways : thread[w] = "off" /\ Captured(w) = 0 /\ Hand(w)' = Hand(w)
  BY <1>1, <1>2 DEF IInv, RunnerInv, Ends, Hand, InHand
<1>4. Flow'
  BY <1>1, <1>2, <1>3, FlowKept DEF Due, Answering, Awaited
<1>5. Rows'
  BY <1>1, <1>2, RowsKept
<1>6. Talk'
  BY <1>1, <1>2, TalkKept
<1>7. Stations'
  BY <1>1, <1>2 DEF Stations, Gone
<1>8. Ends'
  <2>1. \A w \in Ways : Captured(w)' = Captured(w) /\ Captured(w) # Setup
    BY <1>2, <1>3 DEF Captured, ProtectedPairAssumption
  <2> QED BY <1>1, <1>2, <2>1 DEF Ends
<1> QED BY <1>1, <1>2, <1>4, <1>5, <1>6, <1>7, <1>8 DEF GoodRun

LEMMA ReleaseGood ==
  ASSUME ProtectedPairAssumption, IInv, IInv', GoodRun, Release \/ Reap
  PROVE  GoodRun'
<1> USE DEF fixed, runner, peers, initiator, responder, relays, Ways, Peers
<1>1. Flow /\ Rows /\ Talk /\ Stations /\ Ends /\ why = "none" /\ TypeOK
  BY DEF GoodRun, IInv
<1>2. /\ UNCHANGED <<mode, core, poll, why, written, marker, clock, at, attempts, replies, ledger,
                     effects, exit, wire, out, shut, frames, thread, errors, sockets, got>>
      /\ \/ main = "release" /\ main' = "reap" /\ files' = files \cup {"release"}
         \/ main = "reap" /\ main' = "join" /\ files' = files /\ \A p \in Peers : Gone(p)
  BY DEF Release, Reap
<1>3. Flow' /\ Rows' /\ Talk'
  BY <1>1, <1>2, FlowKept, RowsKept, TalkKept DEF Hand, Due, Answering, Awaited
<1>4. Stations'
  <2>1. CASE main = "release" /\ main' = "reap" /\ files' = files \cup {"release"}
    BY <1>1, <1>2, <2>1 DEF Stations, Gone
  <2>2. CASE main = "reap" /\ main' = "join" /\ files' = files /\ \A p \in Peers : Gone(p)
    BY <1>1, <1>2, <2>2 DEF Stations, Gone
  <2> QED BY <1>2, <2>1, <2>2
<1>5. Ends'
  BY <1>1, <1>2 DEF Ends, Captured, Hand
<1> QED BY <1>1, <1>2, <1>3, <1>4, <1>5 DEF GoodRun

\* Everything the runner compares is there and as it must be.
LEMMA JudgeGood ==
  ASSUME ProtectedPairAssumption, Calls > 1, IInv, GoodRun, Sends, ~late, Judge
  PROVE  Decided'
<1> USE DEF fixed, runner, peers, initiator, responder, relays, Ways, Peers
<1>1. Flow /\ Rows /\ Talk /\ Stations /\ Ends /\ TypeOK
  BY DEF GoodRun, IInv
<1>2. main = "join" /\ \A w \in Ways : thread[w] = "ended"
  BY DEF Judge
<1>3. ~errors /\ \A p \in Peers : exit[p] = "good" /\ at[p] = "ended"
  BY <1>1, <1>2 DEF Stations, Gone
<1>4. /\ Captured("req") = Setup + attempts /\ Captured("resp") = Setup + attempts
      /\ attempts \in 0..2 /\ Setup \in Nat
      /\ mode \in {"protected", "server"} =>
           attempts > 0 /\ frames["resp"][Setup + attempts] = "terminal"
      /\ attempts > 0 => mode \in {"protected", "server"}
      /\ attempts = 2 => mode = "protected" /\ frames["resp"][Setup + 1] = "pending"
      /\ mode # "setup" => ledger = Complete
      /\ effects = IF mode = "protected" THEN 1 ELSE 0
  <2>1. at["client"] \in Finished
    BY <1>3 DEF Finished, Reported
  <2> QED BY <2>1, WhenFinished
<1>5. Len(frames["req"]) = Setup + attempts /\ Len(frames["resp"]) = Setup + attempts
  BY <1>4 DEF Captured
<1>6. Count = attempts
  BY <1>4, <1>5 DEF Count
<1>7. mode \in {"protected", "server"} => Validate
  <2> SUFFICES ASSUME mode \in {"protected", "server"} PROVE Validate
    OBVIOUS
  <2>1. attempts \in 1..Calls /\ attempts \in {1, 2} /\ ledger = Complete
    BY <1>4 DEF ProtectedPairAssumption
  <2>2. \A n \in 1..(attempts - 1) : frames["resp"][Setup + n] = "pending"
    <3>1. \A n \in 1..(attempts - 1) : n = 1 /\ attempts = 2
      BY <2>1
    <3> QED BY <1>4, <3>1
  <2>3. Len(at_sends) = attempts /\ \A n \in 1..attempts : at_sends[n] = n - 1
    BY <2>1 DEF Sends
  <2> QED BY <1>4, <1>5, <1>6, <2>1, <2>2, <2>3 DEF Validate
<1>8. Accepted
  <2>1. \A w \in Ways : Len(frames[w]) >= Setup
    BY <1>4, <1>5
  <2>2. CASE mode = "setup"
    <3>1. attempts = 0
      BY <1>4, <2>2
    <3>2. \A w \in Ways : Len(frames[w]) = Setup
      BY <1>4, <1>5, <3>1
    <3> QED BY <1>2, <1>3, <2>1, <2>2, <3>2 DEF Accepted
  <2>3. CASE mode = "protected"
    BY <1>2, <1>3, <1>4, <1>7, <2>1, <2>3 DEF Accepted
  <2>4. CASE mode = "server"
    <3>1. Count = 1
      BY <1>4, <1>6, <2>4
    <3> QED BY <1>2, <1>3, <1>4, <1>7, <2>1, <2>4, <3>1 DEF Accepted, ValidateRecovery
  <2>5. CASE mode = "client"
    <3>1. attempts = 0
      BY <1>4, <2>5
    <3>2. \A w \in Ways : Len(frames[w]) = Setup
      BY <1>4, <1>5, <3>1
    <3> QED BY <1>2, <1>3, <1>4, <2>1, <2>5, <3>2 DEF Accepted, ValidateRecovery
  <2> QED BY <1>1, <2>2, <2>3, <2>4, <2>5 DEF TypeOK, PairModes
<1> QED BY <1>8 DEF Judge, Decided

-----------------------------------------------------------------------------
(* Their steps that cannot happen, and the whole.                          *)

\* No hang-up, no hold given up, no broken socket, no timeout.
LEMMA NeverGood ==
  ASSUME ProtectedPairAssumption, IInv, GoodRun, ~late
  PROVE  /\ ~HangUp /\ ~GiveUp /\ ~Kill /\ ~Return /\ ~TimeOut /\ ~Done
         /\ \A w \in Ways : ~Broken(w)
<1> USE DEF fixed, runner, peers, initiator, responder, relays, Ways, Peers
<1>1. Flow /\ Rows /\ Talk /\ Stations /\ Ends /\ TypeOK /\ AtomsOK
  BY Atoms DEF GoodRun, IInv
<1>2. ASSUME HangUp PROVE FALSE
  <2>1. at["client"] = "await" /\ shut["resp"]
    BY <1>1, <1>2 DEF HangUp, Stations
  <2>2. at["server"] = "ended"
    BY <1>1, <2>1 DEF Ends, Source
  <2> QED BY <1>1, <2>1, <2>2, ServerOutlives DEF Finished, Reported
<1>3. ASSUME GiveUp PROVE FALSE
  <2>1. thread["resp"] = "hold" /\ Hand("resp") # 0
    BY <1>3 DEF GiveUp, Hand, InHand
  <2>2. at["client"] = "await" /\ Queued("resp") = 0
    BY <1>1, <2>1, OnlyOne DEF Awaited
  <2>3. ~Gone("server")
    BY <1>1, <2>2, ServerOutlives DEF Finished, Reported
  <2>4. mode = "protected" /\ attempts > 0
    BY <1>1, <2>1 DEF Ends
  <2>5. marker <= replies /\ marker \in Nat
    BY <1>1, <2>4 DEF IInv, Clock, TypeOK
  <2>6. Setup + replies = Captured("resp")
    BY <1>1, <2>2, <2>4 DEF Rows, AtomsOK
  <2>7. marker <= Captured("resp") - Setup
    BY <1>1, <2>5, <2>6 DEF AtomsOK
  <2>8. marker > Captured("resp") - Setup
    BY <1>3, <2>3 DEF GiveUp, Expected, Captured
  <2> QED BY <1>1, <2>5, <2>7, <2>8 DEF AtomsOK
<1>4. ~Kill /\ ~Return /\ ~TimeOut /\ ~Done
  BY <1>1 DEF Kill, Return, TimeOut, Done, Stations
<1>5. \A w \in Ways : ~Broken(w)
  BY <1>1 DEF Broken, Stations
<1> QED BY <1>2, <1>3, <1>4, <1>5

LEMMA SendsStep ==
  ASSUME TypeOK, Sends, Clock, [Next]_vars
  PROVE  Sends'
<1> USE DEF fixed, runner, peers, initiator, responder, relays, Ways, Peers
<1>1. CASE SendCall
  <2>1. attempts' = attempts + 1 /\ at_sends' = Append(at_sends, attempts) /\ attempts \in Nat
    BY <1>1 DEF SendCall, TypeOK
  <2>2. Append(at_sends, attempts) = [n \in 1..(attempts + 1) |-> n - 1]
    <3>1. at_sends \in Seq(Int) /\ Len(at_sends) = attempts
      BY <2>1 DEF Sends
    <3> DEFINE s == Append(at_sends, attempts)
               t == [n \in 1..(attempts + 1) |-> n - 1]
    <3>2. s \in Seq(Int) /\ Len(s) = attempts + 1 /\ s[attempts + 1] = attempts
          /\ \A n \in 1..attempts : s[n] = at_sends[n]
      BY <2>1, <3>1, AppendProperties
    <3>3. t \in Seq(Int) /\ Len(t) = attempts + 1 /\ \A n \in 1..(attempts + 1) : t[n] = n - 1
      BY <2>1
    <3>4. \A n \in 1..attempts : at_sends[n] = n - 1
      BY DEF Sends
    <3> HIDE DEF s, t
    <3>5. \A n \in 1..Len(s) : s[n] = t[n]
      <4> SUFFICES ASSUME NEW n \in 1..Len(s) PROVE s[n] = t[n]
        OBVIOUS
      <4>1. n \in 1..(attempts + 1)
        BY <3>2
      <4>2. CASE n = attempts + 1
        BY <2>1, <3>2, <3>3, <4>1, <4>2
      <4>3. CASE n \in 1..attempts
        BY <3>2, <3>3, <3>4, <4>1, <4>3
      <4> QED BY <2>1, <4>1, <4>2, <4>3
    <3>6. s = t
      BY <3>2, <3>3, <3>5, SameRows
    <3> QED BY <3>6 DEF s, t
  <2> QED BY <2>1, <2>2 DEF Sends
<1>2. CASE ~SendCall
  <2>1. UNCHANGED <<attempts, at_sends>>
    <3> SUFFICES ASSUME Next PROVE UNCHANGED <<attempts, at_sends>>
      BY DEF vars
    <3>1. CASE SendSetup
      BY <3>1 DEF SendSetup
    <3>2. CASE ReadReply
      BY <3>2 DEF ReadReply
    <3>3. CASE HangUp
      BY <3>3 DEF HangUp
    <3>4. CASE ReadRequest
      BY <3>4 DEF ReadRequest
    <3>5. CASE Execute
      BY <3>5 DEF Execute
    <3>6. CASE ReplySetup
      BY <3>6 DEF ReplySetup
    <3>7. CASE Reply
      BY <3>7 DEF Reply
    <3>8. CASE Settle
      BY <3>8 DEF Settle
    <3>9. CASE EndOfStream
      BY <3>9 DEF EndOfStream
    <3>10. CASE Listen
      BY <3>10 DEF Listen
    <3>11. ASSUME NEW p \in Peers, Report(p) PROVE UNCHANGED <<attempts, at_sends>>
      BY <3>11 DEF Report
    <3>12. ASSUME NEW p \in Peers, Leave(p) PROVE UNCHANGED <<attempts, at_sends>>
      BY <3>12 DEF Leave
    <3>13. ASSUME NEW p \in Peers, Crash(p) PROVE UNCHANGED <<attempts, at_sends>>
      BY <3>13 DEF Crash
    <3>14. CASE LetGo
      BY <3>14 DEF LetGo
    <3>15. CASE GiveUp
      BY <3>15 DEF GiveUp
    <3>16. ASSUME NEW w \in Ways, Capture(w) PROVE UNCHANGED <<attempts, at_sends>>
      BY <3>16 DEF Capture
    <3>17. ASSUME NEW w \in Ways, Forward(w) PROVE UNCHANGED <<attempts, at_sends>>
      BY <3>17 DEF Forward
    <3>18. ASSUME NEW w \in Ways, PassEnd(w) PROVE UNCHANGED <<attempts, at_sends>>
      BY <3>18 DEF PassEnd
    <3>19. ASSUME NEW w \in Ways, Broken(w) PROVE UNCHANGED <<attempts, at_sends>>
      BY <3>19 DEF Broken
    <3>20. CASE Look
      BY <3>20 DEF Look
    <3>21. CASE Ask
      BY <3>21 DEF Ask
    <3>22. CASE Connect
      BY <3>22 DEF Connect
    <3>23. CASE Accept
      BY <3>23 DEF Accept
    <3>24. CASE Release
      BY <3>24 DEF Release
    <3>25. CASE Reap
      BY <3>25 DEF Reap
    <3>26. CASE Judge
      BY <3>26 DEF Judge
    <3>27. CASE TimeOut
      BY <3>27 DEF TimeOut
    <3>28. CASE Kill
      BY <3>28 DEF Kill
    <3>29. CASE Return
      BY <3>29 DEF Return
    <3>30. CASE Expire
      BY <3>30 DEF Expire
    <3>31. CASE Done
      BY <3>31 DEF Done, vars
    <3> QED BY <1>2, <3>1, <3>2, <3>3, <3>4, <3>5, <3>6, <3>7, <3>8, <3>9,
        <3>10, <3>11, <3>12, <3>13, <3>14, <3>15, <3>16, <3>17, <3>18, <3>19,
        <3>20, <3>21, <3>22, <3>23, <3>24, <3>25, <3>26, <3>27, <3>28, <3>29,
        <3>30, <3>31 DEF Next, Relay, Runner
  <2> QED BY <2>1 DEF Sends
<1> QED BY <1>1, <1>2

\* What has gone wrong is not mended, and a verdict stands.
LEMMA GoodBefore == ASSUME Next, Good' PROVE Good
<1> USE DEF fixed, runner, peers, initiator, responder, relays, vars, Good
<1>1. CASE SendCall
  BY <1>1 DEF SendCall
<1>2. CASE SendSetup
  BY <1>2 DEF SendSetup
<1>3. CASE ReadReply
  BY <1>3 DEF ReadReply
<1>4. CASE HangUp
  BY <1>4 DEF HangUp
<1>5. CASE ReadRequest
  BY <1>5 DEF ReadRequest
<1>6. CASE Execute
  BY <1>6 DEF Execute
<1>7. CASE ReplySetup
  BY <1>7 DEF ReplySetup
<1>8. CASE Reply
  BY <1>8 DEF Reply
<1>9. CASE Settle
  BY <1>9 DEF Settle
<1>10. CASE EndOfStream
  BY <1>10 DEF EndOfStream
<1>11. CASE Listen
  BY <1>11 DEF Listen
<1>12. ASSUME NEW p \in Peers, Report(p) PROVE Good
  BY <1>12 DEF Report
<1>13. ASSUME NEW p \in Peers, Leave(p) PROVE Good
  BY <1>13 DEF Leave
<1>14. ASSUME NEW p \in Peers, Crash(p) PROVE Good
  BY <1>14 DEF Crash
<1>15. CASE LetGo
  BY <1>15 DEF LetGo
<1>16. CASE GiveUp
  BY <1>16 DEF GiveUp
<1>17. ASSUME NEW w \in Ways, Capture(w) PROVE Good
  BY <1>17 DEF Capture
<1>18. ASSUME NEW w \in Ways, Forward(w) PROVE Good
  BY <1>18 DEF Forward
<1>19. ASSUME NEW w \in Ways, PassEnd(w) PROVE Good
  BY <1>19 DEF PassEnd
<1>20. ASSUME NEW w \in Ways, Broken(w) PROVE Good
  BY <1>20 DEF Broken
<1>21. CASE Look
  BY <1>21 DEF Look
<1>22. CASE Ask
  BY <1>22 DEF Ask
<1>23. CASE Connect
  BY <1>23 DEF Connect
<1>24. CASE Accept
  BY <1>24 DEF Accept
<1>25. CASE Release
  BY <1>25 DEF Release
<1>26. CASE Reap
  BY <1>26 DEF Reap
<1>27. CASE Judge
  BY <1>27 DEF Judge
<1>28. CASE TimeOut
  BY <1>28 DEF TimeOut
<1>29. CASE Kill
  BY <1>29 DEF Kill
<1>30. CASE Return
  BY <1>30 DEF Return
<1>31. CASE Expire
  BY <1>31 DEF Expire
<1>32. CASE Done
  BY <1>32 DEF Done
<1> QED BY <1>1, <1>2, <1>3, <1>4, <1>5, <1>6, <1>7, <1>8, <1>9, <1>10, <1>11, <1>12,
    <1>13, <1>14, <1>15, <1>16, <1>17, <1>18, <1>19, <1>20, <1>21, <1>22, <1>23,
    <1>24, <1>25, <1>26, <1>27, <1>28, <1>29, <1>30, <1>31, <1>32 DEF Next,
    Relay, Runner

LEMMA DecidedStep == ASSUME RunnerInv, Decided, Next PROVE Decided'
<1> USE DEF fixed, runner, peers, initiator, responder, relays, vars, Rendezvous
<1>1. CASE SendCall
  BY <1>1 DEF Decided, SendCall
<1>2. CASE SendSetup
  BY <1>2 DEF Decided, SendSetup
<1>3. CASE ReadReply
  BY <1>3 DEF Decided, ReadReply
<1>4. CASE HangUp
  BY <1>4 DEF Decided, HangUp
<1>5. CASE ReadRequest
  BY <1>5 DEF Decided, ReadRequest
<1>6. CASE Execute
  BY <1>6 DEF Decided, Execute
<1>7. CASE ReplySetup
  BY <1>7 DEF Decided, ReplySetup
<1>8. CASE Reply
  BY <1>8 DEF Decided, Reply
<1>9. CASE Settle
  BY <1>9 DEF Decided, Settle
<1>10. CASE EndOfStream
  BY <1>10 DEF Decided, EndOfStream
<1>11. CASE Listen
  BY <1>11 DEF Decided, Listen
<1>12. ASSUME NEW p \in Peers, Report(p) PROVE Decided'
  BY <1>12 DEF Decided, Report
<1>13. ASSUME NEW p \in Peers, Leave(p) PROVE Decided'
  BY <1>13 DEF Decided, Leave
<1>14. ASSUME NEW p \in Peers, Crash(p) PROVE Decided'
  BY <1>14 DEF Decided, Crash
<1>15. CASE LetGo
  BY <1>15 DEF Decided, LetGo
<1>16. CASE GiveUp
  BY <1>16 DEF Decided, GiveUp
<1>17. ASSUME NEW w \in Ways, Capture(w) PROVE Decided'
  BY <1>17 DEF Decided, Capture
<1>18. ASSUME NEW w \in Ways, Forward(w) PROVE Decided'
  BY <1>18 DEF Decided, Forward
<1>19. ASSUME NEW w \in Ways, PassEnd(w) PROVE Decided'
  BY <1>19 DEF Decided, PassEnd
<1>20. ASSUME NEW w \in Ways, Broken(w) PROVE Decided'
  BY <1>20 DEF Decided, Broken
<1>21. CASE Look
  BY <1>21 DEF Decided, Look, Next1
<1>22. CASE Ask
  BY <1>22 DEF Decided, Ask, RunnerInv
<1>23. CASE Connect
  BY <1>23 DEF Decided, Connect
<1>24. CASE Accept
  BY <1>24 DEF Decided, Accept
<1>25. CASE Release
  BY <1>25 DEF Decided, Release
<1>26. CASE Reap
  BY <1>26 DEF Decided, Reap
<1>27. CASE Judge
  BY <1>27 DEF Decided, Judge
<1>28. CASE TimeOut
  BY <1>28 DEF Decided, TimeOut, Fail
<1>29. CASE Kill
  BY <1>29 DEF Decided, Kill
<1>30. CASE Return
  BY <1>30 DEF Decided, Return
<1>31. CASE Expire
  BY <1>31 DEF Decided, Expire
<1>32. CASE Done
  BY <1>32 DEF Decided, Done
<1> QED BY <1>1, <1>2, <1>3, <1>4, <1>5, <1>6, <1>7, <1>8, <1>9, <1>10, <1>11, <1>12,
    <1>13, <1>14, <1>15, <1>16, <1>17, <1>18, <1>19, <1>20, <1>21, <1>22, <1>23,
    <1>24, <1>25, <1>26, <1>27, <1>28, <1>29, <1>30, <1>31, <1>32 DEF Next,
    Relay, Runner

LEMMA GoodRunStep ==
  ASSUME ProtectedPairAssumption, Calls > 1, IInv, IInv', Sends, GoodRun, Next, Good, Good'
  PROVE  GoodRun' \/ Decided'
<1>a. core = "good" /\ ~late /\ ~late' /\ ~crashed'
  BY DEF Good
<1>b. core = "good" /\ ~late
  BY <1>a
<1>1. CASE SendCall
  BY <1>1, <1>b, SendCallGood
<1>2. CASE SendSetup
  BY <1>2, <1>b, SendSetupGood
<1>3. CASE ReadReply
  BY <1>3, <1>b, ReadReplyGood
<1>4. CASE HangUp
  BY <1>4, <1>b, NeverGood
<1>5. CASE ReadRequest
  BY <1>5, <1>b, ReadRequestGood
<1>6. CASE Execute
  BY <1>6, <1>b, ExecuteGood
<1>7. CASE ReplySetup
  BY <1>7, <1>b, ReplySetupGood
<1>8. CASE Reply
  BY <1>8, <1>b, ReplyGood
<1>9. CASE Settle
  BY <1>9, <1>b, SettleGood
<1>10. CASE EndOfStream
  BY <1>10, <1>b, EndOfStreamGood
<1>11. CASE Listen
  BY <1>11, <1>b, ListenGood
<1>12. ASSUME NEW p \in Peers, Report(p) PROVE GoodRun' \/ Decided'
  BY <1>12, <1>b, ReportGood
<1>13. ASSUME NEW p \in Peers, Leave(p) PROVE GoodRun' \/ Decided'
  BY <1>13, <1>b, LeaveGood
<1>14. ASSUME NEW p \in Peers, Crash(p) PROVE GoodRun' \/ Decided'
  BY <1>14, <1>a DEF Crash, Good
<1>15. CASE LetGo
  BY <1>15, <1>b, LetGoGood
<1>16. CASE GiveUp
  BY <1>16, <1>b, NeverGood
<1>17. ASSUME NEW w \in Ways, Capture(w) PROVE GoodRun' \/ Decided'
  BY <1>17, <1>b, CaptureGood
<1>18. ASSUME NEW w \in Ways, Forward(w) PROVE GoodRun' \/ Decided'
  BY <1>18, <1>b, ForwardGood
<1>19. ASSUME NEW w \in Ways, PassEnd(w) PROVE GoodRun' \/ Decided'
  BY <1>19, <1>b, PassEndGood
<1>20. ASSUME NEW w \in Ways, Broken(w) PROVE GoodRun' \/ Decided'
  BY <1>20, <1>b, NeverGood
<1>21. CASE Look
  BY <1>21, <1>b, LookGood
<1>22. CASE Ask
  BY <1>22, <1>b, AskGood
<1>23. CASE Connect
  BY <1>23, <1>b, ConnectGood
<1>24. CASE Accept
  BY <1>24, <1>b, AcceptGood
<1>25. CASE Release
  BY <1>25, <1>b, ReleaseGood
<1>26. CASE Reap
  BY <1>26, <1>b, ReleaseGood
<1>27. CASE Judge
  BY <1>27, <1>b, JudgeGood
<1>28. CASE TimeOut
  BY <1>28, <1>b, NeverGood
<1>29. CASE Kill
  BY <1>29, <1>b, NeverGood
<1>30. CASE Return
  BY <1>30, <1>b, NeverGood
<1>31. CASE Expire
  BY <1>31, <1>a DEF Expire, Good
<1>32. CASE Done
  BY <1>32, <1>b, NeverGood
<1> QED BY <1>1, <1>2, <1>3, <1>4, <1>5, <1>6, <1>7, <1>8, <1>9, <1>10, <1>11, <1>12,
    <1>13, <1>14, <1>15, <1>16, <1>17, <1>18, <1>19, <1>20, <1>21, <1>22, <1>23,
    <1>24, <1>25, <1>26, <1>27, <1>28, <1>29, <1>30, <1>31, <1>32 DEF Next,
    Relay, Runner

LEMMA GoodStep ==
  ASSUME ProtectedPairAssumption, Calls > 1, IInv, IInv', Sends, GoodInv, [Next]_vars
  PROVE  GoodInv'
<1>1. CASE Next
  <2> SUFFICES ASSUME Good' PROVE GoodRun' \/ Decided'
    BY DEF GoodInv
  <2>1. Good
    BY <1>1, GoodBefore
  <2>2. CASE GoodRun
    BY <1>1, <2>1, <2>2, GoodRunStep
  <2>3. CASE Decided
    BY <1>1, <2>3, DecidedStep DEF IInv
  <2> QED BY <2>1, <2>2, <2>3 DEF GoodInv
<1>2. CASE UNCHANGED vars
  <2> USE <1>2 DEF vars
  <2>1. Flow' = Flow /\ Rows' = Rows /\ Talk' = Talk
    BY DEF Flow, Rows, Talk, Waiting, Queued, Captured, Hand, Due, Answering, Awaited
  <2>2. Stations' = Stations /\ Ends' = Ends
    BY DEF Stations, Ends, Gone, Captured, Hand
  <2> QED BY <2>1, <2>2 DEF GoodInv, Good, GoodRun, Decided
<1> QED BY <1>1, <1>2

LEMMA InitGood == ASSUME ProtectedPairAssumption, Init PROVE GoodInv /\ Sends
<1> USE DEF Ways, Peers
<1>1. Sends
  BY DEF Init, Sends
<1>2. /\ \A w \in Ways : /\ Queued(w) = 0 /\ Waiting(w) = 0 /\ Captured(w) = 0 /\ got[w] = 0
                         /\ Hand(w) = 0 /\ thread[w] = "off" /\ ~shut[w]
      /\ at["client"] = "off" /\ at["server"] = "start" /\ Due = 0 /\ Awaited = 0
  BY DEF Init, Queued, Waiting, Captured, Hand, InHand, Due, Answering, Awaited
<1>3. Flow
  BY <1>2 DEF Flow
<1>4. Rows
  BY <1>2 DEF Init, Rows
<1>5. Talk
  BY <1>2 DEF Init, Talk, Finished, Reported
<1>6. Stations
  BY <1>2 DEF Init, Stations, Reported, Finished, Gone
<1>7. Ends
  BY <1>2 DEF Ends, Finished, Reported, ProtectedPairAssumption
<1> QED BY <1>1, <1>3, <1>4, <1>5, <1>6, <1>7 DEF Init, GoodInv, GoodRun

(***************************************************************************)
(* Correct peers in time pass, for any number of setup frames, whatever    *)
(* the order of frames, files, exits and ends of stream.  One call is too  *)
(* few: the first reply may be a correct pending one, and the initiator    *)
(* would have no attempt left (the code allows four).                      *)
(***************************************************************************)
THEOREM GoodPairPasses ==
  ASSUME Calls > 1 PROVE Spec => []NoFalseAlarm
<1>1. Init => IInv /\ GoodInv /\ Sends
  BY ProtectedPairAssumption, InitIInv, InitGood
<1>2. IInv /\ GoodInv /\ Sends /\ [Next]_vars => (IInv /\ GoodInv /\ Sends)'
  <2> SUFFICES ASSUME IInv, GoodInv, Sends, [Next]_vars PROVE IInv' /\ GoodInv' /\ Sends'
    OBVIOUS
  <2>1. IInv'
    BY ProtectedPairAssumption, StepIInv
  <2>2. Sends'
    BY SendsStep DEF IInv
  <2>3. GoodInv'
    BY <2>1, ProtectedPairAssumption, GoodStep
  <2> QED BY <2>1, <2>2, <2>3
<1>3. GoodInv => NoFalseAlarm
  BY DEF GoodInv, Good, GoodRun, Stations, Decided, NoFalseAlarm
<1> QED BY <1>1, <1>2, <1>3, PTL DEF Spec

-----------------------------------------------------------------------------
(* Progress.  That a pair ends needs fairness and stays with the run; what *)
(* the fairness is applied to is proved: a rank no step raises, and a fair *)
(* action that is awaited while the rank stands still, and lowers it.      *)
(* Peers may stop for good, so nothing but the deadline is awaited until   *)
(* it has passed, and only the runner and its threads after it.            *)

StageLeft ==
  IF main = "address" THEN 9
  ELSE IF main = "connect" THEN 8
  ELSE IF main = "client" THEN 7
  ELSE IF main = "server" THEN 6
  ELSE IF main = "release" THEN 5
  ELSE IF main = "reap" THEN 4
  ELSE IF main = "join" THEN 3
  ELSE IF main = "kill" THEN 2
  ELSE IF main = "over" THEN 1 ELSE 0

\* A thread counts when the sockets are closed: until then it may start over.
ThreadLeft(w) == IF thread[w] = "hold" THEN 2 ELSE IF thread[w] \in {"read", "send"} THEN 1 ELSE 0

Small == (IF poll THEN 1 ELSE 0) + (IF at["client"] = "off" THEN 1 ELSE 0)
           + (IF sockets THEN 4 ELSE ThreadLeft("req") + ThreadLeft("resp"))

Rank == IF late THEN 10 * StageLeft + Small ELSE 100

\* The guards of the fair actions, where they are awaited.
MayExpire == ~late /\ main # "done"
MayRun ==
  /\ late
  /\ \/ main \in Rendezvous \cup {"connect", "release", "reap", "join", "kill"}
     \/ main = "over" /\ \A w \in Ways : thread[w] \in {"off", "ended"}
MayRelay ==
  /\ late /\ main = "over"
  /\ \/ ~sockets /\ \E w \in Ways : thread[w] \in {"read", "send"}
     \/ thread["resp"] = "hold"

SomebodyMay == main # "done" => MayExpire \/ MayRun \/ MayRelay

Lowers == Rank' < Rank
Stays  == /\ Rank' = Rank
          /\ MayExpire => MayExpire' \/ main' = "done"
          /\ MayRun => MayRun'
          /\ MayRelay => MayRelay'

(***************************************************************************)
(* When the runner has cleaned up, the sockets are closed and both peers   *)
(* are gone; and only a reply is ever held.                                *)
(***************************************************************************)
ProgressInv ==
  /\ main \in {"over", "done"} <=> ~sockets
  /\ main \in {"over", "done"} => \A p \in Peers : at[p] \in {"off", "ended"}
  /\ thread["req"] # "hold"

PeerStep ==
  \/ SendCall \/ SendSetup \/ ReadReply \/ HangUp
  \/ ReadRequest \/ Execute \/ ReplySetup \/ Reply \/ Settle \/ EndOfStream \/ Listen
  \/ \E p \in Peers : Report(p) \/ Leave(p) \/ Crash(p)

\* A peer moves nothing the runner looks at when it is late, and is not back
\* from where it ended.
LEMMA PeersApart ==
  ASSUME TypeOK, PeerStep
  PROVE  /\ UNCHANGED <<main, poll, late, thread, sockets>>
         /\ at["client"] = "off" <=> at'["client"] = "off"
         /\ (\A p \in Peers : at[p] \in {"off", "ended"}) =>
              \A p \in Peers : at'[p] \in {"off", "ended"}
<1> USE DEF fixed, runner, peers, initiator, responder, relays, Peers, TypeOK
<1>1. CASE SendCall \/ SendSetup \/ HangUp
  BY <1>1 DEF SendCall, SendSetup, HangUp
<1>2. CASE ReadReply
  <2>1. After(Head(out["resp"])) # "off"
    BY DEF After
  <2> QED
    BY <1>2, <2>1 DEF ReadReply
<1>3. CASE ReadRequest
  BY <1>3 DEF ReadRequest
<1>4. CASE Execute
  BY <1>4 DEF Execute
<1>5. CASE ReplySetup \/ Reply \/ Settle \/ EndOfStream \/ Listen
  BY <1>5 DEF ReplySetup, Reply, Settle, EndOfStream, Listen
<1>6. ASSUME NEW p \in Peers, Report(p) \/ Leave(p) \/ Crash(p)
      PROVE  /\ UNCHANGED <<main, poll, late, thread, sockets>>
             /\ at["client"] = "off" <=> at'["client"] = "off"
             /\ (\A q \in Peers : at[q] \in {"off", "ended"}) =>
                  \A q \in Peers : at'[q] \in {"off", "ended"}
  BY <1>6 DEF Report, Leave, Crash
<1> QED
  BY <1>1, <1>2, <1>3, <1>4, <1>5, <1>6 DEF PeerStep

\* The relays do not touch the runner.
LEMMA RelaysApart ==
  ASSUME Relay PROVE UNCHANGED <<main, poll, late, at, sockets>>
BY DEF Relay, LetGo, GiveUp, Capture, Forward, PassEnd, Broken, runner, peers

\* Once the sockets are closed a thread only comes to its end.
LEMMA ThreadsEnd ==
  ASSUME TypeOK, Relay, ~sockets
  PROVE  /\ \A w \in Ways : ThreadLeft(w)' <= ThreadLeft(w)
         /\ \E w \in Ways : ThreadLeft(w)' < ThreadLeft(w)
<1> USE DEF TypeOK, ThreadLeft, Ways
<1>1. CASE LetGo
  BY <1>1 DEF LetGo
<1>2. CASE GiveUp
  BY <1>2 DEF GiveUp
<1>3. ASSUME NEW w \in Ways, Broken(w)
      PROVE  /\ \A v \in Ways : ThreadLeft(v)' <= ThreadLeft(v)
             /\ \E v \in Ways : ThreadLeft(v)' < ThreadLeft(v)
  BY <1>3 DEF Broken
<1> QED
  BY <1>1, <1>2, <1>3 DEF Relay, Capture, Forward, PassEnd

\* Most steps of the runner are its own, and none of them moves the deadline.
LEMMA RunnerOnly ==
  /\ Look \/ Ask \/ Release \/ Reap \/ Judge \/ TimeOut \/ Return => UNCHANGED <<at, thread, sockets>>
  /\ Runner => late' = late
<1> USE DEF peers, relays
<1>1. Look \/ Ask => UNCHANGED <<at, thread, sockets, late>>
  BY DEF Look, Ask
<1>2. Release \/ Reap \/ Judge => UNCHANGED <<at, thread, sockets, late>>
  BY DEF Release, Reap, Judge
<1>3. TimeOut \/ Return => UNCHANGED <<at, thread, sockets, late>>
  BY DEF TimeOut, Return
<1>4. Connect \/ Accept \/ Kill => late' = late
  BY DEF Connect, Accept, Kill
<1> QED
  BY <1>1, <1>2, <1>3, <1>4 DEF Runner

LEMMA ProgressKept ==
  ASSUME TypeOK, RunnerInv, ProgressInv, [Next]_vars PROVE ProgressInv'
<1> USE DEF ProgressInv
<1>1. CASE PeerStep
  BY <1>1, PeersApart
<1>2. CASE Relay
  <2>1. thread'["req"] # "hold"
    BY <1>2 DEF Relay, LetGo, GiveUp, Capture, Forward, PassEnd, Broken, TypeOK, Ways, Held
  <2> QED
    BY <1>2, <2>1, RelaysApart
<1>3. CASE Look \/ Ask \/ Release \/ Reap \/ Judge \/ TimeOut \/ Return
  <2>1. UNCHANGED <<at, thread, sockets>>
    BY <1>3, RunnerOnly
  <2>2. CASE Look
    <3>1. Next1(main) \notin {"over", "done"}
      BY DEF Next1
    <3> QED
      BY <2>1, <2>2, <3>1 DEF Look, Rendezvous
  <2>3. CASE Ask
    <3>1. main \in Rendezvous /\ main' \in {main, "kill"}
      BY <2>3 DEF Ask, RunnerInv, Fail
    <3> QED
      BY <2>1, <3>1 DEF Rendezvous
  <2>4. CASE Release \/ Reap
    BY <2>1, <2>4 DEF Release, Reap
  <2>5. CASE Judge \/ TimeOut
    BY <2>1, <2>5 DEF Judge, TimeOut, Fail, Rendezvous
  <2>6. CASE Return
    BY <2>1, <2>6 DEF Return
  <2> QED
    BY <1>3, <2>2, <2>3, <2>4, <2>5, <2>6
<1>4. CASE Connect \/ Accept
  BY <1>4 DEF Connect, Accept, runner, peers, relays, Ways
<1>5. CASE Kill
  BY <1>5 DEF Kill, relays, Peers
<1>6. CASE Expire \/ Done \/ UNCHANGED vars
  BY <1>6 DEF Expire, Done, runner, peers, relays, vars
<1> QED
  BY <1>1, <1>2, <1>3, <1>4, <1>5, <1>6 DEF Next, Runner, PeerStep

LEMMA RankRange ==
  ASSUME TypeOK PROVE StageLeft \in 0..9 /\ Small \in 0..6 /\ Rank \in 0..100
<1>1. StageLeft \in 0..9
  BY DEF StageLeft
<1>2. Small \in 0..6
  BY DEF Small, ThreadLeft
<1> QED
  BY <1>1, <1>2 DEF Rank

\* When it is late, a later stage outweighs the rest.
LEMMA LateRank ==
  ASSUME TypeOK, late, late'
  PROVE  /\ StageLeft' < StageLeft => Lowers
         /\ StageLeft' = StageLeft /\ Small' < Small => Lowers
         /\ StageLeft' = StageLeft /\ Small' = Small => Rank' = Rank
<1>1. StageLeft \in Int /\ Small \in 0..6 /\ Rank = 10 * StageLeft + Small
  BY RankRange DEF Rank
<1>2. StageLeft' \in Int /\ Small' \in 0..6
  BY DEF StageLeft, Small, ThreadLeft
<1>3. Rank' = 10 * StageLeft' + Small'
  BY DEF Rank
<1>4. \A s, t \in Int : \A a, b \in 0..6 :
        /\ t < s => 10 * t + b < 10 * s + a
        /\ t = s /\ b < a => 10 * t + b < 10 * s + a
  OBVIOUS
<1> QED
  BY <1>1, <1>2, <1>3, <1>4 DEF Lowers

\* Each step of a late runner lowers the rank.
LEMMA LateRunnerLowers ==
  ASSUME TypeOK, RunnerInv, late, Runner PROVE Lowers
<1>0. late'
  BY RunnerOnly
<1>1. CASE Ask
  <2>0. UNCHANGED <<at, thread, sockets>>
    BY <1>1, RunnerOnly
  <2>1. main \in Rendezvous /\ poll /\ poll' = FALSE
    BY <1>1 DEF Ask, RunnerInv
  <2>2. CASE main' = "kill"
    <3>1. StageLeft' < StageLeft
      BY <2>1, <2>2 DEF StageLeft, Rendezvous
    <3> QED
      BY <1>0, <3>1, LateRank
  <2>3. CASE main' = main
    <3>1. StageLeft' = StageLeft
      BY <2>3 DEF StageLeft
    <3>2. Small' < Small
      BY <2>0, <2>1 DEF Small, ThreadLeft
    <3> QED
      BY <1>0, <3>1, <3>2, LateRank
  <2> QED
    BY <1>1, <2>2, <2>3 DEF Ask, Fail
<1>2. CASE Connect
  <2>1. UNCHANGED <<main, poll, thread, sockets>> /\ at["client"] = "off" /\ at'["client"] = "start"
    BY <1>2 DEF Connect, runner, relays, TypeOK, Peers
  <2>2. StageLeft' = StageLeft
    BY <2>1 DEF StageLeft
  <2>3. Small' < Small
    BY <2>1 DEF Small, ThreadLeft
  <2> QED
    BY <1>0, <2>2, <2>3, LateRank
<1>3. CASE ~Ask /\ ~Connect
  <2>1. \/ main = "connect" /\ main' = "client"
        \/ main = "release" /\ main' = "reap"
        \/ main = "reap" /\ main' = "join"
        \/ main \in Rendezvous \cup {"connect", "reap", "join"} /\ main' = "kill"
        \/ main = "kill" /\ main' = "over"
        \/ main = "over" /\ main' = "done"
    BY <1>3 DEF Runner, Look, Accept, Release, Reap, Judge, TimeOut, Kill, Return, Fail
  <2>2. StageLeft' < StageLeft
    BY <2>1 DEF StageLeft, Rendezvous
  <2> QED
    BY <1>0, <2>2, LateRank
<1> QED
  BY <1>1, <1>2, <1>3

\* So does a thread when the sockets are closed; before, it changes nothing.
LEMMA LateRelay ==
  ASSUME TypeOK, ProgressInv, late, Relay
  PROVE  (main = "over" => Lowers) /\ (Lowers \/ Stays)
<1>1. UNCHANGED <<main, poll, late, at, sockets>>
  BY RelaysApart
<1>2. StageLeft' = StageLeft
  BY <1>1 DEF StageLeft
<1>3. CASE sockets
  <2>1. main # "over"
    BY <1>3 DEF ProgressInv
  <2>2. Small' = Small
    BY <1>1, <1>3 DEF Small
  <2>3. Rank' = Rank
    BY <1>1, <1>2, <2>2, LateRank
  <2> QED
    BY <1>1, <2>1, <2>3 DEF Stays, MayExpire, MayRun, MayRelay
<1>4. CASE ~sockets
  <2>1. /\ \A w \in Ways : ThreadLeft(w)' <= ThreadLeft(w)
        /\ \E w \in Ways : ThreadLeft(w)' < ThreadLeft(w)
    BY <1>4, ThreadsEnd
  <2>2. Small' < Small
    BY <1>1, <1>4, <2>1 DEF Small, ThreadLeft, Ways
  <2> QED
    BY <1>1, <1>2, <2>2, LateRank
<1> QED
  BY <1>3, <1>4

\* A late step of a peer is out of the count.
LEMMA LatePeer ==
  ASSUME TypeOK, late, PeerStep \/ UNCHANGED vars PROVE Stays
<1>1. UNCHANGED <<main, poll, late, thread, sockets>> /\ (at["client"] = "off" <=> at'["client"] = "off")
  BY PeersApart DEF vars
<1>2. StageLeft' = StageLeft /\ Small' = Small
  BY <1>1 DEF StageLeft, Small, ThreadLeft
<1>3. Rank' = Rank
  BY <1>1, <1>2, LateRank
<1> QED
  BY <1>1, <1>3 DEF Stays, MayExpire, MayRun, MayRelay

\* Before it is late only the deadline counts.
LEMMA EarlyStep ==
  ASSUME TypeOK, ~late, [Next]_vars
  PROVE  /\ Expire => Lowers
         /\ Lowers \/ Stays
<1>1. CASE Expire
  <2>1. late' /\ main' = main /\ poll' = poll /\ at' = at /\ thread' = thread /\ sockets' = sockets
    BY <1>1 DEF Expire, runner, peers, relays
  <2>2. StageLeft' \in 0..9 /\ Small' \in 0..6
    BY DEF StageLeft, Small, ThreadLeft
  <2>3. Rank = 100 /\ Rank' = 10 * StageLeft' + Small'
    BY <2>1 DEF Rank
  <2>4. \A s \in 0..9 : \A a \in 0..6 : 10 * s + a < 100
    OBVIOUS
  <2> QED
    BY <2>2, <2>3, <2>4 DEF Lowers
<1>2. CASE ~Expire
  <2>1. late' = late
    BY <1>2, PeersApart, RelaysApart, RunnerOnly DEF Next, PeerStep, Done, vars
  <2>2. Rank' = Rank
    BY <2>1 DEF Rank
  <2> QED
    BY <1>2, <2>1, <2>2 DEF Stays, MayExpire, MayRun, MayRelay
<1> QED
  BY <1>1, <1>2

(***************************************************************************)
(* What makes every pair end, for any number of frames and calls, and even *)
(* if a peer stops for good or a relay holds a reply that nobody settles:  *)
(* until it has ended the deadline, the runner or a relay may act, the     *)
(* deadline lowers the rank, as every later step of the runner and every   *)
(* step of a relay whose socket is closed does, no step raises it or,      *)
(* leaving it as it is, takes the chance away, and when the runner is done *)
(* both peers are gone (lines 162-171, 243-256,                            *)
(* mcp_protected_support.py:48-51).                                        *)
(***************************************************************************)
THEOREM PairComesCloser ==
  Spec => /\ []( /\ Rank \in 0..100 /\ SomebodyMay
                 /\ main = "done" => \A p \in Peers : at[p] \in {"off", "ended"} )
          /\ [][ /\ Lowers \/ Stays
                 /\ Expire \/ (late /\ Runner) \/ (late /\ main = "over" /\ Relay) => Lowers ]_vars
<1>1. Init => ProgressInv
  BY ProtectedPairAssumption DEF Init, ProgressInv, Peers, Ways
<1>2. IInv /\ ProgressInv /\ [Next]_vars => ProgressInv'
  BY ProgressKept DEF IInv
<1>3. IInv /\ ProgressInv =>
        /\ Rank \in 0..100 /\ SomebodyMay
        /\ main = "done" => \A p \in Peers : at[p] \in {"off", "ended"}
  <2> SUFFICES ASSUME IInv, ProgressInv PROVE SomebodyMay
    BY RankRange DEF IInv, ProgressInv
  <2>1. TypeOK
    BY DEF IInv
  <2>2. CASE main = "over"
    <3>1. \A w \in Ways : thread[w] \in {"off", "ended", "read", "send"} \/ thread["resp"] = "hold"
      BY <2>1 DEF TypeOK, ProgressInv, Ways
    <3> QED
      BY <2>2, <3>1 DEF ProgressInv, SomebodyMay, MayExpire, MayRun, MayRelay
  <2>3. CASE main # "over"
    BY <2>1, <2>3 DEF TypeOK, Stages, SomebodyMay, MayExpire, MayRun
  <2> QED
    BY <2>2, <2>3
<1>4. ASSUME IInv, ProgressInv, [Next]_vars
      PROVE  /\ Lowers \/ Stays
             /\ Expire \/ (late /\ Runner) \/ (late /\ main = "over" /\ Relay) => Lowers
  <2>1. TypeOK /\ RunnerInv
    BY <1>4 DEF IInv
  <2>2. CASE late
    <3>1. ~Expire
      BY <2>2 DEF Expire
    <3>2. PeerStep \/ Relay \/ Runner \/ UNCHANGED vars
      BY <1>4, <3>1 DEF Next, PeerStep, Done
    <3> QED
      BY <1>4, <2>1, <2>2, <3>1, <3>2, LateRunnerLowers, LateRelay, LatePeer
  <2>3. CASE ~late
    BY <1>4, <2>1, <2>3, EarlyStep
  <2> QED
    BY <2>2, <2>3
<1> QED
  BY <1>1, <1>2, <1>3, <1>4, Inductive, PTL DEF Spec

=============================================================================
