--------------------------- MODULE McpSetupProofs ---------------------------
(***************************************************************************)
(* Theorems of McpSetup, for every set of capacities and clock samples and *)
(* every deadline.                                                         *)
(***************************************************************************)
EXTENDS McpSetup, FiniteSetTheorems, TLAPS

\* Where the owner stands once its pending output is out.
Stage == IF phase = "OUTPUT_PENDING" THEN target ELSE phase

(***************************************************************************)
(* What the client has behind it at each stage of its setup.               *)
(***************************************************************************)
ClientHistory ==
  role = "client" =>
    /\ Stage \in {"CHANNEL_AUTHENTICATED", "WAIT_INITIALIZE", "INITIALIZE_ACCEPTED",
                  "WAIT_INITIALIZED_ACK", "NEGOTIATED", "WAIT_DISCOVERY", "READY", "CLOSED"}
    /\ Stage \notin {"CHANNEL_AUTHENTICATED", "CLOSED"} => 0 \in ids
    /\ Stage \in {"INITIALIZE_ACCEPTED", "WAIT_INITIALIZED_ACK", "NEGOTIATED",
                  "WAIT_DISCOVERY", "READY"} =>
         "initialize" \in proofs /\ "initialize_result" \in replay
    /\ Stage \in {"NEGOTIATED", "WAIT_DISCOVERY", "READY"} =>
         "initialized" \in proofs /\ "ack" \in replay
    /\ Stage \in {"WAIT_DISCOVERY", "READY"} => 1 \in ids
    /\ Stage = "READY" =>
         phase = "READY" /\ "discovery" \in proofs /\ "listing" \in replay

(***************************************************************************)
(* The same for the server, whose last proof is the report that its final  *)
(* output was sent.                                                        *)
(***************************************************************************)
ServerHistory ==
  role = "server" =>
    /\ Stage \in {"EXPECT_INITIALIZE", "WAIT_INITIALIZED", "DISCOVERY_ONLY", "READY", "CLOSED"}
    /\ Stage \in {"WAIT_INITIALIZED", "DISCOVERY_ONLY", "READY"} =>
         0 \in ids /\ "initialize" \in proofs /\ "initialize" \in replay
    /\ Stage \in {"DISCOVERY_ONLY", "READY"} =>
         "initialized" \in proofs /\ "initialized" \in replay
    /\ Stage = "READY" => 1 \in ids /\ "list" \in replay
    /\ phase = "READY" => "discovery" \in proofs

HistoryInv ==
  /\ TypeOK /\ SlotsAgree /\ SetupInTime
  /\ target \notin {"OUTPUT_PENDING", "CLOSED"}
  /\ ClientHistory /\ ServerHistory

(***************************************************************************)
(* The rows of the transition tables.                                      *)
(***************************************************************************)
LEMMA ClientSendRows ==
  /\ DOMAIN ClientSends = {"send_initialize", "send_initialized", "send_list"}
  /\ /\ ClientSends["send_initialize"].from = "CHANNEL_AUTHENTICATED"
     /\ ClientSends["send_initialize"].to = "WAIT_INITIALIZE"
     /\ ClientSends["send_initialize"].id = {0}
  /\ /\ ClientSends["send_initialized"].from = "INITIALIZE_ACCEPTED"
     /\ ClientSends["send_initialized"].to = "WAIT_INITIALIZED_ACK"
     /\ ClientSends["send_initialized"].id = {}
  /\ /\ ClientSends["send_list"].from = "NEGOTIATED"
     /\ ClientSends["send_list"].to = "WAIT_DISCOVERY"
     /\ ClientSends["send_list"].id = {1}
BY DEF ClientSends

\* The rows of the client's receive table (mcp_setup_model.py 66-68).
LEMMA ClientReceiveRows ==
  /\ DOMAIN ClientReceives = {"initialize_result", "ack", "listing"}
  /\ /\ ClientReceives["initialize_result"].from = "WAIT_INITIALIZE"
     /\ ClientReceives["initialize_result"].to = "INITIALIZE_ACCEPTED"
     /\ ClientReceives["initialize_result"].proof = {"initialize"}
  /\ /\ ClientReceives["ack"].from = "WAIT_INITIALIZED_ACK"
     /\ ClientReceives["ack"].to = "NEGOTIATED"
     /\ ClientReceives["ack"].proof = {"initialized"}
  /\ /\ ClientReceives["listing"].from = "WAIT_DISCOVERY"
     /\ ClientReceives["listing"].to = "READY"
     /\ ClientReceives["listing"].proof = {"discovery"}
BY DEF ClientReceives

\* The rows of the server's receive table (mcp_setup_model.py 69-73).
LEMMA ServerReceiveRows ==
  /\ DOMAIN ServerReceives = {"initialize", "initialized", "list"}
  /\ /\ ServerReceives["initialize"].from = "EXPECT_INITIALIZE"
     /\ ServerReceives["initialize"].to = "WAIT_INITIALIZED"
     /\ ServerReceives["initialize"].id = {0}
     /\ ServerReceives["initialize"].proof = {"initialize"}
  /\ /\ ServerReceives["initialized"].from = "WAIT_INITIALIZED"
     /\ ServerReceives["initialized"].to = "DISCOVERY_ONLY"
     /\ ServerReceives["initialized"].id = {}
     /\ ServerReceives["initialized"].proof = {"initialized"}
  /\ /\ ServerReceives["list"].from = "DISCOVERY_ONLY"
     /\ ServerReceives["list"].to = "READY"
     /\ ServerReceives["list"].id = {1}
     /\ ServerReceives["list"].proof = {}
BY DEF ServerReceives

\* The ids of setup are request ids.
LEMMA SetupIds == {0} \subseteq CallIds /\ {1} \subseteq CallIds
BY DEF CallIds

\* Clock and deadline are numbers.
LEMMA Numbers == HistoryInv => now \in Nat /\ Deadline \in Nat
BY SetupAssumption DEF HistoryInv, TypeOK

(***************************************************************************)
(* Closing, whatever else it records, keeps the invariant.                 *)
(***************************************************************************)
LEMMA ShutKeeps ==
  ASSUME HistoryInv, Shut, UNCHANGED <<role, limit, proofs, ids, admitted>>,
         replay' \subseteq Receives, now' \in Nat
  PROVE  HistoryInv'
<1>1. TypeOK'
  BY DEF HistoryInv, TypeOK, Shut, Phases
<1> QED
  BY <1>1 DEF HistoryInv, TypeOK, Shut, SlotsAgree, SetupInTime, ClientHistory, ServerHistory, Stage

(***************************************************************************)
(* Moving on either shuts the owner or does all it says.                   *)
(***************************************************************************)
LEMMA AdvanceCases ==
  ASSUME NEW to, NEW pending, NEW new, NEW proof, Advance(to, pending, new, proof)
  PROVE  \/ Shut /\ UNCHANGED <<role, limit, now, proofs, ids, admitted>>
         \/ /\ phase' = to /\ target' = pending /\ queued' = ""
            /\ ids' = ids \cup new /\ proofs' = proofs \cup proof
            /\ UNCHANGED <<role, limit, now, admitted>>
BY DEF Advance, fixed

(***************************************************************************)
(* A client that handles a frame in its place moves one stage on.          *)
(***************************************************************************)
LEMMA ClientHandles ==
  ASSUME HistoryInv, role = "client", phase \notin {"OUTPUT_PENDING", "CLOSED"},
         phase # "READY" => now < Deadline,
         NEW e \in DOMAIN ClientReceives, ClientReceives[e].from = phase,
         replay' = replay \cup {e}, UNCHANGED <<role, limit, now, ids, admitted>>,
         phase' = ClientReceives[e].to, target' = "", queued' = "",
         proofs' = proofs \cup ClientReceives[e].proof
  PROVE  HistoryInv'
<1> USE DEF HistoryInv, TypeOK
<1>1. CASE e = "initialize_result"
  <2>1. phase = "WAIT_INITIALIZE" /\ phase' = "INITIALIZE_ACCEPTED" /\ proofs' = proofs \cup {"initialize"}
    BY <1>1, ClientReceiveRows
  <2>2. TypeOK' /\ SlotsAgree' /\ SetupInTime' /\ ServerHistory' /\ target' \notin {"OUTPUT_PENDING", "CLOSED"}
    <3>1. TypeOK'
      BY <1>1, <2>1 DEF Receives, Proofs, Phases
    <3> QED
      BY <3>1, <1>1, <2>1 DEF SlotsAgree, SetupInTime, ServerHistory
  <2>3. Stage = "WAIT_INITIALIZE" /\ Stage' = "INITIALIZE_ACCEPTED"
    BY <2>1 DEF Stage
  <2>4. ClientHistory'
    BY <1>1, <2>1, <2>3 DEF ClientHistory
  <2> QED
    BY <2>2, <2>4
<1>2. CASE e = "ack"
  <2>1. phase = "WAIT_INITIALIZED_ACK" /\ phase' = "NEGOTIATED" /\ proofs' = proofs \cup {"initialized"}
    BY <1>2, ClientReceiveRows
  <2>2. TypeOK' /\ SlotsAgree' /\ SetupInTime' /\ ServerHistory' /\ target' \notin {"OUTPUT_PENDING", "CLOSED"}
    <3>1. TypeOK'
      BY <1>2, <2>1 DEF Receives, Proofs, Phases
    <3> QED
      BY <3>1, <1>2, <2>1 DEF SlotsAgree, SetupInTime, ServerHistory
  <2>3. Stage = "WAIT_INITIALIZED_ACK" /\ Stage' = "NEGOTIATED"
    BY <2>1 DEF Stage
  <2>4. ClientHistory'
    BY <1>2, <2>1, <2>3 DEF ClientHistory
  <2> QED
    BY <2>2, <2>4
<1>3. CASE e = "listing"
  <2>1. phase = "WAIT_DISCOVERY" /\ phase' = "READY" /\ proofs' = proofs \cup {"discovery"}
    BY <1>3, ClientReceiveRows
  <2>2. TypeOK' /\ SlotsAgree' /\ SetupInTime' /\ ServerHistory' /\ target' \notin {"OUTPUT_PENDING", "CLOSED"}
    <3>1. TypeOK'
      BY <1>3, <2>1 DEF Receives, Proofs, Phases
    <3> QED
      BY <3>1, <1>3, <2>1 DEF SlotsAgree, SetupInTime, ServerHistory
  <2>3. Stage = "WAIT_DISCOVERY" /\ Stage' = "READY"
    BY <2>1 DEF Stage
  <2>4. ClientHistory'
    BY <1>3, <2>1, <2>3 DEF ClientHistory
  <2> QED
    BY <2>2, <2>4
<1> QED
  BY <1>1, <1>2, <1>3, ClientReceiveRows

(***************************************************************************)
(* A server that handles a frame in its place owes the output of the next  *)
(* stage.                                                                  *)
(***************************************************************************)
LEMMA ServerHandles ==
  ASSUME HistoryInv, role = "server", phase \notin {"OUTPUT_PENDING", "CLOSED"},
         phase # "READY" => now < Deadline,
         NEW e \in DOMAIN ServerReceives, ServerReceives[e].from = phase,
         replay' = replay \cup {e}, UNCHANGED <<role, limit, now, admitted>>,
         phase' = "OUTPUT_PENDING", target' = ServerReceives[e].to, queued' = "",
         ids' = ids \cup ServerReceives[e].id, proofs' = proofs \cup ServerReceives[e].proof
  PROVE  HistoryInv'
<1> USE DEF HistoryInv, TypeOK
<1>1. CASE e = "initialize"
  <2>1. /\ phase = "EXPECT_INITIALIZE" /\ target' = "WAIT_INITIALIZED"
        /\ ids' = ids \cup {0} /\ proofs' = proofs \cup {"initialize"}
    BY <1>1, ServerReceiveRows
  <2>2. TypeOK' /\ SlotsAgree' /\ SetupInTime' /\ ClientHistory' /\ target' \notin {"OUTPUT_PENDING", "CLOSED"}
    <3>1. TypeOK'
      BY <1>1, <2>1, SetupIds DEF Receives, Proofs, Phases
    <3> QED
      BY <3>1, <1>1, <2>1 DEF SlotsAgree, SetupInTime, ClientHistory
  <2>3. Stage = "EXPECT_INITIALIZE" /\ Stage' = "WAIT_INITIALIZED"
    BY <2>1 DEF Stage
  <2>4. ServerHistory'
    BY <1>1, <2>1, <2>3 DEF ServerHistory
  <2> QED
    BY <2>2, <2>4
<1>2. CASE e = "initialized"
  <2>1. /\ phase = "WAIT_INITIALIZED" /\ target' = "DISCOVERY_ONLY"
        /\ ids' = ids /\ proofs' = proofs \cup {"initialized"}
    BY <1>2, ServerReceiveRows
  <2>2. TypeOK' /\ SlotsAgree' /\ SetupInTime' /\ ClientHistory' /\ target' \notin {"OUTPUT_PENDING", "CLOSED"}
    <3>1. TypeOK'
      BY <1>2, <2>1, SetupIds DEF Receives, Proofs, Phases
    <3> QED
      BY <3>1, <1>2, <2>1 DEF SlotsAgree, SetupInTime, ClientHistory
  <2>3. Stage = "WAIT_INITIALIZED" /\ Stage' = "DISCOVERY_ONLY"
    BY <2>1 DEF Stage
  <2>4. ServerHistory'
    BY <1>2, <2>1, <2>3 DEF ServerHistory
  <2> QED
    BY <2>2, <2>4
<1>3. CASE e = "list"
  <2>1. /\ phase = "DISCOVERY_ONLY" /\ target' = "READY"
        /\ ids' = ids \cup {1} /\ proofs' = proofs
    BY <1>3, ServerReceiveRows
  <2>2. TypeOK' /\ SlotsAgree' /\ SetupInTime' /\ ClientHistory' /\ target' \notin {"OUTPUT_PENDING", "CLOSED"}
    <3>1. TypeOK'
      BY <1>3, <2>1, SetupIds DEF Receives, Proofs, Phases
    <3> QED
      BY <3>1, <1>3, <2>1 DEF SlotsAgree, SetupInTime, ClientHistory
  <2>3. Stage = "DISCOVERY_ONLY" /\ Stage' = "READY"
    BY <2>1 DEF Stage
  <2>4. ServerHistory'
    BY <1>3, <2>1, <2>3 DEF ServerHistory
  <2> QED
    BY <2>2, <2>4
<1> QED
  BY <1>1, <1>2, <1>3, ServerReceiveRows

(***************************************************************************)
(* So any frame, received or drained, keeps the invariant.                 *)
(***************************************************************************)
LEMMA HandleKeeps ==
  ASSUME HistoryInv, phase \notin {"OUTPUT_PENDING", "CLOSED"},
         phase # "READY" => now < Deadline,
         NEW e \in Receives, Handle(e)
  PROVE  HistoryInv'
<1>1. CASE Shut /\ UNCHANGED <<role, limit, now, proofs, ids, admitted>> /\ replay' \in {replay, replay \cup {e}}
  BY <1>1, ShutKeeps DEF HistoryInv, TypeOK
<1>2. CASE e \in replay
  BY <1>1, <1>2 DEF Handle, CloseWith, fixed, memory
<1>3. CASE e \notin replay /\ ~Expected(e)
  BY <1>1, <1>3 DEF Handle, fixed
<1>4. CASE e \notin replay /\ Expected(e)
  <2>1. Accept(e)
    BY <1>4 DEF Handle
  <2>2. CASE role = "client"
    <3>1. e \in DOMAIN ClientReceives /\ ClientReceives[e].from = phase
      BY <1>4, <2>2 DEF Expected
    <3>2. replay' = replay \cup {e} /\ Advance(ClientReceives[e].to, "", {}, ClientReceives[e].proof)
      BY <2>1, <2>2 DEF Accept
    <3>3. CASE Shut /\ UNCHANGED <<role, limit, now, proofs, ids, admitted>>
      BY <1>1, <3>2, <3>3
    <3>4. CASE /\ phase' = ClientReceives[e].to /\ target' = "" /\ queued' = ""
               /\ ids' = ids \cup {} /\ proofs' = proofs \cup ClientReceives[e].proof
               /\ UNCHANGED <<role, limit, now, admitted>>
      <4>1. ids' = ids
        BY <3>4
      <4> QED
        BY <2>2, <3>1, <3>2, <3>4, <4>1, ClientHandles
    <3> QED
      BY <3>2, <3>3, <3>4, AdvanceCases
  <2>3. CASE role = "server"
    <3>1. e \in DOMAIN ServerReceives /\ ServerReceives[e].from = phase
      BY <1>4, <2>3 DEF Expected
    <3>2. /\ replay' = replay \cup {e}
          /\ Advance("OUTPUT_PENDING", ServerReceives[e].to, ServerReceives[e].id, ServerReceives[e].proof)
      BY <2>1, <2>3 DEF Accept
    <3>3. CASE Shut /\ UNCHANGED <<role, limit, now, proofs, ids, admitted>>
      BY <1>1, <3>2, <3>3
    <3>4. CASE /\ phase' = "OUTPUT_PENDING" /\ target' = ServerReceives[e].to /\ queued' = ""
               /\ ids' = ids \cup ServerReceives[e].id
               /\ proofs' = proofs \cup ServerReceives[e].proof
               /\ UNCHANGED <<role, limit, now, admitted>>
      BY <2>3, <3>1, <3>2, <3>4, ServerHandles
    <3> QED
      BY <3>2, <3>3, <3>4, AdvanceCases
  <2> QED
    BY <2>2, <2>3 DEF HistoryInv, TypeOK
<1> QED
  BY <1>2, <1>3, <1>4

(***************************************************************************)
(* A send of the client keeps it too: its output leads to the next stage.  *)
(***************************************************************************)
LEMMA ClientSendKeeps ==
  ASSUME HistoryInv, role = "client", phase \notin {"OUTPUT_PENDING", "CLOSED"},
         phase # "READY" => now < Deadline,
         NEW e \in Sends, ClientSends[e].from = phase,
         UNCHANGED <<role, limit, now, admitted, replay, proofs>>,
         phase' = "OUTPUT_PENDING", target' = ClientSends[e].to, queued' = "",
         ids' = ids \cup ClientSends[e].id
  PROVE  HistoryInv'
<1> USE DEF HistoryInv, TypeOK
<1>1. CASE e = "send_initialize"
  <2>1. phase = "CHANNEL_AUTHENTICATED" /\ target' = "WAIT_INITIALIZE" /\ ids' = ids \cup {0}
    BY <1>1, ClientSendRows
  <2>2. TypeOK' /\ SlotsAgree' /\ SetupInTime' /\ ServerHistory' /\ target' \notin {"OUTPUT_PENDING", "CLOSED"}
    <3>1. TypeOK'
      BY <2>1, SetupIds DEF Phases
    <3> QED
      BY <3>1, <2>1 DEF SlotsAgree, SetupInTime, ServerHistory
  <2>3. Stage = "CHANNEL_AUTHENTICATED" /\ Stage' = "WAIT_INITIALIZE"
    BY <2>1 DEF Stage
  <2>4. ClientHistory'
    BY <2>1, <2>3 DEF ClientHistory
  <2> QED
    BY <2>2, <2>4
<1>2. CASE e = "send_initialized"
  <2>1. phase = "INITIALIZE_ACCEPTED" /\ target' = "WAIT_INITIALIZED_ACK" /\ ids' = ids
    BY <1>2, ClientSendRows
  <2>2. TypeOK' /\ SlotsAgree' /\ SetupInTime' /\ ServerHistory' /\ target' \notin {"OUTPUT_PENDING", "CLOSED"}
    <3>1. TypeOK'
      BY <2>1, SetupIds DEF Phases
    <3> QED
      BY <3>1, <2>1 DEF SlotsAgree, SetupInTime, ServerHistory
  <2>3. Stage = "INITIALIZE_ACCEPTED" /\ Stage' = "WAIT_INITIALIZED_ACK"
    BY <2>1 DEF Stage
  <2>4. ClientHistory'
    BY <2>1, <2>3 DEF ClientHistory
  <2> QED
    BY <2>2, <2>4
<1>3. CASE e = "send_list"
  <2>1. phase = "NEGOTIATED" /\ target' = "WAIT_DISCOVERY" /\ ids' = ids \cup {1}
    BY <1>3, ClientSendRows
  <2>2. TypeOK' /\ SlotsAgree' /\ SetupInTime' /\ ServerHistory' /\ target' \notin {"OUTPUT_PENDING", "CLOSED"}
    <3>1. TypeOK'
      BY <2>1, SetupIds DEF Phases
    <3> QED
      BY <3>1, <2>1 DEF SlotsAgree, SetupInTime, ServerHistory
  <2>3. Stage = "NEGOTIATED" /\ Stage' = "WAIT_DISCOVERY"
    BY <2>1 DEF Stage
  <2>4. ClientHistory'
    BY <2>1, <2>3 DEF ClientHistory
  <2> QED
    BY <2>2, <2>4
<1> QED
  BY <1>1, <1>2, <1>3 DEF Sends

(***************************************************************************)
(* The history invariant is inductive: one step per event.                 *)
(***************************************************************************)
THEOREM HistoryHolds == Spec => []HistoryInv
<1>1. Init => HistoryInv
  <2> SUFFICES ASSUME Init PROVE HistoryInv
    OBVIOUS
  <2>1. TypeOK
    BY DEF Init, TypeOK, Phases
  <2>2. now < Deadline
    <3>1. Deadline \in Nat \ {0} /\ now = 0
      BY SetupAssumption DEF Init
    <3> QED
      BY <3>1
  <2>3. SlotsAgree /\ SetupInTime /\ target \notin {"OUTPUT_PENDING", "CLOSED"}
    BY <2>2 DEF Init, SlotsAgree, SetupInTime
  <2>4. Stage = phase
    BY DEF Init, Stage
  <2>5. ClientHistory /\ ServerHistory
    BY <2>4 DEF Init, ClientHistory, ServerHistory
  <2> QED
    BY <2>1, <2>3, <2>5 DEF HistoryInv
<1>2. HistoryInv /\ [Next]_vars => HistoryInv'
  <2> SUFFICES ASSUME HistoryInv, [Next]_vars PROVE HistoryInv'
    OBVIOUS
  <2>1. ASSUME CloseWith PROVE HistoryInv'
    BY <2>1, ShutKeeps DEF CloseWith, fixed, memory, HistoryInv, TypeOK
  <2>2. CASE Close
    BY <2>1, <2>2 DEF Close
  <2>3. ASSUME NEW t \in Ticks, Tick(t) PROVE HistoryInv'
    <3>1. UNCHANGED <<role, limit, proofs, ids, admitted, replay>>
      BY <2>3 DEF Tick, fixed, memory
    <3>2. t \in Nat /\ now' \in Nat
      BY <2>3, Numbers, SetupAssumption DEF Tick
    <3>3. CASE Shut
      BY <3>1, <3>2, <3>3, ShutKeeps DEF HistoryInv, TypeOK
    <3>4. CASE UNCHANGED <<phase, slots>> /\ now' = t /\ ~(phase # "READY" /\ t >= Deadline)
      <4>1. phase # "READY" => now' < Deadline
        BY <3>2, <3>4, Numbers
      <4>2. TypeOK' /\ SlotsAgree' /\ SetupInTime' /\ target' \notin {"OUTPUT_PENDING", "CLOSED"}
        BY <3>1, <3>2, <3>4, <4>1 DEF slots, HistoryInv, TypeOK, SlotsAgree, SetupInTime
      <4>3. ClientHistory' /\ ServerHistory'
        BY <3>1, <3>4 DEF slots, HistoryInv, ClientHistory, ServerHistory, Stage
      <4> QED
        BY <4>2, <4>3 DEF HistoryInv
    <3> QED
      BY <2>3, <3>3, <3>4 DEF Tick
  <2>4. ASSUME phase # "CLOSED", ~(phase # "READY" /\ now >= Deadline)
        PROVE  phase # "READY" => now < Deadline
    BY <2>4, Numbers
  <2>5. CASE SendOk
    <3>1. CASE CloseWith
      BY <2>1, <3>1
    <3>2. CASE ~CloseWith
      <4>1. /\ phase = "OUTPUT_PENDING" /\ now < Deadline
            /\ phase' = target /\ target' = ""
            /\ proofs' = IF target = "READY" THEN proofs \cup {"discovery"} ELSE proofs
            /\ UNCHANGED <<role, limit, queued, now, ids, replay, admitted>>
        BY <2>4, <2>5, <3>2 DEF SendOk, WhileOpen, fixed
      <4>2. Stage' = Stage /\ Stage = target
        BY <4>1 DEF HistoryInv, Stage
      <4>3. TypeOK' /\ target' \notin {"OUTPUT_PENDING", "CLOSED"}
        BY <4>1 DEF HistoryInv, TypeOK, SlotsAgree, Proofs
      <4>4. Stage # "CLOSED"
        BY <4>2 DEF HistoryInv
      <4>5. SlotsAgree'
        <5>1. phase' # "OUTPUT_PENDING" /\ phase' # "CLOSED"
          BY <4>1, <4>2, <4>4 DEF HistoryInv
        <5> QED
          BY <4>1, <5>1 DEF SlotsAgree
      <4>6. SetupInTime'
        BY <4>1 DEF SetupInTime
      <4>7. ClientHistory' /\ ServerHistory'
        BY <4>1, <4>2 DEF HistoryInv, ClientHistory, ServerHistory
      <4> QED
        BY <4>3, <4>5, <4>6, <4>7 DEF HistoryInv
    <3> QED
      BY <3>1, <3>2
  <2>6. ASSUME NEW e \in Receives, Defer(e) PROVE HistoryInv'
    BY <2>1, <2>6 DEF Defer, WhileOpen, fixed, memory, HistoryInv, TypeOK, SlotsAgree,
       SetupInTime, ClientHistory, ServerHistory, Stage
  <2>7. ASSUME NEW e \in Receives, Receive(e) PROVE HistoryInv'
    BY <2>1, <2>4, <2>7, HandleKeeps DEF Receive, WhileOpen
  <2>8. CASE Drain
    <3>1. queued # "" => queued \in Receives
      BY DEF HistoryInv, TypeOK
    <3> QED
      BY <2>1, <2>4, <2>8, <3>1, HandleKeeps DEF Drain, WhileOpen
  <2>9. ASSUME NEW e \in Sends, Send(e) PROVE HistoryInv'
    <3>1. CASE CloseWith
      BY <2>1, <3>1
    <3>2. CASE ~CloseWith
      <4>1. /\ phase \notin {"CLOSED", "OUTPUT_PENDING"} /\ role = "client"
            /\ ClientSends[e].from = phase /\ replay' = replay
            /\ phase # "READY" => now < Deadline
            /\ Advance("OUTPUT_PENDING", ClientSends[e].to, ClientSends[e].id, {})
        BY <2>4, <2>9, <3>2 DEF Send, WhileOpen
      <4>2. CASE Shut /\ UNCHANGED <<role, limit, now, proofs, ids, admitted>>
        BY <4>1, <4>2, ShutKeeps DEF HistoryInv, TypeOK
      <4>3. CASE /\ phase' = "OUTPUT_PENDING" /\ target' = ClientSends[e].to /\ queued' = ""
                 /\ ids' = ids \cup ClientSends[e].id /\ proofs' = proofs \cup {}
                 /\ UNCHANGED <<role, limit, now, admitted>>
        <5>1. proofs' = proofs
          BY <4>3
        <5> QED
          BY <4>1, <4>3, <5>1, ClientSendKeeps
      <4> QED
        BY <4>1, <4>2, <4>3, AdvanceCases
    <3> QED
      BY <3>1, <3>2
  <2>10. ASSUME NEW i \in CallIds, Call(i) PROVE HistoryInv'
    BY <2>1, <2>10 DEF Call, WhileOpen, fixed, slots, HistoryInv, TypeOK, SlotsAgree,
       SetupInTime, ClientHistory, ServerHistory, Stage
  <2>11. CASE UNCHANGED vars
    BY <2>11 DEF vars, fixed, slots, memory, HistoryInv, TypeOK, SlotsAgree, SetupInTime,
       ClientHistory, ServerHistory, Stage
  <2> QED
    BY <2>2, <2>3, <2>5, <2>6, <2>7, <2>8, <2>9, <2>10, <2>11 DEF Next
<1> QED
  BY <1>1, <1>2, PTL DEF Spec

(***************************************************************************)
(* READY is published only on the complete history of setup.               *)
(***************************************************************************)
THEOREM ReadinessIsEarned == Spec => []ReadyIsEarned
<1>1. HistoryInv => ReadyIsEarned
  <2> SUFFICES ASSUME HistoryInv, phase = "READY" PROVE ReadyIsEarned
    BY DEF ReadyIsEarned
  <2>1. Stage = "READY" /\ role \in {"client", "server"} /\ proofs \subseteq Proofs
    BY DEF HistoryInv, TypeOK, Stage
  <2>2. CASE role = "client"
    <3>1. /\ 0 \in ids /\ 1 \in ids
          /\ "initialize" \in proofs /\ "initialized" \in proofs /\ "discovery" \in proofs
          /\ "initialize_result" \in replay /\ "ack" \in replay /\ "listing" \in replay
      BY <2>1, <2>2 DEF HistoryInv, ClientHistory
    <3>2. proofs = Proofs
      BY <2>1, <3>1 DEF Proofs
    <3> QED
      BY <2>2, <3>1, <3>2, ClientReceiveRows DEF ReadyIsEarned
  <2>3. CASE role = "server"
    <3>1. /\ 0 \in ids /\ 1 \in ids
          /\ "initialize" \in proofs /\ "initialized" \in proofs /\ "discovery" \in proofs
          /\ "initialize" \in replay /\ "initialized" \in replay /\ "list" \in replay
      BY <2>1, <2>3 DEF HistoryInv, ServerHistory
    <3>2. proofs = Proofs
      BY <2>1, <3>1 DEF Proofs
    <3> QED
      BY <2>3, <3>1, <3>2, ServerReceiveRows DEF ReadyIsEarned
  <2> QED
    BY <2>1, <2>2, <2>3
<1> QED
  BY <1>1, HistoryHolds, PTL

(***************************************************************************)
(* Setup is over, or the owner closed, before the deadline passes, and the *)
(* two slots agree with the phase.                                         *)
(***************************************************************************)
THEOREM SetupIsInTime == Spec => []SetupInTime
<1>1. HistoryInv => SetupInTime
  BY DEF HistoryInv
<1> QED
  BY <1>1, HistoryHolds, PTL

\* The pending slot, the queued frame and the seat ledger agree with the
\* phase in every reachable state.
THEOREM SlotsDoAgree == Spec => []SlotsAgree
<1>1. HistoryInv => SlotsAgree
  BY DEF HistoryInv
<1> QED
  BY <1>1, HistoryHolds, PTL

(***************************************************************************)
(* The history of request ids grows by one fresh id at a time, and only    *)
(* while it has room.                                                      *)
(***************************************************************************)
IdsGrow ==
  /\ limit' = limit
  /\ \/ ids' = ids
     \/ \E i \in CallIds : i \notin ids /\ Cardinality(ids) < limit /\ ids' = ids \cup {i}

\* A transition of a table reserves at most one new call id, under the limit.
LEMMA AdvanceGrows ==
  ASSUME NEW to, NEW pending, NEW new \in {{}, {0}, {1}}, NEW proof,
         Advance(to, pending, new, proof)
  PROVE  IdsGrow
<1>1. CASE new = {}
  BY <1>1 DEF Advance, fixed, IdsGrow
<1>2. ASSUME NEW i \in {0, 1}, new = {i} PROVE IdsGrow
  <2>1. CASE ~Reservable({i})
    BY <1>2, <2>1 DEF Advance, fixed, IdsGrow
  <2>2. CASE Reservable({i})
    <3>1. i \notin ids /\ Cardinality(ids) < limit
      BY <2>2 DEF Reservable
    <3>2. i \in CallIds
      BY DEF CallIds
    <3> QED
      BY <1>2, <2>2, <3>1, <3>2 DEF Advance, fixed, IdsGrow
  <2> QED
    BY <2>1, <2>2
<1> QED
  BY <1>1, <1>2

\* Handling a received event reserves at most one new call id.
LEMMA HandleGrows ==
  ASSUME NEW e, Handle(e) PROVE IdsGrow
<1>1. CASE ~Accept(e)
  BY <1>1 DEF Handle, CloseWith, fixed, memory, IdsGrow
<1>2. CASE Accept(e) /\ Expected(e)
  <2>1. CASE role = "client"
    BY <1>2, <2>1, AdvanceGrows DEF Accept
  <2>2. CASE role # "client"
    <3>1. e \in DOMAIN ServerReceives
      BY <1>2, <2>2 DEF Expected
    <3>2. ServerReceives[e].id \in {{}, {0}, {1}}
      BY <3>1, ServerReceiveRows
    <3> QED
      BY <1>2, <2>2, <3>2, AdvanceGrows DEF Accept
  <2> QED
    BY <2>1, <2>2
<1> QED
  BY <1>1, <1>2 DEF Handle, CloseWith, fixed, memory, IdsGrow

\* So does every step of the owner: call ids are never given back.
LEMMA StepGrows ==
  ASSUME [Next]_vars PROVE IdsGrow
<1> USE DEF fixed, memory
<1>1. CASE Close \/ UNCHANGED vars
  BY <1>1 DEF Close, CloseWith, vars, IdsGrow
<1>2. ASSUME NEW t \in Ticks, Tick(t) PROVE IdsGrow
  BY <1>2 DEF Tick, IdsGrow
<1>3. CASE SendOk
  BY <1>3 DEF SendOk, WhileOpen, CloseWith, IdsGrow
<1>4. ASSUME NEW e \in Receives, Defer(e) PROVE IdsGrow
  BY <1>4 DEF Defer, WhileOpen, CloseWith, IdsGrow
<1>5. ASSUME NEW e \in Receives, Receive(e) PROVE IdsGrow
  BY <1>5, HandleGrows DEF Receive, WhileOpen, CloseWith, IdsGrow
<1>6. CASE Drain
  BY <1>6, HandleGrows DEF Drain, WhileOpen, CloseWith, IdsGrow
<1>7. ASSUME NEW e \in Sends, Send(e) PROVE IdsGrow
  <2>1. ClientSends[e].id \in {{}, {0}, {1}}
    BY ClientSendRows DEF Sends
  <2> QED
    BY <1>7, <2>1, AdvanceGrows DEF Send, WhileOpen, CloseWith, IdsGrow
<1>8. ASSUME NEW i \in CallIds, Call(i) PROVE IdsGrow
  <2>1. Reservable({i}) => i \notin ids /\ Cardinality(ids) < limit
    BY DEF Reservable
  <2> QED
    BY <1>8, <2>1 DEF Call, WhileOpen, CloseWith, IdsGrow
<1> QED
  BY <1>1, <1>2, <1>3, <1>4, <1>5, <1>6, <1>7, <1>8 DEF Next

(***************************************************************************)
(* What a step may do to `admitted' and to the deferred frame.             *)
(***************************************************************************)
Admits(i) ==
  /\ phase = "READY" /\ queued = "" /\ proofs = Proofs
  /\ i \notin ids /\ Cardinality(ids) < limit /\ ids' = ids \cup {i}

AdmissionStep == admitted' = admitted \/ \E i \in CallIds : Admits(i)

\* A received event, whatever it proves, admits no call.
LEMMA HandleAdmits ==
  ASSUME NEW e, Handle(e) PROVE admitted' = admitted
<1>1. ASSUME NEW to, NEW pending, NEW new, NEW proof, Advance(to, pending, new, proof)
      PROVE  admitted' = admitted
  BY <1>1, AdvanceCases
<1> QED
  BY <1>1 DEF Handle, Accept, CloseWith, memory

\* A step admits a call only by reserving a fresh id for it under the limit.
LEMMA StepAdmits ==
  ASSUME [Next]_vars PROVE AdmissionStep
<1> USE DEF memory
<1>1. CASE Close \/ UNCHANGED vars
  BY <1>1 DEF Close, CloseWith, vars, AdmissionStep
<1>2. ASSUME NEW t \in Ticks, Tick(t) PROVE AdmissionStep
  BY <1>2 DEF Tick, AdmissionStep
<1>3. CASE SendOk
  BY <1>3 DEF SendOk, WhileOpen, CloseWith, AdmissionStep
<1>4. ASSUME NEW e \in Receives, Defer(e) PROVE AdmissionStep
  BY <1>4 DEF Defer, WhileOpen, CloseWith, AdmissionStep
<1>5. ASSUME NEW e \in Receives, Receive(e) PROVE AdmissionStep
  BY <1>5, HandleAdmits DEF Receive, WhileOpen, CloseWith, AdmissionStep
<1>6. CASE Drain
  BY <1>6, HandleAdmits DEF Drain, WhileOpen, CloseWith, AdmissionStep
<1>7. ASSUME NEW e \in Sends, Send(e) PROVE AdmissionStep
  BY <1>7, AdvanceCases DEF Send, WhileOpen, CloseWith, AdmissionStep
<1>8. ASSUME NEW i \in CallIds, Call(i) PROVE AdmissionStep
  <2>1. Reservable({i}) => i \notin ids /\ Cardinality(ids) < limit
    BY DEF Reservable
  <2> QED
    BY <1>8, <2>1 DEF Call, WhileOpen, CloseWith, AdmissionStep, Admits
<1> QED
  BY <1>1, <1>2, <1>3, <1>4, <1>5, <1>6, <1>7, <1>8 DEF Next

(***************************************************************************)
(* A call is admitted only by a READY owner with all its evidence and no   *)
(* frame left over from setup, and it uses up an id.                       *)
(***************************************************************************)
THEOREM AdmissionFollowsSetup == Spec => AdmissionAfterSetup
<1>1. [Next]_vars =>
        (admitted' /\ ~admitted => phase = "READY" /\ proofs = Proofs /\ queued = "" /\ ids # ids')
  BY StepAdmits DEF AdmissionStep, Admits
<1> QED
  BY <1>1, PTL DEF Spec, AdmissionAfterSetup

(***************************************************************************)
(* The history of ids stays within its capacity, and a call is admitted    *)
(* only where it has room beyond the two ids of setup: those two are used  *)
(* up when the owner is READY, so the id of the call is a third one.       *)
(***************************************************************************)
LEMMA CallIdsFinite == \A S : S \subseteq CallIds => IsFiniteSet(S) /\ Cardinality(S) \in Nat
<1>1. IsFiniteSet(CallIds)
  <2>1. IsFiniteSet({0})
    BY FS_Singleton
  <2>2. IsFiniteSet({0} \cup {1})
    BY <2>1, FS_AddElement
  <2>3. IsFiniteSet(({0} \cup {1}) \cup {2})
    BY <2>2, FS_AddElement
  <2>4. CallIds = ({0} \cup {1}) \cup {2}
    BY DEF CallIds
  <2> QED
    BY <2>3, <2>4
<1>2. ASSUME NEW S, S \subseteq CallIds PROVE IsFiniteSet(S) /\ Cardinality(S) \in Nat
  <2>1. IsFiniteSet(S)
    BY <1>1, <1>2, FS_Subset
  <2> QED
    BY <2>1, FS_CardinalityType
<1> QED
  BY <1>2

\* The reserved call ids never exceed the limit (mcp_setup_model.py 26-31).
THEOREM CapacityIsKept == Spec => []CapacityHolds
<1>1. Init => CapacityHolds
  <2> SUFFICES ASSUME Init PROVE CapacityHolds
    OBVIOUS
  <2>1. Cardinality(ids) = 0
    BY FS_EmptySet DEF Init
  <2>2. limit \in Nat /\ admitted = FALSE
    BY SetupAssumption DEF Init
  <2>3. Cardinality(ids) <= limit
    BY <2>1, <2>2
  <2> QED
    BY <2>2, <2>3 DEF CapacityHolds
<1>2. HistoryInv /\ ReadyIsEarned /\ CapacityHolds /\ [Next]_vars => CapacityHolds'
  <2> SUFFICES ASSUME HistoryInv, ReadyIsEarned, CapacityHolds, [Next]_vars
               PROVE  CapacityHolds'
    OBVIOUS
  <2>1. ids \subseteq CallIds /\ limit \in Nat /\ limit' = limit
    BY SetupAssumption, StepGrows DEF HistoryInv, TypeOK, IdsGrow
  <2>2. IsFiniteSet(ids) /\ Cardinality(ids) \in Nat
    BY <2>1, CallIdsFinite
  <2>3. Cardinality(ids') <= limit'
    <3>1. CASE ids' = ids
      BY <2>1, <3>1 DEF CapacityHolds
    <3>2. ASSUME NEW i \in CallIds, i \notin ids, Cardinality(ids) < limit, ids' = ids \cup {i}
          PROVE  Cardinality(ids') <= limit'
      <4>1. Cardinality(ids') = Cardinality(ids) + 1
        BY <2>2, <3>2, FS_AddElement
      <4> QED
        BY <2>1, <2>2, <3>2, <4>1
    <3> QED
      BY <3>1, <3>2, StepGrows DEF IdsGrow
  <2>4. admitted' => ids' \ {0, 1} # {} /\ limit' > 2
    <3>1. CASE admitted
      <4>1. ids \ {0, 1} # {} /\ limit > 2
        BY <3>1 DEF CapacityHolds
      <4>2. ids \subseteq ids'
        BY StepGrows DEF IdsGrow
      <4> QED
        BY <2>1, <4>1, <4>2
    <3>2. ASSUME ~admitted, admitted' PROVE ids' \ {0, 1} # {} /\ limit' > 2
      <4>1. PICK i \in CallIds : Admits(i)
        BY <3>2, StepAdmits DEF AdmissionStep
      <4>2. {0, 1} \subseteq ids
        BY <4>1 DEF Admits, ReadyIsEarned
      <4>3. i \in ids' /\ i \notin {0, 1}
        BY <4>1, <4>2 DEF Admits
      <4>4. Cardinality({0, 1}) <= Cardinality(ids)
        BY <2>2, <4>2, FS_Subset
      <4>5. Cardinality({0, 1}) = 2
        <5>1. IsFiniteSet({0}) /\ Cardinality({0}) = 1
          BY FS_Singleton
        <5>2. Cardinality({0} \cup {1}) = IF 1 \in {0} THEN 1 ELSE 1 + 1
          BY <5>1, FS_AddElement
        <5>3. {0, 1} = {0} \cup {1}
          OBVIOUS
        <5> QED
          BY <5>2, <5>3
      <4>6. limit' > 2
        <5>1. Cardinality(ids) < limit
          BY <4>1 DEF Admits
        <5> QED
          BY <2>1, <2>2, <4>4, <4>5, <5>1
      <4> QED
        BY <4>3, <4>6
    <3> QED
      BY <3>1, <3>2
  <2> QED
    BY <2>3, <2>4 DEF CapacityHolds
<1> QED
  BY <1>1, <1>2, HistoryHolds, ReadinessIsEarned, PTL DEF Spec

(***************************************************************************)
(* A deferred frame leaves its slot only into the history or with the      *)
(* owner.                                                                  *)
(***************************************************************************)
FrameStep ==
  queued # "" /\ queued' # queued =>
    queued' = "" /\ (phase' = "CLOSED" \/ queued \in replay' \ replay)

\* Handling an event empties the queue, and either closes the owner or
\* remembers that very event as seen.
LEMMA HandleMarks ==
  ASSUME NEW e, Handle(e)
  PROVE  queued' = "" /\ (phase' = "CLOSED" \/ e \in replay' \ replay)
<1>1. ASSUME NEW to, NEW pending, NEW new, NEW proof, Advance(to, pending, new, proof)
      PROVE  queued' = ""
  BY <1>1 DEF Advance, Shut
<1> QED
  BY <1>1 DEF Handle, Accept, CloseWith, Shut

\* A deferred frame leaves the queue only by being handled or by the owner
\* closing (mcp_setup_model.py 44-49).
THEOREM DeferredFramesAreKept == Spec => DeferredFrameIsKept
<1>1. [Next]_vars => FrameStep
  <2> SUFFICES ASSUME [Next]_vars PROVE FrameStep
    OBVIOUS
  <2>1. ASSUME CloseWith PROVE FrameStep
    BY <2>1 DEF CloseWith, Shut, FrameStep
  <2>2. CASE Close \/ UNCHANGED vars
    BY <2>1, <2>2 DEF Close, vars, slots, FrameStep
  <2>3. ASSUME NEW t \in Ticks, Tick(t) PROVE FrameStep
    BY <2>3 DEF Tick, Shut, slots, FrameStep
  <2>4. CASE SendOk
    BY <2>1, <2>4 DEF SendOk, WhileOpen, FrameStep
  <2>5. ASSUME NEW e \in Receives, Defer(e) PROVE FrameStep
    BY <2>1, <2>5 DEF Defer, WhileOpen, FrameStep
  <2>6. ASSUME NEW e \in Receives, Receive(e) PROVE FrameStep
    BY <2>1, <2>6 DEF Receive, WhileOpen, FrameStep
  <2>7. CASE Drain
    BY <2>1, <2>7, HandleMarks DEF Drain, WhileOpen, FrameStep
  <2>8. ASSUME NEW e \in Sends, Send(e) PROVE FrameStep
    BY <2>1, <2>8 DEF Send, WhileOpen, FrameStep
  <2>9. ASSUME NEW i \in CallIds, Call(i) PROVE FrameStep
    BY <2>1, <2>9 DEF Call, WhileOpen, slots, FrameStep
  <2> QED
    BY <2>2, <2>3, <2>4, <2>5, <2>6, <2>7, <2>8, <2>9 DEF Next
<1> QED
  BY <1>1, PTL DEF Spec, DeferredFrameIsKept, FrameStep

(***************************************************************************)
(* Type correctness in both roles, for all capacities and clocks.          *)
(***************************************************************************)
THEOREM TypeCorrect == Spec => []TypeOK
<1>1. HistoryInv => TypeOK
  BY DEF HistoryInv
<1> QED
  BY HistoryHolds, <1>1, PTL

=============================================================================
