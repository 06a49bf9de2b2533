---------------------------- MODULE DaemonProofs ----------------------------
(***************************************************************************)
(* Proofs about Daemon, for any set of suites and any bounds.  In the      *)
(* default mode the daemon is Upcall, so what is proved of Upcall holds of *)
(* it.  In the other modes the two tasks of a connection are Bridge's, and *)
(* what is left to prove is the hand-over of the socket.                   *)
(***************************************************************************)
EXTENDS Daemon, UpcallProofs, BridgeProofs

\* The daemon behaves as Upcall says: outside its default mode it takes no step
\* of Upcall's, and in it no other.
THEOREM DaemonIsUpcall == DaemonSpec => UpcallSpec
<1>1. DaemonInit => UpcallInit
  BY DEF DaemonInit
<1>2. [DaemonNext]_daemonVars => [UpcallNext]_upcallVars
  BY DEF DaemonNext, OnSockets, OnUpcalls, daemonVars
<1> QED
  BY <1>1, <1>2, PTL DEF DaemonSpec, UpcallSpec

\* What is proved of Upcall, for the daemon in whatever mode it runs.
THEOREM DaemonUpcalls == DaemonSpec => [](LossShows /\ OwnSocketOnly /\ OkMeansEnforced)
BY DaemonIsUpcall, LossCorrect, OwnSocketCorrect, OkCorrect, PTL

-----------------------------------------------------------------------------
(* The hand-over.  The task owns its descriptor from the message on, and   *)
(* what ends the task closes it; a truncated message is the one way out.   *)

Handover ==
    /\ mode \in Mode /\ handed \in {"waiting", "owned", "aborted"}
    /\ passed \in 0..MaxPassed /\ open \in 0..Room
    /\ handed = "waiting" => pc["responder"] = "start" /\ passed = 0
    /\ handed = "aborted" => pc["responder"] = "failed"
    /\ handed # "waiting" /\ ~Truncated => (open = 1 <=> pc["responder"] # "failed")
    /\ \A e \in End : pc[e] = "failed" => fd[e] # "open" \/ Truncated

DaemonInv == BridgeInv /\ Handover

\* Nothing has happened at first.
LEMMA InitDaemon == DaemonInit => DaemonInv /\ RecordInv
<1> SUFFICES ASSUME DaemonInit PROVE DaemonInv /\ RecordInv
  OBVIOUS
<1>1. Init /\ BridgeInv /\ RecordInv
  BY InitBridge DEF DaemonInit
<1>2. pc = [e \in End |-> "start"]
  BY <1>1 DEF Init
<1>3. Handover
  BY <1>2, DaemonAssumption DEF DaemonInit, Handover, Mode, Truncated, Room, End
<1> QED
  BY <1>1, <1>3 DEF DaemonInv

\* The daemon receives the injector's message.
LEMMA ReceiveKeeps ==
    ASSUME DaemonInv, NEW n \in 0..MaxPassed, handle_passed_fd(n), UNCHANGED mode
    PROVE  DaemonInv'
<1>0. /\ BridgeInv /\ Types /\ SetUp /\ NetType /\ Handover /\ "responder" \in End
  BY DEF DaemonInv, BridgeInv, Types, End
<1>1. /\ handed = "waiting" /\ pc["responder"] = "start" /\ passed = 0
      /\ handed' = (IF recv_fd(n).fd THEN "owned" ELSE "aborted")
      /\ passed' = n /\ open' = recv_fd(n).open
      /\ UNCHANGED <<suite, trusted, keys, ulp, tx, rx, net, sent, delivered, faults, damaged>>
  BY <1>0 DEF handle_passed_fd, Handover
<1>2. \/ n = 1 /\ recv_fd(n).fd /\ recv_fd(n).open = 1
      \/ n > Room /\ ~recv_fd(n).fd /\ recv_fd(n).open = Room
      \/ n # 1 /\ n <= Room /\ ~recv_fd(n).fd /\ recv_fd(n).open = 0
  <2>1. CASE n = 1
    BY <2>1 DEF recv_fd, Room
  <2>2. CASE n > Room
    BY <2>2 DEF recv_fd, Room
  <2>3. CASE n # 1 /\ n <= Room
    BY <2>3 DEF recv_fd, Room
  <2> QED
    BY <2>1, <2>2, <2>3, DaemonAssumption DEF Room
<1>3. \A e \in End : pc[e] = "failed" => fd[e] # "open"
  BY <1>0, <1>1 DEF Handover, Truncated, Room
<1>4. CASE n = 1
  <2>0. recv_fd(n).fd /\ recv_fd(n).open = 1
    BY <1>2, <1>4 DEF Room
  <2>1. UNCHANGED <<pc, fd, eof>> /\ handed' = "owned" /\ open' = 1 /\ passed' = 1
    BY <1>1, <1>4, <2>0, Zenon DEF handle_passed_fd
  <2>2. BridgeInv'
    BY <1>0, <1>1, <2>1 DEF BridgeInv, Types, SetUp, NetType, ResponderFirst, Agree, Honest, Staged
  <2>3. Handover'
    BY <1>0, <1>1, <1>3, <1>4, <2>1 DEF Handover, Truncated, Room
  <2> QED
    BY <2>2, <2>3 DEF DaemonInv
<1>5. CASE n # 1 /\ n <= Room
  <2>1. Dropped("responder") /\ handed' = "aborted" /\ open' = 0 /\ ~Truncated'
    BY <1>1, <1>2, <1>5 DEF handle_passed_fd, Room, Truncated
  <2>2. Others("responder") /\ Fails("responder")
    BY <1>0, <1>1, <2>1, DroppedFails
  <2>3. Types'
    BY <1>0, <1>1, <2>1, DroppedType DEF Types, SetUp, NetType
  <2>4. BridgeInv'
    BY <1>0, <1>1, <2>1, <2>2, <2>3, FailAgree DEF Dropped, Others
  <2>5. Handover'
    BY <1>0, <1>1, <1>3, <2>1, <2>2 DEF Handover, Others, Fails, Room
  <2> QED
    BY <2>4, <2>5 DEF DaemonInv
<1>6. CASE n > Room
  <2>1. /\ pc' = [pc EXCEPT !["responder"] = "failed"] /\ UNCHANGED <<fd, eof>>
        /\ handed' = "aborted" /\ open' = Room /\ Truncated'
    BY <1>1, <1>2, <1>6 DEF handle_passed_fd, Room, Truncated
  <2>2. pc' \in [End -> Pc] /\ pc'["responder"] = "failed"
    BY <1>0, <2>1 DEF SetUp, Pc
  <2>3. Types'
    BY <1>0, <1>1, <2>1, <2>2 DEF Types, SetUp, NetType
  <2>4. BridgeInv'
    BY <1>0, <1>1, <2>1, <2>3, FailAgree
  <2>5. Handover'
    BY <1>0, <1>1, <2>1, <2>2 DEF Handover, Room
  <2> QED
    BY <2>4, <2>5 DEF DaemonInv
<1> QED
  BY <1>2, <1>4, <1>5, <1>6


\* Receiving it puts nothing on the wire and takes nothing from it.
LEMMA ReceiveTally ==
    ASSUME DaemonInv, RecordInv, NEW n \in 0..MaxPassed, handle_passed_fd(n)
    PROVE  RecordInv'
<1>0. BridgeInv /\ SetUp
  BY DEF DaemonInv, BridgeInv, Types
<1>1. /\ UNCHANGED <<suite, trusted, keys, ulp, tx, rx, net, sent, delivered, faults>>
      /\ "responder" \in End /\ pc["responder"] = "start"
  BY DEF handle_passed_fd, DaemonInv, Handover, End
<1> SUFFICES ASSUME faults = 0 PROVE \A d \in End : Tally(d)'
  BY <1>1 DEF RecordInv
<1>2. \A d \in End : Tally(d)
  BY DEF RecordInv
<1>3. CASE UNCHANGED <<pc, fd, eof>>
  BY <1>1, <1>2, <1>3, SameTally
<1>4. CASE Dropped("responder")
  <2>1. Others("responder") /\ Fails("responder")
    BY <1>0, <1>1, <1>4, DroppedFails
  <2> QED
    BY <1>0, <1>1, <1>2, <2>1, FailTally DEF Others, Fails
<1>5. CASE pc' = [pc EXCEPT !["responder"] = "failed"] /\ UNCHANGED <<fd, eof>>
  <2>1. pc'["responder"] = "failed" /\ \A d \in End : d # "responder" => pc'[d] = pc[d]
    BY <1>0, <1>1, <1>5 DEF SetUp
  <2> QED
    BY <1>0, <1>1, <1>2, <1>5, <2>1, FailTally
<1> QED
  BY <1>3, <1>4, <1>5, Zenon DEF handle_passed_fd

\* A task that ends closes what it was passed.
LEMMA ServeKeeps ==
    ASSUME DaemonInv, NEW e \in End, Serve(e), UNCHANGED mode
    PROVE  DaemonInv'
<1>0. /\ BridgeInv /\ SetUp /\ Handover /\ Staged(e) /\ "responder" \in End
  BY DEF DaemonInv, BridgeInv, Types, End
<1>1. BridgeInv'
  BY <1>0, TaskAgree DEF Serve
<1>2. Others(e) /\ (Moves(e) \/ Writes(e) \/ Reads(e) \/ Agrees(e) \/ Fails(e))
  BY <1>0, TaskEffect DEF Serve
<1>3. \/ pc'[e] = "failed" /\ fd'[e] # "open"
      \/ pc'[e] # "failed" /\ fd'[e] = fd[e]
  BY <1>2 DEF Moves, Writes, Reads, Agrees, Fails, SameSock
<1>4. pc[e] \notin {"done", "failed"}
  BY <1>2 DEF Moves, Writes, Reads, Agrees, Fails
<1>5. \A d \in End : d # e => pc'[d] = pc[d] /\ fd'[d] = fd[d]
  BY <1>2 DEF Others
<1>6. /\ UNCHANGED <<handed, passed, mode>> /\ Truncated' = Truncated
      /\ e = "responder" => handed = "owned"
  BY DEF Serve, Truncated
<1>7. \A d \in End : pc'[d] = "failed" => fd'[d] # "open" \/ Truncated'
  BY <1>0, <1>3, <1>5, <1>6 DEF Handover
<1>8. CASE e = "responder"
  <2>1. open' = (IF fd'[e] # "open" THEN 0 ELSE open)
    BY <1>8 DEF Serve
  <2>2. fd[e] = "open"
    BY <1>0, <1>4 DEF Staged
  <2>3. ~Truncated => (open' = 1 <=> pc'["responder"] # "failed")
    BY <1>0, <1>3, <1>4, <1>6, <1>8, <2>1, <2>2 DEF Handover
  <2>4. Handover'
    BY <1>0, <1>6, <1>7, <1>8, <2>1, <2>3 DEF Handover, Room
  <2> QED
    BY <1>1, <2>4 DEF DaemonInv
<1>9. CASE e # "responder"
  <2>1. open' = open
    BY <1>9 DEF Serve
  <2>2. Handover'
    BY <1>0, <1>5, <1>6, <1>7, <1>9, <2>1 DEF Handover
  <2> QED
    BY <1>1, <2>2 DEF DaemonInv
<1> QED
  BY <1>8, <1>9

\* Every step of the daemon keeps the invariant.
LEMMA DaemonStep == DaemonInv /\ RecordInv /\ [DaemonNext]_daemonVars => DaemonInv' /\ RecordInv'
<1> SUFFICES ASSUME DaemonInv, RecordInv, [DaemonNext]_daemonVars PROVE DaemonInv' /\ RecordInv'
  OBVIOUS
<1>0. BridgeInv /\ Handover
  BY DEF DaemonInv
<1>1. CASE OnSockets /\ Receive
  BY <1>1, ReceiveKeeps, ReceiveTally DEF OnSockets, Receive
<1>2. CASE OnSockets /\ Serving
  BY <1>0, <1>2, ServeKeeps, TaskTally DEF OnSockets, Serving, Serve
<1>3. CASE OnSockets /\ Around
  <2>1. Surroundings /\ UNCHANGED <<mode, handed, passed, open>>
    BY <1>3 DEF OnSockets, Around, Surroundings, handover
  <2>2. /\ BridgeInv' /\ RecordInv' /\ UNCHANGED pc
        /\ \A e \in End : pc[e] # "done" => fd'[e] = fd[e]
    BY <1>0, <2>1, AroundAgree, AroundTally
  <2>3. Handover'
    BY <1>0, <2>1, <2>2 DEF Handover, Truncated
  <2> QED
    BY <2>2, <2>3 DEF DaemonInv
<1>4. CASE UNCHANGED <<mode, handover, vars>>
  <2>1. BridgeInv' /\ RecordInv'
    BY <1>0, <1>4, SameBridge
  <2>2. Handover'
    BY <1>0, <1>4 DEF Handover, Truncated, vars, sock, wire, handover
  <2> QED
    BY <2>1, <2>2 DEF DaemonInv
<1> QED
  BY <1>1, <1>2, <1>3, <1>4 DEF DaemonNext, OnUpcalls, daemonVars

LEMMA DaemonAlways == DaemonSpec => [](DaemonInv /\ RecordInv)
BY InitDaemon, DaemonStep, PTL DEF DaemonSpec

\* The types of the whole daemon, whatever is passed, sent, damaged or refused.
THEOREM DaemonTypeCorrect == DaemonSpec => []DaemonTypeOK
<1>1. DaemonInv /\ UpcallTypeOK => DaemonTypeOK
  BY TypesAreTypeOK DEF DaemonInv, BridgeInv, Handover, DaemonTypeOK
<1> QED
  BY <1>1, DaemonAlways, DaemonIsUpcall, UpcallTypeCorrect, PTL

\* Two ends that are bridged to kernel TLS hold the same keys and trust each
\* other, for any suites, damage, cuts and failing setsockopts.
THEOREM AgreeCorrect == DaemonSpec => []BridgedAgree
<1>1. DaemonInv => BridgedAgree
  BY AgreeHolds DEF DaemonInv
<1> QED
  BY <1>1, DaemonAlways, PTL

\* No descriptor is left without an owner or half protected, unless a message
\* was truncated.
THEOREM AccountedCorrect == DaemonSpec => []SocketAccounted
<1>1. DaemonInv => SocketAccounted
  BY DEF DaemonInv, BridgeInv, Agree, Keyed, Staged, Handover, SocketAccounted, AllOrNothing
<1> QED
  BY <1>1, DaemonAlways, PTL

\* The handshake takes no byte of the records behind it, whatever the suites,
\* the number of records and the order of the two tasks.
THEOREM RecordsCorrect == DaemonSpec => []NoRecordLost
<1>1. DaemonInv /\ RecordInv => NoRecordLost
  BY RecordsHold DEF DaemonInv
<1> QED
  BY <1>1, DaemonAlways, PTL

=============================================================================
