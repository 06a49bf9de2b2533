--------------------------- MODULE SessionProofs ----------------------------
(***************************************************************************)
(* Proofs about Session, for all suites, keys, configurations and bounds:  *)
(* the types and buffer limits hold, and no nonce is used twice with one    *)
(* key.                                                                    *)
(***************************************************************************)
EXTENDS SessionLemmas

\* The leaves are logic and sets: Zenon proves them unless one names SMT.
USE ZenonT(20)

-----------------------------------------------------------------------------
(* The applications and the network.                                       *)

\* A call or a close of the application preserves the invariant.
LEMMA ApplicationInv ==
    ASSUME SessionInv, NEW e \in Endpoint, Application(e)
    PROVE  SessionInv'
<1>1. FdType /\ NetType /\ CallType /\ RestType /\ LogType /\ \A d \in Endpoint : EndpointInv(d)
  BY TypeParts DEF SessionInv
<1>2. ASSUME NEW n \in 0..MaxChunks, overlay_send(e, n) PROVE SessionInv'
  <2>1. /\ FdType' /\ NetType' /\ RestType' /\ LogType'
        /\ UNCHANGED <<phase, tx, tx_backlog, rx_plain, sealed>>
    BY <1>1, <1>2 DEF overlay_send, fdstate, wire, history, FdType, NetType, RestType, LogType
  <2>2. /\ CallType' /\ pc'[e] = "sflush"
        /\ \A d \in Endpoint : d # e => pc'[d] = pc[d] /\ todo'[d] = todo[d]
    BY <1>1, <1>2 DEF overlay_send, CallType, PcLabels
  <2>3. EndpointInv(e)'
    BY <1>1, <2>1, <2>2 DEF EndpointInv
  <2>4. ASSUME NEW d \in Endpoint, d # e PROVE EndpointInv(d)'
    BY <1>1, <2>1, <2>2, <2>4, UntouchedInv DEF Untouched
  <2> QED
    BY <2>1, <2>2, <2>3, <2>4, PartsInv
<1>3. CASE overlay_recv(e)
  <2>1. /\ FdType' /\ NetType' /\ RestType' /\ LogType'
        /\ UNCHANGED <<phase, tx, tx_backlog, rx_plain, sealed>>
    BY <1>1, <1>3 DEF overlay_recv, fdstate, wire, history, FdType, NetType, RestType, LogType
  <2>2. CallType' /\ \A d \in Endpoint : EndpointInv(d)'
    BY <1>3, <2>1, GotoInv DEF overlay_recv, PcLabels
  <2> QED
    BY <2>1, <2>2, PartsInv
<1>4. CASE close(e)
  <2>1. NetType' /\ RestType' /\ LogType'
    BY <1>1, <1>4, PeerType DEF close, history, NetType, RestType, LogType
  <2>2. Goto(e, "idle")
    BY <1>1, <1>4 DEF close, call, Goto, CallType
  <2>3. FdType' /\ CallType' /\ \A d \in Endpoint : EndpointInv(d)'
    BY <1>4, <2>2, FailGotoInv DEF close, history, PcLabels
  <2> QED
    BY <2>1, <2>3, PartsInv
<1> QED
  BY <1>2, <1>3, <1>4 DEF Application

\* Replacing a stretch of a stream keeps it a stream.
LEMMA SpliceType ==
    ASSUME NEW s \in Seq(Fragment), NEW mid \in Seq(Fragment),
           NEW i \in Nat \ {0}, NEW j \in Nat \ {0}, i <= j, j <= Len(s) + 1
    PROVE  /\ Splice(s, i, mid, j) \in Seq(Fragment)
           /\ Len(Splice(s, i, mid, j)) = Len(s) - (j - i) + Len(mid)
<1>1. Len(s) \in Nat /\ Len(mid) \in Nat /\ i - 1 \in Nat
  BY SMT
<1> DEFINE before == SubSeq(s, 1, i - 1)
           behind == SubSeq(s, j, Len(s))
<1>2. before \in Seq(Fragment) /\ Len(before) = i - 1
  <2>1. before \in Seq(Fragment) /\ Len(before) = (i - 1) - 1 + 1
    BY <1>1, Piece, SMT
  <2> HIDE DEF before
  <2> QED
    BY <2>1, SMT
<1>3. behind \in Seq(Fragment) /\ Len(behind) = Len(s) - j + 1
  BY <1>1, Piece, SMT
<1>4. Splice(s, i, mid, j) = before \o mid \o behind
  BY DEF Splice
<1> HIDE DEF before, behind
<1> DEFINE front == before \o mid
<1>5. front \in Seq(Fragment) /\ Len(front) = Len(before) + Len(mid)
  BY <1>2, ConcatProperties
<1> HIDE DEF front
<1>6. front \o behind \in Seq(Fragment) /\ Len(front \o behind) = Len(front) + Len(behind)
  BY <1>3, <1>5, ConcatProperties
<1>7. Splice(s, i, mid, j) = front \o behind
  BY <1>4 DEF front
<1>8. Len(front \o behind) = (i - 1) + Len(mid) + (Len(s) - j + 1)
  BY <1>2, <1>3, <1>5, <1>6
<1>9. (i - 1) + Len(mid) + (Len(s) - j + 1) = Len(s) - (j - i) + Len(mid)
  BY <1>1, SMTT(30)
<1> QED
  BY <1>6, <1>7, <1>8, <1>9

\* Damage turns a frame into a frame.
LEMMA DamagedType ==
    ASSUME NEW f \in Frame, NEW g \in Damaged(f)
    PROVE  g \in Frame
BY DEF Damaged, Frame, Body

\* What the network does to a stream respects its bound.
LEMMA RelayType ==
    ASSUME SessionInv, NEW e \in Endpoint, Relay(e)
    PROVE  NetType'
<1>1. NetType
  BY TypeParts DEF SessionInv
<1> DEFINE s == net[e]
<1>2. s \in Seq(Fragment) /\ Len(s) \in Nat /\ Len(s) <= SockCap /\ SockCap \in Nat
  BY <1>1, BoundsAssumption, SMT DEF NetType
<1>3. SUFFICES ASSUME NEW t \in Seq(Fragment), Len(t) <= SockCap, net' = [net EXCEPT ![e] = t]
               PROVE  NetType'
  <2>1. ASSUME NEW i \in FrameStarts(e)
        PROVE  /\ i \in Nat \ {0} /\ i + 2 \in Nat \ {0} /\ i <= i + 2 /\ i + 2 <= Len(s) + 1
               /\ s[i].frame \in Frame
               /\ Fragments(s[i].frame) \in Seq(Fragment) /\ Len(Fragments(s[i].frame)) = 2
    <3>1. i \in Nat \ {0} /\ i + 1 <= Len(s)
      BY <1>2, SMT DEF FrameStarts
    <3>2. s[i] \in Fragment
      BY <1>2, <3>1, ElementOfSeq, SMTT(30)
    <3>3. s[i].frame \in Frame
      BY <3>2 DEF Fragment
    <3> QED
      BY <1>2, <3>1, <3>3, FragmentsType, SMTT(30)
  <2>2. ASSUME NEW i \in FrameStarts(e), NEW mid \in Seq(Fragment), NEW j \in {i + 2, i + 4},
               j <= Len(s) + 1, Len(s) - (j - i) + Len(mid) <= SockCap,
               net' = [net EXCEPT ![e] = Splice(@, i, mid, j)]
        PROVE  NetType'
    <3>1. i \in Nat \ {0} /\ j \in Nat \ {0} /\ i <= j
      BY <2>1, SMT
    <3>2. Splice(s, i, mid, j) \in Seq(Fragment) /\ Len(Splice(s, i, mid, j)) <= SockCap
      BY <1>2, <2>2, <3>1, SpliceType
    <3>3. net' = [net EXCEPT ![e] = Splice(s, i, mid, j)]
      BY <2>2
    <3> QED
      BY <1>3, <3>2, <3>3
  <2>3. ASSUME NEW i \in FrameStarts(e), NEW g \in Damaged(net[e][i].frame),
               net' = [net EXCEPT ![e] = Splice(@, i, Fragments(g), i + 2)]
        PROVE  NetType'
    <3>1. g \in Frame
      BY <2>1, <2>3, DamagedType
    <3>2. Fragments(g) \in Seq(Fragment) /\ Len(Fragments(g)) = 2
      BY <3>1, FragmentsType
    <3>3. i \in Nat /\ i + 2 <= Len(s) + 1
      BY <2>1
    <3>4. Len(s) - ((i + 2) - i) + Len(Fragments(g)) <= SockCap
      BY <1>2, <3>2, <3>3, SMT
    <3> QED
      BY <2>2, <2>3, <3>2, <3>3, <3>4
  <2>4. ASSUME NEW i \in FrameStarts(e), net' = [net EXCEPT ![e] = Splice(@, i, <<>>, i + 2)]
        PROVE  NetType'
    <3>1. <<>> \in Seq(Fragment) /\ Len(<<>>) = 0 /\ i \in Nat /\ i + 2 <= Len(s) + 1
      BY <2>1, SMT
    <3>2. Len(s) - ((i + 2) - i) + 0 <= SockCap
      BY <1>2, <3>1, SMTT(30)
    <3> QED
      BY <2>2, <2>4, <3>1, <3>2
  <2>5. ASSUME NEW i \in FrameStarts(e), NEW k \in FrameStarts(e), NEW j \in {i + 2, i + 4},
               j <= Len(s) + 1, Len(s) - (j - i) + 4 <= SockCap,
               net' = [net EXCEPT ![e] =
                   Splice(@, i, Fragments(@[k].frame) \o Fragments(@[i].frame), j)]
        PROVE  NetType'
    <3> DEFINE mid == Fragments(s[k].frame) \o Fragments(s[i].frame)
    <3>1. mid \in Seq(Fragment) /\ Len(mid) = 4
      <4> DEFINE a == Fragments(s[k].frame)
                 b == Fragments(s[i].frame)
      <4>1. a \in Seq(Fragment) /\ Len(a) = 2 /\ b \in Seq(Fragment) /\ Len(b) = 2
        BY <2>1
      <4>2. mid = a \o b
        OBVIOUS
      <4> HIDE DEF a, b, mid
      <4>3. a \o b \in Seq(Fragment) /\ Len(a \o b) = Len(a) + Len(b)
        BY <4>1, ConcatProperties
      <4> QED
        BY <4>1, <4>2, <4>3, SMTT(30)
    <3>2. net' = [net EXCEPT ![e] = Splice(@, i, mid, j)]
      BY <2>5
    <3> HIDE DEF mid
    <3>3. Len(s) - (j - i) + Len(mid) <= SockCap
      BY <2>5, <3>1
    <3> QED
      BY <2>2, <2>5, <3>1, <3>2, <3>3
  <2>6. ASSUME NEW i \in FrameStarts(e), Len(net[e]) + 2 <= SockCap,
               net' = [net EXCEPT ![e] =
                   Splice(@, i, Fragments(@[i].frame) \o Fragments(@[i].frame), i + 2)]
        PROVE  NetType'
    <3>1. i + 2 <= Len(s) + 1 /\ Len(s) - ((i + 2) - i) + 4 <= SockCap
      BY <1>2, <2>1, <2>6, SMT
    <3> QED
      BY <2>5, <2>6, <3>1
  <2>7. ASSUME NEW i \in FrameStarts(e), i + 2 \in FrameStarts(e),
               net' = [net EXCEPT ![e] =
                   Splice(@, i, Fragments(@[i + 2].frame) \o Fragments(@[i].frame), i + 4)]
        PROVE  NetType'
    <3>1. i + 4 <= Len(s) + 1 /\ Len(s) - ((i + 4) - i) + 4 <= SockCap
      BY <1>2, <2>1, <2>7, SMTT(30)
    <3> QED
      BY <2>5, <2>7, <3>1
  <2> QED
    BY <2>3, <2>4, <2>6, <2>7 DEF Relay
<1> QED
  BY <1>1, <1>3 DEF NetType

\* The network preserves the invariant.
LEMMA NetworkInv ==
    ASSUME SessionInv, NEW e \in Endpoint, Relay(e) \/ Cut(e)
    PROVE  SessionInv'
<1>1. FdType /\ NetType /\ CallType /\ RestType /\ LogType /\ \A d \in Endpoint : EndpointInv(d)
  BY TypeParts DEF SessionInv
<1>2. UNCHANGED <<fdstate, call, history>>
  BY DEF Relay, Cut
<1>3. FdType' /\ CallType' /\ LogType'
  BY <1>1, <1>2 DEF fdstate, call, history, FdType, CallType, LogType
<1>4. \A d \in Endpoint : EndpointInv(d)'
  BY <1>1, <1>2, UntouchedInv DEF Untouched, fdstate, call, history
<1>5. faults < MaxFaults /\ faults' = faults + 1 /\ faults' \in 0..MaxFaults
  BY <1>1, BoundsAssumption, SMTT(30) DEF Relay, Cut, RestType
<1>6. RestType'
  BY <1>1, <1>5 DEF Relay, Cut, history, RestType
<1>7. NetType'
  <2>1. CASE Relay(e)
    BY <2>1, RelayType
  <2>2. CASE Cut(e)
    <3>1. PICK k \in 0..Len(net[e]) : net' = [net EXCEPT ![e] = SubSeq(@, 1, k)]
      BY <2>2 DEF Cut
    <3> DEFINE t == SubSeq(net[e], 1, k)
    <3>2. net[e] \in Seq(Fragment) /\ Len(net[e]) \in Nat /\ Len(net[e]) <= SockCap
      BY <1>1, SMT DEF NetType
    <3>3. k \in Nat /\ k <= Len(net[e])
      BY <3>2, SMT
    <3>4. t \in Seq(Fragment) /\ Len(t) = k - 1 + 1
      BY <3>2, <3>3, Piece, SMT
    <3>5. net' = [net EXCEPT ![e] = t]
      BY <3>1
    <3> HIDE DEF t
    <3>6. Len(t) <= SockCap
      BY <3>2, <3>3, <3>4, BoundsAssumption, SMTT(30)
    <3> QED
      BY <1>1, <3>4, <3>5, <3>6 DEF NetType
  <2> QED
    BY <2>1, <2>2
<1> QED
  BY <1>3, <1>4, <1>6, <1>7, PartsInv

-----------------------------------------------------------------------------
(* The theorems.                                                           *)

\* The states that connect and the first I/O on an accepted descriptor install
\* satisfy the invariant.
LEMMA InitInv == Init => SessionInv
<1> SUFFICES ASSUME Init PROVE SessionInv
  OBVIOUS
<1>1. cfg \in [Endpoint -> Config] /\ \A e \in Endpoint : cfg[e] \in Config
  BY ConfigsAssumption DEF Init
<1>2. \A c \in Config :
          /\ install_initiator_state(c) \in Handshaking \cup {"Failed"}
          /\ ensure_tracked(c) \in Handshaking \cup {"Failed"}
  BY DEF install_initiator_state, ensure_tracked, select_posture, Handshaking
<1>3. \A e \in Endpoint : phase[e] \in Handshaking \cup {"Failed"}
  BY <1>1, <1>2 DEF Init
<1>4. ASSUME NEW c \in Config
      PROVE  /\ FirstFlight(c) \in Seq(Fragment) /\ Len(FirstFlight(c)) <= TxCap
             /\ install_initiator_state(c) = "Failed" => FirstFlight(c) = <<>>
  <2>1. TxCap \in Nat /\ 2 <= TxCap
    BY BoundsAssumption, SMT
  <2>2. ClientHello(c) \in Frame
    <3>1. c.suite \in WireId /\ c.identity \in {"paired", "foreign", "none"}
      BY DEF Config, WireId
    <3>2. KeyOf(PqcSession(c.suite), "initiator") \in Key
      BY SessionTermType DEF KeyOf, Key, Endpoint
    <3> QED
      BY <3>1, <3>2, FrameType DEF ClientHello, Tag
  <2>3. FallbackHello \in Frame
    <3>1. KeyOf(NoSession, "initiator") \in Key
      BY SessionTermType DEF KeyOf, Key, Endpoint
    <3> QED
      BY <3>1, FrameType DEF FallbackHello, Tag, WireId
  <2>4. /\ Fragments(ClientHello(c)) \in Seq(Fragment) /\ Len(Fragments(ClientHello(c))) = 2
        /\ Fragments(FallbackHello) \in Seq(Fragment) /\ Len(Fragments(FallbackHello)) = 2
        /\ <<>> \in Seq(Fragment) /\ Len(<<>>) = 0
    BY <2>2, <2>3, FragmentsType, SMT
  <2>5. CASE install_initiator_state(c) = "InitiatorAwaitingServerHello"
    BY <2>1, <2>4, <2>5 DEF FirstFlight
  <2>6. CASE install_initiator_state(c) = "InitiatorAwaitingFallbackFinished"
    BY <2>1, <2>4, <2>6 DEF FirstFlight
  <2>7. CASE install_initiator_state(c) \notin
                 {"InitiatorAwaitingServerHello", "InitiatorAwaitingFallbackFinished"}
    BY <2>1, <2>4, <2>7, SMTT(30) DEF FirstFlight
  <2> QED
    BY <2>5, <2>6, <2>7
<1>5. /\ tx_backlog \in [Endpoint -> Seq(Fragment)]
      /\ \A e \in Endpoint : Len(tx_backlog[e]) <= TxCap
  <2>1. <<>> \in Seq(Fragment) /\ Len(<<>>) = 0 /\ TxCap \in Nat
    BY BoundsAssumption, SMT
  <2> QED
    BY <1>1, <1>4, <2>1, SMT DEF Init
<1>6. \A e \in Endpoint : phase[e] = "Failed" => tx_backlog[e] = <<>>
  BY <1>1, <1>4 DEF Init, Endpoint
<1>7. /\ tx \in [Endpoint -> [key : Key, counter : 0..MaxCounter]]
      /\ rx \in [Endpoint -> [key : Key, counter : 0..MaxCounter]]
  BY NoDirectionType, PeerType DEF Init
<1>8. /\ RxCap \in Nat /\ PlainCap \in Nat /\ SockCap \in Nat
      /\ 0 \in 0..MaxFaults /\ 0 \in 0..MaxChunks
  BY BoundsAssumption, SMTT(30)
<1>9. FdType
  <2>1. phase \in [Endpoint -> Handshaking \cup {"Active", "Failed"}]
    BY <1>1, <1>2 DEF Init
  <2>2. /\ rx_wire \in [Endpoint -> Seq(Fragment)] /\ rx_plain \in [Endpoint -> Seq(Nat)]
        /\ \A e \in Endpoint : Len(rx_wire[e]) <= RxCap /\ Len(rx_plain[e]) <= PlainCap
    BY <1>8, SMTT(30) DEF Init
  <2> QED
    BY <1>5, <1>7, <2>1, <2>2 DEF FdType
<1>10. NetType /\ CallType
  BY <1>8, SMTT(30) DEF Init, NetType, CallType, PcLabels
<1>11. RestType /\ LogType
  BY <1>1, <1>8, SessionTermType, SMTT(30) DEF Init, RestType, LogType
<1>12. ASSUME NEW e \in Endpoint PROVE EndpointInv(e)
  BY <1>3, <1>6, SMT DEF Init, EndpointInv, Handshaking
<1> QED
  BY <1>9, <1>10, <1>11, <1>12, TypeParts DEF SessionInv

\* Every step of the system preserves the invariant.
LEMMA NextInv == SessionInv /\ [Next]_vars => SessionInv'
<1> SUFFICES ASSUME SessionInv, [Next]_vars PROVE SessionInv'
  OBVIOUS
<1>1. CASE UNCHANGED vars
  <2>1. UNCHANGED <<cfg, phase, tx, rx, tx_backlog, rx_wire, rx_plain, pc, todo, net, eof, closed,
                    alerts, faults, sealed, received, established>>
    BY <1>1 DEF vars, fdstate, call, wire, history
  <2>2. FdType /\ NetType /\ CallType /\ RestType /\ LogType /\ \A d \in Endpoint : EndpointInv(d)
    BY TypeParts DEF SessionInv
  <2>3. FdType' /\ NetType' /\ CallType' /\ RestType' /\ LogType'
    BY <2>1, <2>2 DEF FdType, NetType, CallType, RestType, LogType
  <2>4. \A d \in Endpoint : EndpointInv(d)'
    BY <2>1, <2>2, UntouchedInv DEF Untouched
  <2> QED
    BY <2>3, <2>4, PartsInv
<1>2. ASSUME NEW e \in Endpoint, Library(e) PROVE SessionInv'
  BY ZenonT(30), <1>2, SendFlushInv, SendFlushFailsInv, DriveSettledInv, DriveFlushInv, DrivePullInv,
     SealRecordInv, SealExhaustedInv, MakeRoomInv, FinalFlushInv, DeliverInv, RecvFlushInv,
     RecvHandshakeInv, RecvOpenInv, RecvPullInv DEF Library
<1> QED
  BY <1>1, <1>2, ApplicationInv, NetworkInv DEF Next

\* Every variable of a connection has its type, and tx_backlog, rx_wire and
\* rx_plain stay within the bounds append_bounded enforces.
THEOREM TypeCorrect == Spec => []TypeOK
<1>1. SessionInv => TypeOK
  BY DEF SessionInv
<1> QED
  BY InitInv, NextInv, <1>1, PTL DEF Spec

\* Direction::seal never uses a nonce twice with one key.
THEOREM NoncesUnique == Spec => []NonceUnique
<1>1. SessionInv => NonceUnique
  <2> SUFFICES ASSUME SessionInv, NEW e \in Endpoint, NEW d \in Endpoint,
                      NEW i \in DOMAIN sealed[e], NEW j \in DOMAIN sealed[d],
                      sealed[e][i].key = sealed[d][j].key,
                      sealed[e][i].nonce = sealed[d][j].nonce
               PROVE  e = d /\ i = j
    BY SMT DEF NonceUnique
  <2>1. LogType /\ EndpointInv(e) /\ EndpointInv(d)
    BY TypeParts DEF SessionInv
  <2>2. i \in 1..Len(sealed[e]) /\ j \in 1..Len(sealed[d])
    BY <2>1, SMTT(30) DEF LogType
  <2>3. /\ sealed[e][i].nonce = i - 1 /\ sealed[e][i].key.by = e
        /\ sealed[d][j].nonce = j - 1 /\ sealed[d][j].key.by = d
    BY <2>1, <2>2 DEF EndpointInv
  <2>4. e = d
    BY <2>3
  <2>5. i - 1 = j - 1
    BY <2>3
  <2>6. i \in Int /\ j \in Int
    BY <2>1, <2>2, SMTT(30) DEF LogType
  <2>7. i = j
    BY <2>5, <2>6, SMT
  <2> QED
    BY <2>4, <2>7
<1> QED
  BY InitInv, NextInv, <1>1, PTL DEF Spec

-----------------------------------------------------------------------------
(* A session that has failed closed is silent.                             *)

\* Flushing an empty backlog sends nothing.
LEMMA EmptyFlush ==
    ASSUME SessionInv, NEW e \in Endpoint, tx_backlog[e] = <<>>
    PROVE  /\ \A next \in PcLabels : flush_backlog(e, next) => Len(net'[Peer(e)]) <= Len(net[Peer(e)])
           /\ \A k \in 0..TxCap : ~FlushFails(e, k)
<1>1. TypeOK
  BY DEF SessionInv
<1>2. ASSUME NEW k \in 0..TxCap, FlushFails(e, k) PROVE FALSE
  BY <1>2, FlushFailsType
<1> QED
  BY <1>1, <1>2, FlushType

\* The failed endpoint's own steps: its call can only run into the failure.
LEMMA OwnStepSilent ==
    ASSUME SessionInv, NEW f \in Endpoint, phase[f] = "Failed", Application(f) \/ Library(f)
    PROVE  Silent(f)
<1>1. /\ FdType /\ NetType /\ pc[f] \notin {"seal", "hs"}
      /\ tx_backlog[f] = <<>> /\ rx_plain[f] = <<>> /\ phase[f] \notin Handshaking
  BY TypeParts DEF SessionInv, EndpointInv, Handshaking
<1>2. /\ \A next \in PcLabels : flush_backlog(f, next) => Len(net'[Peer(f)]) <= Len(net[Peer(f)])
      /\ \A k \in 0..TxCap : ~FlushFails(f, k)
  BY <1>1, EmptyFlush
<1>3. Len(net[Peer(f)]) \in Nat /\ Len(net[Peer(f)]) <= Len(net[Peer(f)])
  BY <1>1, PeerType, SMTT(30) DEF NetType
<1>4. fail_closed(f) => phase'[f] = "Failed"
  BY <1>1, FailClosedType
<1>5. ASSUME Application(f) PROVE Silent(f)
  BY <1>3, <1>4, <1>5
     DEF Application, overlay_send, overlay_recv, close, Silent, fdstate, wire, history
<1>6. ASSUME SendFlush(f) \/ FinalFlush(f) PROVE Silent(f)
  BY <1>2, <1>6 DEF SendFlush, FinalFlush, Silent, history, PcLabels
<1>7. ASSUME RecvFlush(f) PROVE Silent(f)
  <2>1. flush_backlog(f, "open")
    BY <1>1, <1>2, <1>7 DEF RecvFlush
  <2> QED
    BY <1>2, <1>7, <2>1 DEF RecvFlush, Silent, history, PcLabels
<1>8. ASSUME DriveSettled(f) \/ RecvOpen(f) PROVE Silent(f)
  <2>1. UNCHANGED <<phase, wire, history>>
    BY <1>1, <1>8 DEF DriveSettled, RecvOpen, fdstate
  <2> QED
    BY <1>3, <2>1 DEF Silent, wire, history
<1>9. ASSUME RecvPull(f) PROVE Silent(f)
  <2>1. UNCHANGED history
    BY <1>9 DEF RecvPull
  <2>2. phase'[f] = "Failed"
    BY <1>4, <1>9 DEF RecvPull, fdstate
  <2>3. net'[Peer(f)] = net[Peer(f)]
    BY <1>1, <1>9, PeerType DEF RecvPull, Consume, wire, NetType
  <2> QED
    BY <1>3, <2>1, <2>2, <2>3 DEF Silent, history
<1>10. /\ ~SendFlushFails(f) /\ ~DriveFlush(f) /\ ~DrivePull(f) /\ ~SealRecord(f)
       /\ ~SealExhausted(f) /\ ~MakeRoom(f) /\ ~Deliver(f) /\ ~RecvHandshake(f)
  BY <1>1, <1>2 DEF SendFlushFails, DriveFlush, DrivePull, SealRecord, SealExhausted, MakeRoom,
                    Deliver, RecvHandshake
<1> QED
  BY <1>5, <1>6, <1>7, <1>8, <1>9, <1>10 DEF Library

\* A handshake step of one end leaves the other's session and log alone.
LEMMA HandshakeLocal ==
    ASSUME SessionInv, NEW e \in Endpoint, NEW f \in Endpoint, f # e, NEW w, drive_handshake(e, w)
    PROVE  phase'[f] = phase[f] /\ sealed'[f] = sealed[f]
<1>1. FdType /\ LogType
  BY TypeParts DEF SessionInv
<1>2. fail_closed(e) => phase'[f] = phase[f]
  BY <1>1 DEF fail_closed, FdType
<1>3. ASSUME NEW sess, activate(e, sess), SealConfirm(e, sess)
      PROVE  phase'[f] = phase[f] /\ sealed'[f] = sealed[f]
  BY <1>1, <1>3 DEF activate, SealConfirm, FdType, LogType
<1> QED
  BY <1>2, <1>3 DEF drive_handshake

\* The steps of the other end: they read from the stream the failed end wrote,
\* and write to the one it reads from.
LEMMA PeerStepSilent ==
    ASSUME SessionInv, NEW e \in Endpoint, NEW f \in Endpoint, f # e, phase[f] = "Failed",
           Application(e) \/ Library(e)
    PROVE  Silent(f)
<1>1. TypeOK /\ FdType /\ NetType /\ RestType /\ LogType
  BY TypeParts DEF SessionInv
<1>2. Peer(f) = e
  BY DEF Peer, Endpoint
<1>3. Len(net[e]) \in Nat /\ Len(net[e]) <= Len(net[e])
  BY <1>1, SMTT(30) DEF NetType
<1>4. fail_closed(e) => phase'[f] = "Failed"
  BY <1>1, FailClosedType
<1>5. \A next \in PcLabels : flush_backlog(e, next) => net'[e] = net[e]
  BY <1>1, FlushType
<1>6. /\ \A k \in 0..TxCap : FlushFails(e, k) => net'[e] = net[e]
      /\ Transmit(e, Flushed(e)) => net'[e] = net[e]
  BY <1>1, PeerType DEF FlushFails, Transmit, NetType
<1>7. \A k \in PullSizes(e) : Consume(e, k) => Len(net'[e]) <= Len(net[e])
  BY PullType
<1>8. ASSUME Application(e) PROVE Silent(f)
  BY <1>2, <1>3, <1>4, <1>8
     DEF Application, overlay_send, overlay_recv, close, Silent, fdstate, wire, history
<1>9. ASSUME SendFlush(e) \/ FinalFlush(e) \/ DriveFlush(e) PROVE Silent(f)
  <2>1. \E next \in PcLabels : flush_backlog(e, next)
    BY <1>9 DEF SendFlush, FinalFlush, DriveFlush, PcLabels
  <2>2. net'[e] = net[e]
    BY <1>5, <2>1
  <2> QED
    BY <1>2, <1>3, <1>9, <2>2 DEF SendFlush, FinalFlush, DriveFlush, Silent, history
<1>10. ASSUME RecvFlush(e) PROVE Silent(f)
  <2>1. net'[e] = net[e]
    BY <1>5, <1>6, <1>10 DEF RecvFlush, PcLabels
  <2> QED
    BY <1>2, <1>3, <1>10, <2>1 DEF RecvFlush, Silent, history
<1>11. ASSUME SendFlushFails(e) \/ SealExhausted(e) PROVE Silent(f)
  <2>1. net'[e] = net[e] /\ phase'[f] = "Failed" /\ UNCHANGED history
    BY <1>4, <1>6, <1>11 DEF SendFlushFails, SealExhausted, wire
  <2> QED
    BY <1>2, <1>3, <2>1 DEF Silent, history
<1>12. ASSUME DriveSettled(e) \/ RecvOpen(e) PROVE Silent(f)
  <2>1. phase'[f] = "Failed" /\ UNCHANGED <<wire, history>>
    BY <1>4, <1>12 DEF DriveSettled, RecvOpen, fdstate
  <2> QED
    BY <1>2, <1>3, <2>1 DEF Silent, wire, history
<1>13. ASSUME DrivePull(e) \/ RecvPull(e) \/ RecvHandshake(e) PROVE Silent(f)
  <2>1. \A w : drive_handshake(e, w) => phase'[f] = phase[f] /\ sealed'[f] = sealed[f]
    BY HandshakeLocal
  <2>2. phase'[f] = "Failed" /\ sealed'[f] = sealed[f]
    BY <1>4, <1>13, <2>1 DEF DrivePull, RecvPull, RecvHandshake, fdstate, history
  <2>3. received' = received
    BY <1>13 DEF DrivePull, RecvPull, RecvHandshake, history
  <2>4. Len(net'[e]) <= Len(net[e])
    BY <1>3, <1>7, <1>13 DEF DrivePull, RecvPull, RecvHandshake, wire
  <2> QED
    BY <1>2, <2>2, <2>3, <2>4 DEF Silent
<1>14. ASSUME SealRecord(e) \/ MakeRoom(e) PROVE Silent(f)
  <2>1. net'[e] = net[e]
    BY <1>5, <1>6, <1>14 DEF SealRecord, MakeRoom, wire, PcLabels
  <2>2. phase'[f] = "Failed" /\ received' = received
    BY <1>4, <1>14 DEF SealRecord, MakeRoom
  <2>3. sealed'[f] = sealed[f]
    BY <1>1, <1>14 DEF SealRecord, Seal, MakeRoom, LogType
  <2> QED
    BY <1>2, <1>3, <2>1, <2>2, <2>3 DEF Silent
<1>15. ASSUME Deliver(e) PROVE Silent(f)
  <2>1. received'[f] = received[f]
    BY <1>1, <1>15 DEF Deliver, RestType
  <2> QED
    BY <1>2, <1>3, <1>15, <2>1 DEF Deliver, Silent, wire
<1> QED
  BY <1>8, <1>9, <1>10, <1>11, <1>12, <1>13, <1>14, <1>15 DEF Library

\* fail_closed is final: whatever the application, the peer and the network do
\* afterwards, the phase stays Failed and no further record is sealed,
\* delivered or put on the wire.
THEOREM FailureIsTerminal == Spec => FailedIsTerminal
<1>1. ASSUME SessionInv, [Next]_vars, NEW f \in Endpoint, phase[f] = "Failed"
      PROVE  Silent(f)
  <2>1. NetType /\ RestType
    BY <1>1, TypeParts DEF SessionInv
  <2>2. Len(net[Peer(f)]) \in Nat /\ Len(net[Peer(f)]) <= Len(net[Peer(f)])
    BY <2>1, PeerType, SMTT(30) DEF NetType
  <2>3. CASE UNCHANGED vars
    BY <1>1, <2>2, <2>3 DEF Silent, vars, fdstate, wire, history
  <2>4. ASSUME NEW e \in Endpoint, Application(e) \/ Library(e) PROVE Silent(f)
    BY <1>1, <2>4, OwnStepSilent, PeerStepSilent
  <2>5. ASSUME NEW e \in Endpoint, Relay(e) \/ Cut(e) PROVE Silent(f)
    <3>1. faults' # faults /\ UNCHANGED <<fdstate, history>>
      BY <2>1, <2>5, BoundsAssumption, SMTT(30) DEF Relay, Cut, RestType
    <3> QED
      BY <1>1, <3>1 DEF Silent, fdstate, history
  <2> QED
    BY <1>1, <2>3, <2>4, <2>5 DEF Next
<1>2. SessionInv /\ [Next]_vars => [\A e \in Endpoint : phase[e] = "Failed" => Silent(e)]_vars
  BY <1>1
<1> QED
  BY InitInv, NextInv, <1>2, PTL DEF Spec, FailedIsTerminal

=============================================================================
