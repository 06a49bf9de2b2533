--------------------------- MODULE SessionLemmas ----------------------------
(***************************************************************************)
(* The inductive invariant of Session, and what the operators its actions  *)
(* are made of do to it.                                                   *)
(***************************************************************************)
EXTENDS Session, SequenceTheorems, TLAPS

\* The leaves are logic and sets: Zenon proves them unless one names SMT.
USE ZenonT(20)

-----------------------------------------------------------------------------
(* Sequences of fragments.                                                 *)

\* A piece of a sequence has elements of the same set and the obvious length.
LEMMA Piece ==
    ASSUME NEW S, NEW s \in Seq(S), NEW m \in Nat \ {0}, NEW n \in Nat,
           n <= Len(s), m <= n + 1
    PROVE  /\ SubSeq(s, m, n) \in Seq(S)
           /\ Len(SubSeq(s, m, n)) = n - m + 1
<1>1. \A i \in m..n : s[i] \in S
  BY ElementOfSeq, SMT
<1> QED
  BY <1>1, SubSeqProperties, SMT

\* The two fragments of a frame.
LEMMA FragmentsType ==
    ASSUME NEW f \in Frame
    PROVE  Fragments(f) \in Seq(Fragment) /\ Len(Fragments(f)) = 2
BY SMT DEF Fragments, Fragment

\* What try_pop_frame reads is a frame.
LEMMA FrameAtType ==
    ASSUME NEW w \in Seq(Fragment), NEW i \in Nat \ {0}, 2 * i - 1 <= Len(w)
    PROVE  FrameAt(w, i) \in Frame
<1>1. w[2 * i - 1] \in Fragment
  BY ElementOfSeq, SMT
<1>2. w[2 * i - 1].frame \in Frame
  BY <1>1 DEF Fragment
<1> QED
  BY <1>2 DEF FrameAt, Frame, Body

\* Both Peer and its inverse stay among the two endpoints.
LEMMA PeerType ==
    ASSUME NEW e \in Endpoint
    PROVE  Peer(e) \in Endpoint /\ Peer(Peer(e)) = e /\ Peer(e) # e
BY DEF Peer, Endpoint

-----------------------------------------------------------------------------
(* The inductive invariant.                                                *)

\* What holds of one endpoint: the sealing loop runs on an established session
\* with something left to seal; the record counter is the number of records
\* sealed, and the n-th of them has nonce n - 1 and this end's key; a state
\* that failed closed holds no bytes.
EndpointInv(e) ==
    /\ pc[e] = "seal" => todo[e] > 0 /\ phase[e] = "Active"
    /\ pc[e] = "hs" => phase[e] \in Handshaking
    /\ phase[e] \in Handshaking => sealed[e] = <<>>
    /\ phase[e] = "Active" => tx[e].counter = Len(sealed[e]) /\ tx[e].key.by = e
    /\ \A i \in 1..Len(sealed[e]) : sealed[e][i].nonce = i - 1 /\ sealed[e][i].key.by = e
    /\ phase[e] = "Failed" => tx_backlog[e] = <<>> /\ rx_plain[e] = <<>>

SessionInv == TypeOK /\ \A e \in Endpoint : EndpointInv(e)

-----------------------------------------------------------------------------
(* The pieces actions are made of.                                         *)

\* The smaller of two numbers.
LEMMA MinOfBound ==
    ASSUME NEW a \in Nat, NEW b \in Nat
    PROVE  MinOf(a, b) \in Nat /\ MinOf(a, b) <= a /\ MinOf(a, b) <= b
BY SMT DEF MinOf

\* The kernel takes at most what there is and at most what it has room for.
LEMMA FlushedBound ==
    ASSUME TypeOK, NEW e \in Endpoint
    PROVE  /\ Flushed(e) \in Nat
           /\ Flushed(e) <= Len(tx_backlog[e])
           /\ Len(net[Peer(e)]) + Flushed(e) <= SockCap
<1>1. Len(tx_backlog[e]) \in Nat /\ Len(net[Peer(e)]) \in Nat /\ Len(net[Peer(e)]) <= SockCap
  BY PeerType, SMT DEF TypeOK
<1>2. SockCap \in Nat /\ cfg[e].sndbuf \in 1..SockCap
  BY BoundsAssumption DEF TypeOK, Config
<1>3. Room(e) \in Nat /\ Len(net[Peer(e)]) + Room(e) <= SockCap
  BY <1>1, <1>2, SMTT(30) DEF Room
<1>4. /\ Flushed(e) \in Nat
      /\ Flushed(e) <= Len(tx_backlog[e])
      /\ Flushed(e) <= Room(e)
  BY <1>1, <1>3, MinOfBound DEF Flushed
<1> QED
  BY <1>1, <1>2, <1>3, <1>4, SMT

\* Two streams of fragments joined.
LEMMA Joined ==
    ASSUME NEW s \in Seq(Fragment), NEW t \in Seq(Fragment)
    PROVE  s \o t \in Seq(Fragment) /\ Len(s \o t) = Len(s) + Len(t)
BY ConcatProperties

\* Transmitting part of the backlog keeps the streams typed and bounded.
LEMMA TransmitType ==
    ASSUME TypeOK, NEW e \in Endpoint, NEW k \in Nat, k <= Flushed(e), Transmit(e, k)
    PROVE  /\ net' \in [Endpoint -> Seq(Fragment)]
           /\ \A d \in Endpoint : Len(net'[d]) <= SockCap
           /\ net'[e] = net[e]
           /\ k = 0 => Len(net'[Peer(e)]) <= Len(net[Peer(e)])
<1>1. tx_backlog[e] \in Seq(Fragment) /\ net[Peer(e)] \in Seq(Fragment)
  BY PeerType DEF TypeOK
<1>2. k <= Len(tx_backlog[e]) /\ Len(net[Peer(e)]) + k <= SockCap /\ Len(tx_backlog[e]) \in Nat
  BY <1>1, FlushedBound, BoundsAssumption, SMTT(30)
<1>3. SubSeq(tx_backlog[e], 1, k) \in Seq(Fragment) /\ Len(SubSeq(tx_backlog[e], 1, k)) = k
  BY <1>1, <1>2, Piece, SMT
<1>4. /\ net[Peer(e)] \o SubSeq(tx_backlog[e], 1, k) \in Seq(Fragment)
      /\ Len(net[Peer(e)] \o SubSeq(tx_backlog[e], 1, k)) = Len(net[Peer(e)]) + k
  BY <1>1, <1>3, Joined
<1> DEFINE x == IF eof[Peer(e)] THEN net[Peer(e)] ELSE net[Peer(e)] \o SubSeq(tx_backlog[e], 1, k)
<1>5. Len(net[Peer(e)]) \in Nat /\ SockCap \in Nat
  BY <1>1, BoundsAssumption, SMT
<1>6. x \in Seq(Fragment) /\ Len(x) <= SockCap /\ (k = 0 => Len(x) <= Len(net[Peer(e)]))
  <2>1. CASE eof[Peer(e)]
    <3>1. x = net[Peer(e)]
      BY <2>1
    <3> HIDE DEF x
    <3> QED
      BY <3>1, <1>1, <1>2, <1>5, SMT
  <2>2. CASE ~eof[Peer(e)]
    <3>1. x = net[Peer(e)] \o SubSeq(tx_backlog[e], 1, k)
      BY <2>2
    <3>2. x \in Seq(Fragment) /\ Len(x) = Len(net[Peer(e)]) + k
      BY <3>1, <1>4
    <3> HIDE DEF x
    <3> QED
      BY <3>2, <1>2, <1>5, SMT
  <2> QED
    BY <2>1, <2>2
<1>7. net' = [net EXCEPT ![Peer(e)] = x]
  BY DEF Transmit
<1>8. net \in [Endpoint -> Seq(Fragment)] /\ \A d \in Endpoint : Len(net[d]) <= SockCap
  BY DEF TypeOK
<1> HIDE DEF x
<1> QED
  BY <1>6, <1>7, <1>8, PeerType

\* Dropping the first k fragments of a buffer.
LEMMA DrainType ==
    ASSUME NEW b \in Seq(Fragment), NEW k \in Nat, k <= Len(b)
    PROVE  /\ SubSeq(b, k + 1, Len(b)) \in Seq(Fragment)
           /\ Len(SubSeq(b, k + 1, Len(b))) = Len(b) - k
           /\ b = <<>> => SubSeq(b, k + 1, Len(b)) = <<>>
<1>1. Len(b) \in Nat
  BY SMT
<1>2. SubSeq(b, k + 1, Len(b)) \in Seq(Fragment) /\ Len(SubSeq(b, k + 1, Len(b))) = Len(b) - k
  BY <1>1, Piece, SMT
<1> QED
  BY <1>1, <1>2, EmptySeq, SMT

\* flush_backlog moves fragments from the backlog to the stream.
LEMMA FlushType ==
    ASSUME TypeOK, NEW e \in Endpoint, NEW next \in PcLabels, flush_backlog(e, next)
    PROVE  /\ net' \in [Endpoint -> Seq(Fragment)]
           /\ \A d \in Endpoint : Len(net'[d]) <= SockCap
           /\ net'[e] = net[e]
           /\ tx_backlog' \in [Endpoint -> Seq(Fragment)]
           /\ \A d \in Endpoint : Len(tx_backlog'[d]) <= TxCap
           /\ \A d \in Endpoint : tx_backlog[d] = <<>> => tx_backlog'[d] = <<>>
           /\ tx_backlog[e] = <<>> => Len(net'[Peer(e)]) <= Len(net[Peer(e)])
           /\ pc' \in [Endpoint -> PcLabels] /\ pc'[e] \in {pc[e], next}
           /\ \A d \in Endpoint : d # e => pc'[d] = pc[d] /\ todo'[d] = todo[d]
           /\ todo' \in [Endpoint -> 0..MaxChunks]
           /\ next # "idle" => todo' = todo
<1> DEFINE k == Flushed(e)
<1>1. k \in Nat /\ k <= Len(tx_backlog[e])
  BY FlushedBound
<1>2. Transmit(e, k)
  BY DEF flush_backlog
<1>3. /\ net' \in [Endpoint -> Seq(Fragment)]
      /\ \A d \in Endpoint : Len(net'[d]) <= SockCap
      /\ net'[e] = net[e]
      /\ k = 0 => Len(net'[Peer(e)]) <= Len(net[Peer(e)])
  BY <1>1, <1>2, TransmitType, SMT
<1>4. tx_backlog[e] \in Seq(Fragment) /\ Len(tx_backlog[e]) \in Nat /\ Len(tx_backlog[e]) <= TxCap
  BY SMT DEF TypeOK
<1>5. /\ SubSeq(tx_backlog[e], k + 1, Len(tx_backlog[e])) \in Seq(Fragment)
      /\ Len(SubSeq(tx_backlog[e], k + 1, Len(tx_backlog[e]))) <= TxCap
      /\ tx_backlog[e] = <<>> => SubSeq(tx_backlog[e], k + 1, Len(tx_backlog[e])) = <<>>
  BY <1>1, <1>4, DrainType, BoundsAssumption, SMTT(30)
<1>6. tx_backlog' = [tx_backlog EXCEPT ![e] = SubSeq(tx_backlog[e], k + 1, Len(tx_backlog[e]))]
  BY DEF flush_backlog, TypeOK
<1>7. /\ tx_backlog' \in [Endpoint -> Seq(Fragment)]
      /\ \A d \in Endpoint : Len(tx_backlog'[d]) <= TxCap
      /\ \A d \in Endpoint : tx_backlog[d] = <<>> => tx_backlog'[d] = <<>>
  BY <1>5, <1>6 DEF TypeOK
<1>8. tx_backlog[e] = <<>> => k = 0
  BY <1>1, <1>4, EmptySeq, SMT
<1>9. /\ pc' \in [Endpoint -> PcLabels] /\ pc'[e] \in {pc[e], next}
      /\ \A d \in Endpoint : d # e => pc'[d] = pc[d] /\ todo'[d] = todo[d]
      /\ todo' \in [Endpoint -> 0..MaxChunks]
      /\ next # "idle" => todo' = todo
  <2>1. /\ pc \in [Endpoint -> PcLabels] /\ todo \in [Endpoint -> 0..MaxChunks]
        /\ 0 \in 0..MaxChunks
    <3>1. pc \in [Endpoint -> PcLabels] /\ todo \in [Endpoint -> 0..MaxChunks]
      BY DEF TypeOK
    <3>2. 0 \in 0..MaxChunks
      BY BoundsAssumption, SMT
    <3> QED
      BY <3>1, <3>2
  <2>2. ASSUME NEW label \in {pc[e], next}, NEW left \in {0, todo[e]},
               next # "idle" => left = todo[e],
               pc' = [pc EXCEPT ![e] = label], todo' = [todo EXCEPT ![e] = left]
        PROVE  /\ pc' \in [Endpoint -> PcLabels] /\ pc'[e] \in {pc[e], next}
               /\ \A d \in Endpoint : d # e => pc'[d] = pc[d] /\ todo'[d] = todo[d]
               /\ todo' \in [Endpoint -> 0..MaxChunks]
               /\ next # "idle" => todo' = todo
    BY <2>1, <2>2, SMTT(30)
  <2> DEFINE label == IF cfg[e].blocking /\ ~FlushedAll(e) THEN pc[e] ELSE next
             left == IF next = "idle" /\ pc'[e] = "idle" THEN 0 ELSE todo[e]
  <2>3. pc' = [pc EXCEPT ![e] = label] /\ todo' = [todo EXCEPT ![e] = left]
    BY DEF flush_backlog
  <2>4. label \in {pc[e], next} /\ left \in {0, todo[e]} /\ (next # "idle" => left = todo[e])
    OBVIOUS
  <2> HIDE DEF label, left
  <2> QED
    BY <2>2, <2>3, <2>4
<1> QED
  BY <1>3, <1>7, <1>8, <1>9

-----------------------------------------------------------------------------
(* The type invariant in five parts, so that an action's proof needs only  *)
(* the parts it touches.                                                   *)

FdType ==
    /\ phase \in [Endpoint -> Handshaking \cup {"Active", "Failed"}]
    /\ tx \in [Endpoint -> [key : Key, counter : 0..MaxCounter]]
    /\ rx \in [Endpoint -> [key : Key, counter : 0..MaxCounter]]
    /\ tx_backlog \in [Endpoint -> Seq(Fragment)]
    /\ rx_wire \in [Endpoint -> Seq(Fragment)]
    /\ rx_plain \in [Endpoint -> Seq(Nat)]
    /\ \A e \in Endpoint : /\ Len(tx_backlog[e]) <= TxCap
                            /\ Len(rx_wire[e]) <= RxCap
                            /\ Len(rx_plain[e]) <= PlainCap

NetType ==
    /\ net \in [Endpoint -> Seq(Fragment)]
    /\ \A e \in Endpoint : Len(net[e]) <= SockCap

CallType ==
    /\ pc \in [Endpoint -> PcLabels]
    /\ todo \in [Endpoint -> 0..MaxChunks]

RestType ==
    /\ cfg \in [Endpoint -> Config]
    /\ eof \in [Endpoint -> BOOLEAN] /\ closed \in [Endpoint -> BOOLEAN]
    /\ alerts \in [Endpoint -> Nat] /\ faults \in 0..MaxFaults
    /\ received \in [Endpoint -> Seq(Nat)]

LogType ==
    /\ sealed \in [Endpoint -> Seq(SealedRecord)]
    /\ established \in [Endpoint -> SessionTerm]

\* TypeOK is the conjunction of the parts.
LEMMA TypeParts == TypeOK <=> FdType /\ NetType /\ CallType /\ RestType /\ LogType
BY DEF TypeOK, FdType, NetType, CallType, RestType, LogType

\* A step that neither seals nor changes the session of d nor fills its buffers
\* once they are empty.
Untouched(d) ==
    /\ pc'[d] = pc[d] /\ todo'[d] = todo[d] /\ phase'[d] = phase[d] /\ sealed'[d] = sealed[d]
    /\ tx'[d] = tx[d]
    /\ tx_backlog[d] = <<>> => tx_backlog'[d] = <<>>
    /\ rx_plain[d] = <<>> => rx_plain'[d] = <<>>

\* The invariant of an endpoint depends on the state of that endpoint alone.
LEMMA UntouchedInv ==
    ASSUME NEW d \in Endpoint, EndpointInv(d), Untouched(d)
    PROVE  EndpointInv(d)'
BY DEF EndpointInv, Untouched

\* A key belongs to an endpoint.
LEMMA NoDirectionType ==
    ASSUME NEW e \in Endpoint
    PROVE  NoDirection(e) \in [key : Key, counter : 0..MaxCounter]
BY BoundsAssumption, SMT DEF NoDirection, Direction, KeyOf, Key, NoSession, SessionTerm

\* fail_closed leaves an empty state behind.
LEMMA FailClosedType ==
    ASSUME FdType, NEW e \in Endpoint, fail_closed(e)
    PROVE  /\ FdType'
           /\ phase'[e] = "Failed" /\ tx_backlog'[e] = <<>> /\ rx_plain'[e] = <<>>
           /\ \A d \in Endpoint : d # e =>
                 /\ phase'[d] = phase[d] /\ tx'[d] = tx[d]
                 /\ tx_backlog'[d] = tx_backlog[d] /\ rx_plain'[d] = rx_plain[d]
<1>1. NoDirection(e) \in [key : Key, counter : 0..MaxCounter]
  BY NoDirectionType
<1>2. NoDirection(Peer(e)) \in [key : Key, counter : 0..MaxCounter]
  BY NoDirectionType, PeerType
<1>3. Len(<<>>) = 0 /\ <<>> \in Seq(Fragment) /\ <<>> \in Seq(Nat)
  BY SMT
<1>4. TxCap \in Nat /\ RxCap \in Nat /\ PlainCap \in Nat
  BY BoundsAssumption
<1>5. /\ tx' \in [Endpoint -> [key : Key, counter : 0..MaxCounter]]
      /\ rx' \in [Endpoint -> [key : Key, counter : 0..MaxCounter]]
  BY <1>1, <1>2 DEF fail_closed, FdType
<1>6. phase' \in [Endpoint -> Handshaking \cup {"Active", "Failed"}]
  BY DEF fail_closed, FdType
<1>7. /\ tx_backlog' \in [Endpoint -> Seq(Fragment)]
      /\ rx_wire' \in [Endpoint -> Seq(Fragment)]
      /\ rx_plain' \in [Endpoint -> Seq(Nat)]
  BY <1>3 DEF fail_closed, FdType
<1>8. \A d \in Endpoint : /\ Len(tx_backlog'[d]) <= TxCap
                           /\ Len(rx_wire'[d]) <= RxCap
                           /\ Len(rx_plain'[d]) <= PlainCap
  BY <1>3, <1>4, SMT DEF fail_closed, FdType
<1>9. FdType'
  BY <1>5, <1>6, <1>7, <1>8 DEF FdType
<1> QED
  BY <1>9 DEF fail_closed, FdType

\* A call that returns.
LEMMA ReturnType ==
    ASSUME CallType, NEW e \in Endpoint, Return(e)
    PROVE  /\ CallType' /\ pc'[e] = "idle"
           /\ \A d \in Endpoint : d # e => pc'[d] = pc[d] /\ todo'[d] = todo[d]
BY BoundsAssumption, SMT DEF CallType, Return, PcLabels

\* A call that goes on to its next step.
LEMMA GotoType ==
    ASSUME CallType, NEW e \in Endpoint, NEW label \in PcLabels, Goto(e, label)
    PROVE  /\ CallType' /\ pc'[e] = label /\ todo' = todo
           /\ \A d \in Endpoint : d # e => pc'[d] = pc[d]
BY DEF CallType, Goto

\* An endpoint that fails closed and returns satisfies its invariant.
LEMMA FailReturnInv ==
    ASSUME SessionInv, NEW e \in Endpoint, fail_closed(e), Return(e),
           sealed' = sealed
    PROVE  FdType' /\ CallType' /\ \A d \in Endpoint : EndpointInv(d)'
<1>1. FdType /\ CallType /\ \A d \in Endpoint : EndpointInv(d)
  BY TypeParts DEF SessionInv
<1>2. FdType' /\ phase'[e] = "Failed" /\ tx_backlog'[e] = <<>> /\ rx_plain'[e] = <<>>
  BY <1>1, FailClosedType
<1>3. CallType' /\ pc'[e] = "idle"
  BY <1>1, ReturnType
<1>4. EndpointInv(e)'
  BY <1>1, <1>2, <1>3 DEF EndpointInv, Handshaking
<1>5. ASSUME NEW d \in Endpoint, d # e PROVE EndpointInv(d)'
  BY <1>1, <1>5, FailClosedType, ReturnType, UntouchedInv DEF Untouched
<1> QED
  BY <1>2, <1>3, <1>4, <1>5

-----------------------------------------------------------------------------
(* The handshake.                                                          *)

\* The frames the library makes.
LEMMA FrameType ==
    ASSUME NEW s \in WireId, NEW t \in Tag, NEW id \in {"paired", "foreign", "none"},
           NEW k \in Key, NEW n \in Nat, NEW p \in Nat
    PROVE  frame(s, t, id, k, n, p) \in Frame
BY DEF frame, Frame, Body

\* The sessions a configuration can lead to are session terms.
LEMMA SessionTermType ==
    ASSUME NEW c \in Config, NEW h \in {"ok", "flipped"}
    PROVE  /\ PqcSession(c.suite) \in SessionTerm
           /\ PskSession(c.psk, h) \in SessionTerm
           /\ NoSession \in SessionTerm
BY DEF Config, PqcSession, PskSession, NoSession, SessionTerm

\* A frame that completes the handshake does so with the endpoint's own suite
\* or its own PSK.
LEMMA HandshakeResultCases ==
    ASSUME RestType, NEW e \in Endpoint, NEW w \in Seq(Fragment), ~BadHeader(w), Complete(w)
    PROVE  LET sess == HandshakeResult(e, FirstFrame(w))
           IN  \/ sess = NoSession
               \/ sess = PqcSession(cfg[e].suite)
               \/ \E h \in {"ok", "flipped"} : sess = PskSession(cfg[e].psk, h)
<1>1. FirstFrame(w) \in Frame
  BY FrameAtType, SMT DEF FirstFrame, Complete
<1>2. w # <<>> /\ w[1] \in Fragment
  BY ElementOfSeq, SMT DEF Complete
<1>3. w[1].frame.body # "badlen"
  BY <1>2 DEF BadHeader
<1>4. w[1].frame \in Frame
  BY <1>2 DEF Fragment
<1>5. FirstFrame(w).body # "badlen"
  BY <1>3, <1>4, SMT DEF FirstFrame, FrameAt, Frame
<1>6. FirstFrame(w).body \in {"ok", "flipped", "malformed"}
  BY <1>1, <1>5 DEF Frame, Body
<1> DEFINE f == FirstFrame(w)
<1>7. f.body \in {"ok", "flipped", "malformed"}
  BY <1>6
<1> HIDE DEF f
<1>8. \/ HandshakeResult(e, f) = NoSession
      \/ HandshakeResult(e, f) = PqcSession(cfg[e].suite)
      \/ \E h \in {"ok", "flipped"} : HandshakeResult(e, f) = PskSession(cfg[e].psk, h)
  BY <1>7 DEF HandshakeResult
<1> QED
  BY <1>8 DEF f

\* The reply of the responder is a frame, or nothing.
LEMMA ReplyType ==
    ASSUME RestType, NEW e \in Endpoint, NEW sess \in SessionTerm,
           \/ sess = PqcSession(cfg[e].suite)
           \/ sess.mode = "psk"
    PROVE  Reply(e, sess) \in Seq(Fragment)
<1>1. cfg[e].identity \in {"paired", "foreign", "none"} /\ cfg[e].suite \in WireId
  BY DEF RestType, Config, WireId
<1>2. KeyOf(sess, e) \in Key
  BY DEF KeyOf, Key
<1>3. CASE e = "initiator"
  BY <1>3, SMT DEF Reply
<1>4. CASE e # "initiator" /\ sess.mode = "pqc"
  <2>1. sess.suite \in WireId
    BY <1>1, <1>4, SMT DEF PqcSession
  <2>2. frame(sess.suite, "ServerHello", cfg[e].identity, KeyOf(sess, e), 0, 0) \in Frame
    BY <1>1, <1>2, <2>1, FrameType DEF Tag
  <2> QED
    BY <1>4, <2>2, FragmentsType DEF Reply
<1>5. CASE e # "initiator" /\ sess.mode # "pqc"
  <2>1. frame(FALLBACK_WIRE_ID, "FallbackFinished", "none", KeyOf(sess, e), 0, FALLBACK_CONFIRM)
            \in Frame
    BY <1>2, FrameType DEF Tag, WireId, FALLBACK_CONFIRM
  <2> QED
    BY <1>5, <2>1, FragmentsType DEF Reply
<1> QED
  BY <1>3, <1>4, <1>5

\* Activation on a session term: the counters start where the confirmation
\* left them, the buffers stay within their bounds.
LEMMA ActivateInv ==
    ASSUME SessionInv, NEW e \in Endpoint, phase[e] \in Handshaking,
           NEW sess \in SessionTerm, NEW reply \in Seq(Fragment), NEW rest \in Seq(Fragment),
           Len(tx_backlog[e]) + Len(reply) <= TxCap, Len(rest) <= RxCap,
           activate(e, sess), SealConfirm(e, sess),
           tx_backlog' = [tx_backlog EXCEPT ![e] = @ \o reply],
           rx_wire' = [rx_wire EXCEPT ![e] = rest],
           rx_plain' = rx_plain,
           NEW label \in PcLabels \ {"seal", "hs"}, Goto(e, label)
    PROVE  FdType' /\ CallType' /\ LogType' /\ \A d \in Endpoint : EndpointInv(d)'
<1>1. FdType /\ CallType /\ LogType /\ \A d \in Endpoint : EndpointInv(d)
  BY TypeParts DEF SessionInv
<1>2. CallType' /\ pc'[e] = label /\ \A d \in Endpoint : d # e => pc'[d] = pc[d]
  BY <1>1, GotoType
<1>3. KeyOf(sess, e) \in Key /\ KeyOf(sess, Peer(e)) \in Key
  BY PeerType DEF KeyOf, Key
<1>4. 0 \in 0..MaxCounter /\ 1 \in 0..MaxCounter
  BY BoundsAssumption, SMT
<1> DEFINE start(by) == IF sess.mode = "psk" /\ by = "responder" THEN 1 ELSE 0
<1>5. /\ tx' = [tx EXCEPT ![e] = Direction(KeyOf(sess, e), start(e))]
      /\ rx' = [rx EXCEPT ![e] = Direction(KeyOf(sess, Peer(e)), start(Peer(e)))]
  BY DEF activate
<1>6. start(e) \in 0..MaxCounter /\ start(Peer(e)) \in 0..MaxCounter
  BY <1>4
<1> HIDE DEF start
<1>7. /\ tx' \in [Endpoint -> [key : Key, counter : 0..MaxCounter]]
      /\ rx' \in [Endpoint -> [key : Key, counter : 0..MaxCounter]]
  BY <1>1, <1>3, <1>5, <1>6 DEF FdType, Direction
<1>8. /\ phase' \in [Endpoint -> Handshaking \cup {"Active", "Failed"}]
      /\ phase'[e] = "Active" /\ \A d \in Endpoint : d # e => phase'[d] = phase[d]
      /\ established' \in [Endpoint -> SessionTerm]
  BY <1>1 DEF FdType, LogType, activate
<1>9. /\ tx_backlog[e] \o reply \in Seq(Fragment)
      /\ Len(tx_backlog[e] \o reply) = Len(tx_backlog[e]) + Len(reply)
  BY <1>1, ConcatProperties DEF FdType
<1>10. /\ tx_backlog' \in [Endpoint -> Seq(Fragment)]
       /\ \A d \in Endpoint : Len(tx_backlog'[d]) <= TxCap
       /\ \A d \in Endpoint : d # e => tx_backlog'[d] = tx_backlog[d]
  BY <1>1, <1>9 DEF FdType
<1>11. /\ rx_wire' \in [Endpoint -> Seq(Fragment)]
       /\ \A d \in Endpoint : Len(rx_wire'[d]) <= RxCap
  BY <1>1 DEF FdType
<1>12. FdType'
  BY <1>1, <1>7, <1>8, <1>10, <1>11 DEF FdType
<1>13. sealed[e] = <<>> /\ sealed \in [Endpoint -> Seq(SealedRecord)]
  BY <1>1, SMTT(30) DEF EndpointInv, LogType
<1>14. /\ sealed' \in [Endpoint -> Seq(SealedRecord)]
       /\ Len(sealed'[e]) = start(e)
       /\ \A i \in 1..Len(sealed'[e]) : sealed'[e][i].nonce = i - 1 /\ sealed'[e][i].key.by = e
       /\ \A d \in Endpoint : d # e => sealed'[d] = sealed[d]
  <2> DEFINE r == [key |-> KeyOf(sess, e), nonce |-> 0, pt |-> FALLBACK_CONFIRM]
  <2>1. r \in SealedRecord /\ r.nonce = 0 /\ r.key.by = e
    BY <1>3 DEF SealedRecord, FALLBACK_CONFIRM, KeyOf
  <2> HIDE DEF r
  <2>2. CASE e = "responder" /\ sess.mode = "psk"
    <3>1. sealed' = [sealed EXCEPT ![e] = Append(sealed[e], r)]
      BY <2>2, <1>13 DEF SealConfirm, r
    <3>2. sealed'[e] = <<r>>
      BY <3>1, <1>13, SMTT(30)
    <3>3. sealed' \in [Endpoint -> Seq(SealedRecord)]
      BY <3>1, <2>1, <1>13, SMTT(30)
    <3>4. start(e) = 1
      BY <2>2 DEF start
    <3> QED
      BY <3>1, <3>2, <3>3, <3>4, <2>1, <1>13, SMTT(30)
  <2>3. CASE ~(e = "responder" /\ sess.mode = "psk")
    <3>1. sealed' = sealed
      BY <2>3 DEF SealConfirm
    <3>2. start(e) = 0
      BY <2>3 DEF start
    <3> QED
      BY <3>1, <3>2, <1>13, SMTT(30)
  <2> QED
    BY <2>2, <2>3
<1>15. LogType'
  BY <1>8, <1>14 DEF LogType
<1>16. tx'[e].counter = Len(sealed'[e]) /\ tx'[e].key.by = e
  BY <1>1, <1>5, <1>14 DEF FdType, Direction, KeyOf
<1>17. EndpointInv(e)'
  BY <1>2, <1>8, <1>14, <1>16 DEF EndpointInv, Handshaking
<1>18. ASSUME NEW d \in Endpoint, d # e PROVE EndpointInv(d)'
  <2>1. tx'[d] = tx[d]
    BY <1>1, <1>5, <1>18 DEF FdType
  <2> QED
    BY <1>1, <1>2, <1>8, <1>10, <1>14, <1>18, <2>1, UntouchedInv, SMT DEF Untouched, Goto
<1> QED
  BY <1>2, <1>12, <1>15, <1>17, <1>18

\* A failing endpoint whose call goes on.
LEMMA FailGotoInv ==
    ASSUME SessionInv, NEW e \in Endpoint, fail_closed(e),
           NEW label \in PcLabels \ {"seal", "hs"}, Goto(e, label), sealed' = sealed
    PROVE  FdType' /\ CallType' /\ \A d \in Endpoint : EndpointInv(d)'
<1>1. FdType /\ CallType /\ \A d \in Endpoint : EndpointInv(d)
  BY TypeParts DEF SessionInv
<1>2. FdType' /\ phase'[e] = "Failed" /\ tx_backlog'[e] = <<>> /\ rx_plain'[e] = <<>>
  BY <1>1, FailClosedType
<1>3. CallType' /\ pc'[e] = label /\ todo' = todo
  BY <1>1, GotoType
<1>4. EndpointInv(e)'
  BY <1>1, <1>2, <1>3 DEF EndpointInv, Handshaking
<1>5. ASSUME NEW d \in Endpoint, d # e PROVE EndpointInv(d)'
  <2>1. pc'[d] = pc[d]
    BY <1>1, <1>5, GotoType
  <2> QED
    BY <1>1, <1>3, <1>5, <2>1, FailClosedType, UntouchedInv DEF Untouched
<1> QED
  BY <1>2, <1>3, <1>4, <1>5

\* drive_handshake on a buffer within its bound preserves the invariant.
LEMMA DriveHandshakeInv ==
    ASSUME SessionInv, NEW e \in Endpoint, phase[e] \in Handshaking,
           NEW w \in Seq(Fragment), Len(w) <= RxCap, drive_handshake(e, w),
           NEW label \in PcLabels \ {"seal", "hs"}, Goto(e, label)
    PROVE  /\ FdType' /\ CallType' /\ LogType' /\ alerts' \in [Endpoint -> Nat]
           /\ \A d \in Endpoint : EndpointInv(d)'
<1>1. /\ FdType /\ CallType /\ LogType /\ RestType /\ \A d \in Endpoint : EndpointInv(d)
      /\ alerts \in [Endpoint -> Nat]
  BY TypeParts DEF SessionInv, RestType
<1> DEFINE sess == HandshakeResult(e, FirstFrame(w))
           reply == Reply(e, sess)
           accepted == sess # NoSession /\ Len(tx_backlog[e]) + Len(reply) <= TxCap
<1>2. CASE BadHeader(w)
  <2>1. fail_closed(e) /\ UNCHANGED <<alerts, sealed, established>>
    BY <1>2 DEF drive_handshake
  <2> QED
    BY <1>1, <2>1, FailGotoInv DEF LogType
<1>3. CASE ~BadHeader(w) /\ ~Complete(w)
  <2>1. /\ rx_wire' = [rx_wire EXCEPT ![e] = w]
        /\ UNCHANGED <<phase, tx, rx, tx_backlog, rx_plain, alerts, sealed, established>>
    BY <1>3 DEF drive_handshake
  <2>2. FdType' /\ LogType'
    BY <1>1, <2>1 DEF FdType, LogType
  <2>3. CallType' /\ pc'[e] = label /\ todo' = todo /\ \A d \in Endpoint : d # e => pc'[d] = pc[d]
    BY <1>1, GotoType
  <2>4. EndpointInv(e)'
    BY <1>1, <2>1, <2>3, SMTT(30) DEF EndpointInv
  <2>5. ASSUME NEW d \in Endpoint, d # e PROVE EndpointInv(d)'
    BY <1>1, <2>1, <2>3, <2>5, UntouchedInv DEF Untouched
  <2> QED
    BY <1>1, <2>1, <2>2, <2>3, <2>4, <2>5
<1>4. CASE ~BadHeader(w) /\ Complete(w) /\ accepted
  <2>1. /\ activate(e, sess) /\ SealConfirm(e, sess)
        /\ tx_backlog' = [tx_backlog EXCEPT ![e] = @ \o reply]
        /\ rx_wire' = [rx_wire EXCEPT ![e] = AfterFirst(w)]
        /\ rx_plain' = rx_plain /\ alerts' = alerts
    BY <1>4 DEF drive_handshake
  <2>2. \/ sess = PqcSession(cfg[e].suite)
        \/ \E h \in {"ok", "flipped"} : sess = PskSession(cfg[e].psk, h)
    BY <1>1, <1>4, HandshakeResultCases
  <2> HIDE DEF sess
  <2>3. cfg[e] \in Config
    BY <1>1 DEF RestType
  <2>4. sess \in SessionTerm
    BY <2>2, <2>3, SessionTermType
  <2>5. sess = PqcSession(cfg[e].suite) \/ sess.mode = "psk"
    BY <2>2, SMTT(30) DEF PskSession
  <2>6. reply \in Seq(Fragment)
    BY <1>1, <2>4, <2>5, ReplyType
  <2>7. Len(w) \in Nat /\ Len(w) >= 2
    BY <1>4, SMT DEF Complete
  <2>8. AfterFirst(w) \in Seq(Fragment) /\ Len(AfterFirst(w)) = Len(w) - 2
    <3>1. SubSeq(w, 2 + 1, Len(w)) \in Seq(Fragment) /\ Len(SubSeq(w, 2 + 1, Len(w))) = Len(w) - 2
      BY <2>7, DrainType
    <3>2. 2 + 1 = 3
      BY SMT
    <3> QED
      BY <3>1, <3>2 DEF AfterFirst
  <2>9. RxCap \in Nat
    BY BoundsAssumption
  <2>10. Len(AfterFirst(w)) <= RxCap
    BY <2>7, <2>8, <2>9, SMT
  <2>11. Len(tx_backlog[e]) + Len(reply) <= TxCap
    BY <1>4
  <2> HIDE DEF reply
  <2> QED
    BY <1>1, <2>1, <2>4, <2>6, <2>8, <2>10, <2>11, ActivateInv
<1>5. CASE ~BadHeader(w) /\ Complete(w) /\ ~accepted
  <2>1. /\ fail_closed(e)
        /\ alerts' = [alerts EXCEPT ![e] =
               IF sess = NoSession /\ IsDowngrade(e, FirstFrame(w)) THEN @ + 1 ELSE @]
        /\ UNCHANGED <<sealed, established>>
    BY <1>5 DEF drive_handshake
  <2> HIDE DEF sess
  <2>2. alerts' \in [Endpoint -> Nat]
    BY <1>1, <2>1, SMT
  <2> QED
    BY <1>1, <2>1, <2>2, FailGotoInv DEF LogType
<1> QED
  BY <1>2, <1>3, <1>4, <1>5

-----------------------------------------------------------------------------
(* Reading from the stream.                                                *)

\* Taking k fragments from the stream, k among the sizes recv(2) may return.
LEMMA PullType ==
    ASSUME SessionInv, NEW e \in Endpoint, NEW k \in PullSizes(e), Consume(e, k)
    PROVE  /\ Pulled(e, k) \in Seq(Fragment)
           /\ NetType' /\ eof' = eof
           /\ Len(net'[e]) <= Len(net[e])
           /\ \A d \in Endpoint : d # e => net'[d] = net[d]
<1>1. FdType /\ NetType
  BY TypeParts DEF SessionInv
<1>2. net[e] \in Seq(Fragment) /\ rx_wire[e] \in Seq(Fragment) /\ Len(net[e]) \in Nat
  BY <1>1, SMT DEF FdType, NetType
<1>3. PullMax \in Nat /\ SockCap \in Nat
  BY BoundsAssumption, SMTT(30)
<1>4. MinOf(PullMax, Len(net[e])) \in Nat /\ MinOf(PullMax, Len(net[e])) <= Len(net[e])
  BY <1>2, <1>3, MinOfBound
<1>5. k \in Nat \ {0} /\ k <= Len(net[e])
  BY <1>2, <1>4, SMT DEF PullSizes
<1>6. SubSeq(net[e], 1, k) \in Seq(Fragment)
  BY <1>2, <1>5, Piece, SMT
<1>7. Pulled(e, k) \in Seq(Fragment)
  BY <1>2, <1>6, ConcatProperties DEF Pulled
<1> DEFINE left == SubSeq(net[e], k + 1, Len(net[e]))
<1>8. left \in Seq(Fragment) /\ Len(left) = Len(net[e]) - k
  BY <1>2, <1>5, DrainType
<1>9. net' = [net EXCEPT ![e] = left] /\ eof' = eof
  BY <1>1 DEF Consume, NetType
<1> HIDE DEF left
<1>10. Len(left) <= Len(net[e]) /\ Len(net[e]) <= SockCap
  BY <1>1, <1>2, <1>5, <1>8, SMT DEF NetType
<1>11. Len(left) <= SockCap
  BY <1>2, <1>3, <1>5, <1>8, <1>10, SMT
<1>12. NetType'
  BY <1>1, <1>8, <1>9, <1>11 DEF NetType
<1> QED
  BY <1>1, <1>7, <1>9, <1>10, <1>12 DEF NetType

-----------------------------------------------------------------------------
(* Every action preserves the invariant.                                   *)

\* The parts put together again.
LEMMA PartsInv ==
    ASSUME FdType', NetType', CallType', RestType', LogType', \A d \in Endpoint : EndpointInv(d)'
    PROVE  SessionInv'
<1>1. TypeOK'
  BY DEF TypeOK, FdType, NetType, CallType, RestType, LogType
<1> QED
  BY <1>1 DEF SessionInv

\* A flush that does not fail.
LEMMA FlushInv ==
    ASSUME SessionInv, NEW e \in Endpoint, NEW next \in PcLabels, flush_backlog(e, next),
           UNCHANGED <<phase, tx, rx, rx_wire, rx_plain, sealed>>,
           pc[e] = "seal" <=> next = "seal",
           next = "hs" => phase[e] \in Handshaking
    PROVE  FdType' /\ NetType' /\ CallType' /\ \A d \in Endpoint : EndpointInv(d)'
<1>1. TypeOK /\ FdType /\ \A d \in Endpoint : EndpointInv(d)
  BY TypeParts DEF SessionInv
<1>2. NetType' /\ CallType'
  BY <1>1, FlushType DEF NetType, CallType
<1>3. FdType'
  <2>1. /\ tx_backlog' \in [Endpoint -> Seq(Fragment)]
        /\ \A d \in Endpoint : Len(tx_backlog'[d]) <= TxCap
    BY <1>1, FlushType
  <2> QED
    BY <1>1, <2>1 DEF FdType
<1>4. /\ pc'[e] \in {pc[e], next} /\ (next # "idle" => todo' = todo)
      /\ \A d \in Endpoint : d # e => pc'[d] = pc[d] /\ todo'[d] = todo[d]
      /\ \A d \in Endpoint : tx_backlog[d] = <<>> => tx_backlog'[d] = <<>>
  BY <1>1, FlushType
<1>5. EndpointInv(e)'
  BY <1>1, <1>4 DEF EndpointInv
<1>6. ASSUME NEW d \in Endpoint, d # e PROVE EndpointInv(d)'
  BY <1>1, <1>4, <1>6, UntouchedInv DEF Untouched
<1> QED
  BY <1>2, <1>3, <1>5, <1>6

\* What a failing flush put on the wire before.
LEMMA FlushFailsType ==
    ASSUME SessionInv, NEW e \in Endpoint, NEW k \in 0..TxCap, FlushFails(e, k)
    PROVE  NetType' /\ k \in Nat /\ k <= Len(tx_backlog[e]) /\ tx_backlog[e] # <<>>
<1>1. TypeOK /\ tx_backlog[e] \in Seq(Fragment) /\ Len(tx_backlog[e]) \in Nat
  <2>1. TypeOK /\ FdType
    BY TypeParts DEF SessionInv
  <2> QED
    BY <2>1, SMT DEF FdType
<1>2. k \in Nat /\ k <= Flushed(e) /\ Transmit(e, k) /\ k < Len(tx_backlog[e])
  BY BoundsAssumption, SMTT(30) DEF FlushFails
<1>3. NetType'
  BY <1>1, <1>2, TransmitType DEF NetType
<1> QED
  BY <1>1, <1>2, <1>3, SMT

-----------------------------------------------------------------------------
(* overlay_send and overlay_recv.                                          *)

\* The flush before the handshake loop preserves the invariant.
LEMMA SendFlushInv ==
    ASSUME SessionInv, NEW e \in Endpoint, SendFlush(e)
    PROVE  SessionInv'
<1>1. RestType /\ LogType
  BY TypeParts DEF SessionInv
<1>2. RestType' /\ LogType'
  BY <1>1 DEF SendFlush, history, RestType, LogType
<1>3. FdType' /\ NetType' /\ CallType' /\ \A d \in Endpoint : EndpointInv(d)'
  BY FlushInv DEF SendFlush, history, PcLabels
<1> QED
  BY <1>2, <1>3, PartsInv

\* A failing flush closes the session and preserves the invariant.
LEMMA SendFlushFailsInv ==
    ASSUME SessionInv, NEW e \in Endpoint, SendFlushFails(e)
    PROVE  SessionInv'
<1>1. RestType /\ LogType
  BY TypeParts DEF SessionInv
<1>2. RestType' /\ LogType'
  BY <1>1 DEF SendFlushFails, history, RestType, LogType
<1>3. PICK k \in 0..TxCap : FlushFails(e, k)
  BY DEF SendFlushFails
<1>4. NetType'
  BY <1>3, FlushFailsType
<1>5. FdType' /\ CallType' /\ \A d \in Endpoint : EndpointInv(d)'
  BY FailReturnInv DEF SendFlushFails, history
<1> QED
  BY <1>2, <1>4, <1>5, PartsInv

\* The flush of a hello preserves the invariant.
LEMMA DriveFlushInv ==
    ASSUME SessionInv, NEW e \in Endpoint, DriveFlush(e)
    PROVE  SessionInv'
<1>1. RestType /\ LogType
  BY TypeParts DEF SessionInv
<1>2. RestType' /\ LogType'
  BY <1>1 DEF DriveFlush, history, RestType, LogType
<1> DEFINE next == IF FlushedAll(e) THEN "drive" ELSE "idle"
<1>3. next \in {"drive", "idle"} /\ flush_backlog(e, next)
  BY DEF DriveFlush
<1> HIDE DEF next
<1>4. FdType' /\ NetType' /\ CallType' /\ \A d \in Endpoint : EndpointInv(d)'
  BY <1>3, FlushInv DEF DriveFlush, history, PcLabels
<1> QED
  BY <1>2, <1>4, PartsInv

\* The flush at the end of overlay_send preserves the invariant.
LEMMA FinalFlushInv ==
    ASSUME SessionInv, NEW e \in Endpoint, FinalFlush(e)
    PROVE  SessionInv'
<1>1. RestType /\ LogType
  BY TypeParts DEF SessionInv
<1>2. RestType' /\ LogType'
  BY <1>1 DEF FinalFlush, history, RestType, LogType
<1>3. FdType' /\ NetType' /\ CallType' /\ \A d \in Endpoint : EndpointInv(d)'
  BY FlushInv DEF FinalFlush, history, PcLabels
<1> QED
  BY <1>2, <1>3, PartsInv

\* The flushes of overlay_recv preserve the invariant, failing or not.
LEMMA RecvFlushInv ==
    ASSUME SessionInv, NEW e \in Endpoint, RecvFlush(e)
    PROVE  SessionInv'
<1>1. FdType /\ CallType /\ RestType /\ LogType /\ \A d \in Endpoint : EndpointInv(d)
  BY TypeParts DEF SessionInv
<1>2. /\ UNCHANGED <<phase, tx, rx, rx_wire, rx_plain, sealed>>
      /\ RestType' /\ LogType'
  BY <1>1 DEF RecvFlush, history, RestType, LogType
<1> DEFINE next == IF pc[e] = "recv" THEN "hs" ELSE "open"
<1>3. /\ next \in PcLabels /\ next # "seal" /\ pc[e] # "seal"
      /\ next = "hs" => phase[e] \in Handshaking
  BY DEF RecvFlush, PcLabels
<1>4. \/ flush_backlog(e, next)
      \/ \E k \in 0..TxCap :
             /\ FlushFails(e, k)
             /\ tx_backlog' = [tx_backlog EXCEPT ![e] = SubSeq(@, k + 1, Len(@))]
             /\ Goto(e, next)
  BY DEF RecvFlush
<1> HIDE DEF next
<1>5. CASE flush_backlog(e, next)
  <2>1. FdType' /\ NetType' /\ CallType' /\ \A d \in Endpoint : EndpointInv(d)'
    BY <1>2, <1>3, <1>5, FlushInv
  <2> QED
    BY <1>2, <2>1, PartsInv
<1>6. ASSUME NEW k \in 0..TxCap, FlushFails(e, k), Goto(e, next),
             tx_backlog' = [tx_backlog EXCEPT ![e] = SubSeq(@, k + 1, Len(@))]
      PROVE  SessionInv'
  <2>1. NetType' /\ k \in Nat /\ k <= Len(tx_backlog[e]) /\ tx_backlog[e] # <<>>
    BY <1>6, FlushFailsType
  <2>2. tx_backlog[e] \in Seq(Fragment) /\ Len(tx_backlog[e]) \in Nat /\ Len(tx_backlog[e]) <= TxCap
    BY <1>1, SMT DEF FdType
  <2> DEFINE left == SubSeq(tx_backlog[e], k + 1, Len(tx_backlog[e]))
  <2>3. left \in Seq(Fragment) /\ Len(left) = Len(tx_backlog[e]) - k
    BY <2>1, <2>2, DrainType
  <2>4. tx_backlog' = [tx_backlog EXCEPT ![e] = left]
    BY <1>6
  <2> HIDE DEF left
  <2>5. TxCap \in Nat
    BY BoundsAssumption
  <2>6. Len(left) <= TxCap
    BY <2>1, <2>2, <2>3, <2>5, SMT
  <2>7. FdType'
    BY <1>1, <1>2, <2>3, <2>4, <2>6 DEF FdType
  <2>8. CallType' /\ pc'[e] = next /\ todo' = todo /\ \A d \in Endpoint : d # e => pc'[d] = pc[d]
    BY <1>1, <1>3, <1>6, GotoType
  <2>9. phase[e] # "Failed"
    BY <1>1, <2>1 DEF EndpointInv
  <2>10. EndpointInv(e)'
    BY <1>1, <1>2, <1>3, <2>8, <2>9, SMTT(30) DEF EndpointInv
  <2>11. ASSUME NEW d \in Endpoint, d # e PROVE EndpointInv(d)'
    <3>1. tx_backlog'[d] = tx_backlog[d]
      BY <1>1, <2>4, <2>11 DEF FdType
    <3> QED
      BY <1>1, <1>2, <2>8, <2>11, <3>1, UntouchedInv DEF Untouched
  <2> QED
    BY <1>2, <2>1, <2>7, <2>8, <2>10, <2>11, PartsInv
<1> QED
  BY <1>4, <1>5, <1>6

\* A step that only moves a call on.
LEMMA GotoInv ==
    ASSUME SessionInv, NEW e \in Endpoint, NEW label \in PcLabels, Goto(e, label),
           label = "seal" => todo[e] > 0 /\ phase[e] = "Active",
           label = "hs" => phase[e] \in Handshaking,
           UNCHANGED <<phase, tx, tx_backlog, rx_plain, sealed>>
    PROVE  CallType' /\ \A d \in Endpoint : EndpointInv(d)'
<1>1. CallType /\ \A d \in Endpoint : EndpointInv(d)
  BY TypeParts DEF SessionInv
<1>2. CallType' /\ pc'[e] = label /\ todo' = todo /\ \A d \in Endpoint : d # e => pc'[d] = pc[d]
  BY <1>1, GotoType
<1>3. EndpointInv(e)'
  BY <1>1, <1>2 DEF EndpointInv
<1>4. ASSUME NEW d \in Endpoint, d # e PROVE EndpointInv(d)'
  BY <1>1, <1>2, <1>4, UntouchedInv DEF Untouched
<1> QED
  BY <1>2, <1>3, <1>4

\* A step that only ends a call, draining the plaintext perhaps.
LEMMA ReturnInv ==
    ASSUME SessionInv, NEW e \in Endpoint, Return(e),
           \A d \in Endpoint : rx_plain[d] = <<>> => rx_plain'[d] = <<>>,
           UNCHANGED <<phase, tx, tx_backlog, sealed>>
    PROVE  CallType' /\ \A d \in Endpoint : EndpointInv(d)'
<1>1. CallType /\ \A d \in Endpoint : EndpointInv(d)
  BY TypeParts DEF SessionInv
<1>2. /\ CallType' /\ pc'[e] = "idle"
      /\ \A d \in Endpoint : d # e => pc'[d] = pc[d] /\ todo'[d] = todo[d]
  BY <1>1, ReturnType
<1>3. EndpointInv(e)'
  BY <1>1, <1>2 DEF EndpointInv
<1>4. ASSUME NEW d \in Endpoint, d # e PROVE EndpointInv(d)'
  BY <1>1, <1>2, <1>4, UntouchedInv DEF Untouched
<1> QED
  BY <1>2, <1>3, <1>4

\* Leaving the handshake loop: only an Active session goes on to seal.
LEMMA DriveSettledInv ==
    ASSUME SessionInv, NEW e \in Endpoint, DriveSettled(e)
    PROVE  SessionInv'
<1>1. FdType /\ NetType /\ RestType /\ LogType
  BY TypeParts DEF SessionInv
<1>2. /\ FdType' /\ NetType' /\ RestType' /\ LogType'
      /\ UNCHANGED <<phase, tx, tx_backlog, rx_plain, sealed>>
  BY <1>1 DEF DriveSettled, fdstate, wire, history, FdType, NetType, RestType, LogType
<1>3. \/ phase[e] = "Active" /\ todo[e] > 0 /\ Goto(e, "seal")
      \/ Return(e)
  BY DEF DriveSettled
<1>4. CallType' /\ \A d \in Endpoint : EndpointInv(d)'
  BY <1>2, <1>3, GotoInv, ReturnInv DEF PcLabels
<1> QED
  BY <1>2, <1>4, PartsInv

\* Waiting for the peer in overlay_send preserves the invariant.
LEMMA DrivePullInv ==
    ASSUME SessionInv, NEW e \in Endpoint, DrivePull(e)
    PROVE  SessionInv'
<1>1. FdType /\ NetType /\ CallType /\ RestType /\ LogType
  BY TypeParts DEF SessionInv
<1>2. phase[e] \in Handshaking /\ UNCHANGED <<cfg, closed, faults, received>>
  BY DEF DrivePull
<1>3. ASSUME NEW k \in PullSizes(e), Len(Pulled(e, k)) <= RxCap,
             drive_handshake(e, Pulled(e, k)), Consume(e, k), Goto(e, "drive")
      PROVE  SessionInv'
  <2>1. Pulled(e, k) \in Seq(Fragment) /\ NetType' /\ eof' = eof
    BY <1>3, PullType
  <2>2. /\ FdType' /\ CallType' /\ LogType' /\ alerts' \in [Endpoint -> Nat]
        /\ \A d \in Endpoint : EndpointInv(d)'
    BY <1>2, <1>3, <2>1, DriveHandshakeInv DEF PcLabels
  <2>3. RestType'
    BY <1>1, <1>2, <2>1, <2>2 DEF RestType
  <2> QED
    BY <2>1, <2>2, <2>3, PartsInv
<1>4. ASSUME NEW k \in PullSizes(e), fail_closed(e), Consume(e, k), Return(e),
             UNCHANGED <<alerts, sealed, established>>
      PROVE  SessionInv'
  <2>1. NetType' /\ eof' = eof
    BY <1>4, PullType
  <2>2. FdType' /\ CallType' /\ \A d \in Endpoint : EndpointInv(d)'
    BY <1>4, FailReturnInv
  <2>3. RestType' /\ LogType'
    BY <1>1, <1>2, <1>4, <2>1 DEF RestType, LogType
  <2> QED
    BY <2>1, <2>2, <2>3, PartsInv
<1>5. ASSUME fail_closed(e), Return(e), UNCHANGED <<wire, alerts, sealed, established>>
      PROVE  SessionInv'
  <2>1. FdType' /\ CallType' /\ \A d \in Endpoint : EndpointInv(d)'
    BY <1>5, FailReturnInv
  <2>2. NetType' /\ RestType' /\ LogType'
    BY <1>1, <1>2, <1>5 DEF wire, NetType, RestType, LogType
  <2> QED
    BY <2>1, <2>2, PartsInv
<1>6. ASSUME Return(e), UNCHANGED <<fdstate, wire, alerts, sealed, established>>
      PROVE  SessionInv'
  <2>1. FdType' /\ NetType' /\ RestType' /\ LogType'
    BY <1>1, <1>2, <1>6 DEF fdstate, wire, FdType, NetType, RestType, LogType
  <2>2. CallType' /\ \A d \in Endpoint : EndpointInv(d)'
    BY <1>6, ReturnInv DEF fdstate
  <2> QED
    BY <2>1, <2>2, PartsInv
<1> QED
  BY <1>3, <1>4, <1>5, <1>6 DEF DrivePull

\* The record that the sealing loop makes, and its frame.
LEMMA SealNextType ==
    ASSUME SessionInv, NEW e \in Endpoint
    PROVE  SealNext(e) \in SealedRecord /\ DataFrame(e) \in Frame
<1>1. FdType /\ RestType /\ LogType
  BY TypeParts DEF SessionInv
<1>2. tx[e].key \in Key /\ tx[e].counter \in Nat
  BY <1>1, BoundsAssumption, SMT DEF FdType
<1>3. Len(sealed[e]) \in Nat
  BY <1>1, SMT DEF LogType
<1>4. Sent(e) + 1 \in Nat
  BY <1>3, SMT DEF Sent
<1>5. cfg[e].suite \in WireId
  BY <1>1 DEF RestType, Config, WireId
<1> QED
  BY <1>2, <1>4, <1>5, FrameType DEF SealNext, SealedRecord, DataFrame, Tag

\* Appending that record keeps the numbering of nonces.
LEMMA SealedGrows ==
    ASSUME SessionInv, NEW e \in Endpoint, phase[e] = "Active",
           sealed' = [sealed EXCEPT ![e] = Append(@, SealNext(e))]
    PROVE  /\ sealed' \in [Endpoint -> Seq(SealedRecord)]
           /\ Len(sealed'[e]) = Len(sealed[e]) + 1
           /\ \A i \in 1..Len(sealed'[e]) : sealed'[e][i].nonce = i - 1 /\ sealed'[e][i].key.by = e
           /\ \A d \in Endpoint : d # e => sealed'[d] = sealed[d]
<1>1. LogType /\ EndpointInv(e) /\ SealNext(e) \in SealedRecord
  BY TypeParts, SealNextType DEF SessionInv
<1>2. sealed \in [Endpoint -> Seq(SealedRecord)] /\ sealed[e] \in Seq(SealedRecord)
  BY <1>1 DEF LogType
<1>3. /\ SealNext(e).nonce = Len(sealed[e]) /\ SealNext(e).key.by = e
      /\ \A i \in 1..Len(sealed[e]) : sealed[e][i].nonce = i - 1 /\ sealed[e][i].key.by = e
  BY <1>1 DEF EndpointInv, SealNext
<1>4. sealed'[e] = Append(sealed[e], SealNext(e))
  BY <1>2
<1>5. /\ sealed'[e] \in Seq(SealedRecord) /\ Len(sealed'[e]) = Len(sealed[e]) + 1
      /\ \A i \in 1..Len(sealed[e]) : sealed'[e][i] = sealed[e][i]
      /\ sealed'[e][Len(sealed[e]) + 1] = SealNext(e)
  BY <1>1, <1>2, <1>4, AppendProperties, SMTT(30)
<1>6. sealed' \in [Endpoint -> Seq(SealedRecord)]
  BY <1>2, <1>5
<1>7. Len(sealed[e]) \in Nat
  BY <1>2, SMTT(30)
<1>8. ASSUME NEW i \in 1..Len(sealed'[e])
      PROVE  sealed'[e][i].nonce = i - 1 /\ sealed'[e][i].key.by = e
  <2>1. CASE i = Len(sealed[e]) + 1
    BY <2>1, <1>3, <1>5, <1>7, SMTT(30)
  <2>2. CASE i # Len(sealed[e]) + 1
    <3>1. i \in 1..Len(sealed[e])
      BY <2>2, <1>5, <1>7, SMTT(30)
    <3> QED
      BY <3>1, <1>3, <1>5
  <2> QED
    BY <2>1, <2>2
<1> QED
  BY <1>2, <1>5, <1>6, <1>8

\* Sealing a record moves the counter and the log together.
LEMMA SealRecordInv ==
    ASSUME SessionInv, NEW e \in Endpoint, SealRecord(e)
    PROVE  SessionInv'
<1>1. FdType /\ NetType /\ CallType /\ RestType /\ LogType /\ \A d \in Endpoint : EndpointInv(d)
  BY TypeParts DEF SessionInv
<1>2. /\ pc[e] = "seal" /\ phase[e] = "Active" /\ todo[e] > 0
      /\ tx[e].counter = Len(sealed[e]) /\ tx[e].key.by = e
  BY <1>1 DEF SealRecord, EndpointInv
<1>3. NetType' /\ RestType' /\ UNCHANGED <<phase, rx, rx_wire, rx_plain, established>>
  BY <1>1 DEF SealRecord, wire, NetType, RestType
<1>4. /\ sealed' \in [Endpoint -> Seq(SealedRecord)]
      /\ Len(sealed'[e]) = Len(sealed[e]) + 1
      /\ \A i \in 1..Len(sealed'[e]) : sealed'[e][i].nonce = i - 1 /\ sealed'[e][i].key.by = e
      /\ \A d \in Endpoint : d # e => sealed'[d] = sealed[d]
  BY <1>2, SealedGrows DEF SealRecord, Seal
<1>5. LogType'
  BY <1>1, <1>3, <1>4 DEF LogType
<1>6. /\ tx' \in [Endpoint -> [key : Key, counter : 0..MaxCounter]]
      /\ tx'[e].counter = tx[e].counter + 1 /\ tx'[e].key = tx[e].key
      /\ \A d \in Endpoint : d # e => tx'[d] = tx[d]
  <2>1. tx' = [tx EXCEPT ![e].counter = @ + 1] /\ tx[e].counter # MaxCounter
    BY DEF SealRecord, Seal, Exhausted
  <2>2. tx \in [Endpoint -> [key : Key, counter : 0..MaxCounter]] /\ MaxCounter \in Nat
    BY <1>1, BoundsAssumption DEF FdType
  <2>3. tx[e].counter + 1 \in 0..MaxCounter
    BY <2>1, <2>2, SMT
  <2> QED
    BY <2>1, <2>2, <2>3
<1>7. /\ tx_backlog' \in [Endpoint -> Seq(Fragment)]
      /\ \A d \in Endpoint : Len(tx_backlog'[d]) <= TxCap
      /\ \A d \in Endpoint : d # e => tx_backlog'[d] = tx_backlog[d]
  <2> DEFINE b == tx_backlog[e] \o Fragments(DataFrame(e))
  <2>1. tx_backlog[e] \in Seq(Fragment) /\ Len(tx_backlog[e]) + 2 <= TxCap
    BY <1>1 DEF FdType, SealRecord
  <2>2. Fragments(DataFrame(e)) \in Seq(Fragment) /\ Len(Fragments(DataFrame(e))) = 2
    BY SealNextType, FragmentsType
  <2>3. b \in Seq(Fragment) /\ Len(b) = Len(tx_backlog[e]) + 2
    <3>1. \A s, t \in Seq(Fragment) : s \o t \in Seq(Fragment) /\ Len(s \o t) = Len(s) + Len(t)
      BY ConcatProperties
    <3> QED
      BY <2>1, <2>2, <3>1
  <2>4. tx_backlog' = [tx_backlog EXCEPT ![e] = b]
    BY DEF SealRecord
  <2> HIDE DEF b
  <2>5. Len(b) <= TxCap
    BY <2>1, <2>3
  <2> QED
    BY <1>1, <2>3, <2>4, <2>5 DEF FdType
<1>8. FdType'
  BY <1>1, <1>3, <1>6, <1>7 DEF FdType
<1>9. /\ CallType' /\ (pc'[e] = "seal" => todo'[e] > 0) /\ pc'[e] \in {"seal", "final"}
      /\ \A d \in Endpoint : d # e => pc'[d] = pc[d] /\ todo'[d] = todo[d]
  <2>1. /\ todo' = [todo EXCEPT ![e] = @ - 1]
        /\ pc' = [pc EXCEPT ![e] = IF todo[e] = 1 THEN "final" ELSE "seal"]
    BY DEF SealRecord
  <2>2. todo[e] \in Nat /\ todo[e] - 1 \in 0..MaxChunks /\ (todo[e] # 1 => todo[e] - 1 > 0)
    BY <1>1, <1>2, BoundsAssumption, SMTT(30) DEF CallType
  <2> QED
    BY <1>1, <2>1, <2>2 DEF CallType, PcLabels
<1>10. EndpointInv(e)'
  BY <1>2, <1>3, <1>4, <1>6, <1>9 DEF EndpointInv, Handshaking
<1>11. ASSUME NEW d \in Endpoint, d # e PROVE EndpointInv(d)'
  BY <1>1, <1>3, <1>4, <1>6, <1>7, <1>9, <1>11, UntouchedInv DEF Untouched
<1> QED
  BY <1>3, <1>5, <1>8, <1>9, <1>10, <1>11, PartsInv

\* A used-up counter closes the session.
LEMMA SealExhaustedInv ==
    ASSUME SessionInv, NEW e \in Endpoint, SealExhausted(e)
    PROVE  SessionInv'
<1>1. NetType /\ RestType /\ LogType
  BY TypeParts DEF SessionInv
<1>2. NetType' /\ RestType' /\ LogType'
  BY <1>1 DEF SealExhausted, wire, history, NetType, RestType, LogType
<1>3. FdType' /\ CallType' /\ \A d \in Endpoint : EndpointInv(d)'
  BY FailReturnInv DEF SealExhausted, history
<1> QED
  BY <1>2, <1>3, PartsInv

\* append_or_flush: the record that does not fit is sealed, then wiped.
LEMMA MakeRoomInv ==
    ASSUME SessionInv, NEW e \in Endpoint, MakeRoom(e)
    PROVE  SessionInv'
<1>1. TypeOK /\ FdType /\ CallType /\ RestType /\ LogType /\ \A d \in Endpoint : EndpointInv(d)
  BY TypeParts DEF SessionInv
<1>2. pc[e] = "seal" /\ phase[e] = "Active" /\ RestType' /\ established' = established
  BY <1>1 DEF MakeRoom, EndpointInv, RestType
<1>3. CASE flush_backlog(e, "seal") /\ UNCHANGED <<phase, tx, rx, rx_wire, rx_plain, sealed>>
  <2>1. FdType' /\ NetType' /\ CallType' /\ \A d \in Endpoint : EndpointInv(d)'
    BY <1>2, <1>3, FlushInv DEF PcLabels
  <2>2. LogType'
    BY <1>1, <1>2, <1>3 DEF LogType
  <2> QED
    BY <1>2, <2>1, <2>2, PartsInv
<1>4. ASSUME Transmit(e, Flushed(e)) \/ \E k \in 0..TxCap : FlushFails(e, k),
             fail_closed(e), Return(e),
             sealed' = [sealed EXCEPT ![e] = Append(@, SealNext(e))]
      PROVE  SessionInv'
  <2>1. NetType'
    <3>1. CASE Transmit(e, Flushed(e))
      BY <1>1, <3>1, FlushedBound, TransmitType, SMTT(30) DEF NetType
    <3>2. CASE \E k \in 0..TxCap : FlushFails(e, k)
      BY <3>2, FlushFailsType, SMTT(30)
    <3> QED
      BY <1>4, <3>1, <3>2
  <2>2. /\ sealed' \in [Endpoint -> Seq(SealedRecord)]
        /\ \A i \in 1..Len(sealed'[e]) : sealed'[e][i].nonce = i - 1 /\ sealed'[e][i].key.by = e
        /\ \A d \in Endpoint : d # e => sealed'[d] = sealed[d]
    BY <1>2, <1>4, SealedGrows
  <2>3. LogType'
    BY <1>1, <1>2, <2>2 DEF LogType
  <2>4. /\ FdType'
        /\ phase'[e] = "Failed" /\ tx_backlog'[e] = <<>> /\ rx_plain'[e] = <<>>
        /\ \A d \in Endpoint : d # e =>
              /\ phase'[d] = phase[d] /\ tx'[d] = tx[d]
              /\ tx_backlog'[d] = tx_backlog[d] /\ rx_plain'[d] = rx_plain[d]
    BY <1>1, <1>4, FailClosedType
  <2>5. /\ CallType' /\ pc'[e] = "idle"
        /\ \A d \in Endpoint : d # e => pc'[d] = pc[d] /\ todo'[d] = todo[d]
    BY <1>1, <1>4, ReturnType
  <2>6. EndpointInv(e)'
    BY <2>2, <2>4, <2>5 DEF EndpointInv, Handshaking
  <2>7. ASSUME NEW d \in Endpoint, d # e PROVE EndpointInv(d)'
    BY <1>1, <2>2, <2>4, <2>5, <2>7, UntouchedInv DEF Untouched
  <2> QED
    BY <1>2, <2>1, <2>3, <2>4, <2>5, <2>6, <2>7, PartsInv
<1> QED
  BY <1>3, <1>4 DEF MakeRoom

\* Copying plaintext to the application preserves the invariant.
LEMMA DeliverInv ==
    ASSUME SessionInv, NEW e \in Endpoint, Deliver(e)
    PROVE  SessionInv'
<1>1. FdType /\ NetType /\ RestType /\ LogType
  BY TypeParts DEF SessionInv
<1>2. PICK n \in 1..Len(rx_plain[e]) :
          /\ received' = [received EXCEPT ![e] = @ \o SubSeq(rx_plain[e], 1, n)]
          /\ rx_plain' = [rx_plain EXCEPT ![e] = SubSeq(@, n + 1, Len(@))]
  BY DEF Deliver
<1>3. /\ rx_plain[e] \in Seq(Nat) /\ Len(rx_plain[e]) \in Nat /\ Len(rx_plain[e]) <= PlainCap
      /\ rx_plain[e] # <<>> /\ n \in Nat /\ 1 <= n /\ n <= Len(rx_plain[e]) /\ PlainCap \in Nat
  BY <1>1, BoundsAssumption, SMT DEF FdType, Deliver
<1> DEFINE left == SubSeq(rx_plain[e], n + 1, Len(rx_plain[e]))
<1>4. left \in Seq(Nat) /\ Len(left) = Len(rx_plain[e]) - n
  <2>1. /\ left \in Seq(Nat)
        /\ Len(left) = Len(rx_plain[e]) - (n + 1) + 1
    BY <1>3, Piece, SMTT(30)
  <2> HIDE DEF left
  <2> QED
    BY <1>3, <2>1, SMT
<1>5. SubSeq(rx_plain[e], 1, n) \in Seq(Nat)
  BY <1>3, Piece, SMT
<1>6. received' \in [Endpoint -> Seq(Nat)]
  <2>1. received \in [Endpoint -> Seq(Nat)]
    BY <1>1 DEF RestType
  <2>2. received[e] \o SubSeq(rx_plain[e], 1, n) \in Seq(Nat)
    BY <1>5, <2>1, ConcatProperties
  <2> QED
    BY <1>2, <2>1, <2>2
<1>7. rx_plain' = [rx_plain EXCEPT ![e] = left]
  BY <1>2
<1> HIDE DEF left
<1>8. Len(left) <= PlainCap
  BY <1>3, <1>4, SMT
<1>9. UNCHANGED <<phase, tx, rx, tx_backlog, rx_wire, sealed>> /\ Return(e)
  BY DEF Deliver
<1>10. FdType'
  BY <1>1, <1>4, <1>7, <1>8, <1>9 DEF FdType
<1>11. NetType' /\ RestType' /\ LogType'
  BY <1>1, <1>6 DEF Deliver, wire, NetType, RestType, LogType
<1>12. \A d \in Endpoint : rx_plain[d] = <<>> => rx_plain'[d] = <<>>
  BY <1>1, <1>3, <1>7 DEF FdType
<1>13. CallType' /\ \A d \in Endpoint : EndpointInv(d)'
  BY <1>9, <1>12, ReturnInv
<1> QED
  BY <1>10, <1>11, <1>13, PartsInv, SMTT(30)

\* The handshake inside overlay_recv preserves the invariant.
LEMMA RecvHandshakeInv ==
    ASSUME SessionInv, NEW e \in Endpoint, RecvHandshake(e)
    PROVE  SessionInv'
<1>1. FdType /\ NetType /\ RestType /\ EndpointInv(e)
  BY TypeParts DEF SessionInv
<1>2. phase[e] \in Handshaking
  BY <1>1 DEF RecvHandshake, EndpointInv
<1>3. rx_wire[e] \in Seq(Fragment) /\ Len(rx_wire[e]) <= RxCap
  BY <1>1 DEF FdType
<1>4. /\ FdType' /\ CallType' /\ LogType' /\ alerts' \in [Endpoint -> Nat]
      /\ \A d \in Endpoint : EndpointInv(d)'
  BY <1>2, <1>3, DriveHandshakeInv DEF RecvHandshake, PcLabels
<1>5. NetType' /\ RestType'
  BY <1>1, <1>4 DEF RecvHandshake, wire, NetType, RestType
<1> QED
  BY <1>4, <1>5, PartsInv

\* The records a full rx_wire holds.
LEMMA RecordsBound ==
    ASSUME NEW n \in Nat
    PROVE  n \div 2 \in Nat /\ 2 * (n \div 2) <= n
BY SMT

\* Opening every complete frame keeps the receive counter below its limit: it
\* never steps over MaxCounter, because no record opens there.
LEMMA OpenType ==
    ASSUME SessionInv, NEW e \in Endpoint, phase[e] = "Active", AllOpen(e),
           rx' = [rx EXCEPT ![e].counter = @ + Records(e)],
           rx_plain' = [rx_plain EXCEPT ![e] =
               [i \in 1..Records(e) |-> FrameAt(rx_wire[e], i).pt]],
           rx_wire' = [rx_wire EXCEPT ![e] = SubSeq(@, 2 * Records(e) + 1, Len(@))],
           UNCHANGED <<phase, tx, tx_backlog>>
    PROVE  FdType'
<1>1. FdType
  BY TypeParts DEF SessionInv
<1>2. /\ rx_wire[e] \in Seq(Fragment) /\ Len(rx_wire[e]) \in Nat /\ Len(rx_wire[e]) <= RxCap
      /\ rx[e].counter \in 0..MaxCounter /\ rx \in [Endpoint -> [key : Key, counter : 0..MaxCounter]]
  BY <1>1, SMT DEF FdType
<1> DEFINE n == Records(e)
<1>3. n \in Nat /\ 2 * n <= Len(rx_wire[e])
  BY <1>2, RecordsBound DEF Records
<1>4. n <= PlainCap /\ \A i \in 1..n : rx[e].counter + i - 1 # MaxCounter
  BY DEF AllOpen, Opens
<1> HIDE DEF n
<1>5. MaxCounter \in Nat /\ RxCap \in Nat /\ PlainCap \in Nat
  BY BoundsAssumption
<1>6. rx[e].counter + n \in 0..MaxCounter
  <2>1. SUFFICES ASSUME rx[e].counter + n > MaxCounter PROVE FALSE
    BY <1>2, <1>3, <1>5, SMT
  <2> DEFINE i == MaxCounter - rx[e].counter + 1
  <2>2. i \in 1..n /\ rx[e].counter + i - 1 = MaxCounter
    BY <1>2, <1>3, <1>5, <2>1, SMT
  <2> QED
    BY <1>4, <2>2
<1>7. rx' \in [Endpoint -> [key : Key, counter : 0..MaxCounter]]
  <2>1. rx' = [rx EXCEPT ![e].counter = rx[e].counter + n]
    BY DEF n
  <2> QED
    BY <1>2, <1>6, <2>1
<1> DEFINE opened == [i \in 1..n |-> FrameAt(rx_wire[e], i).pt]
<1>8. opened \in Seq(Nat) /\ Len(opened) = n
  <2>1. ASSUME NEW i \in 1..n PROVE FrameAt(rx_wire[e], i) \in Frame
    <3>1. i \in Nat \ {0} /\ 2 * i - 1 <= Len(rx_wire[e])
      BY <1>2, <1>3, SMT
    <3> QED
      BY <1>2, <3>1, FrameAtType
  <2>2. \A i \in 1..n : FrameAt(rx_wire[e], i).pt \in Nat
    BY <2>1 DEF Frame
  <2> QED
    BY <1>3, <2>2, SMT
<1>9. rx_plain' = [rx_plain EXCEPT ![e] = opened]
  BY DEF n
<1> DEFINE left == SubSeq(rx_wire[e], 2 * n + 1, Len(rx_wire[e]))
<1>10. left \in Seq(Fragment) /\ Len(left) = Len(rx_wire[e]) - 2 * n
  <2>1. 2 * n \in Nat
    BY <1>3, SMT
  <2> QED
    BY <1>2, <1>3, <2>1, DrainType
<1>11. rx_wire' = [rx_wire EXCEPT ![e] = left]
  BY DEF n
<1> HIDE DEF opened, left
<1>12. Len(left) <= RxCap
  BY <1>2, <1>3, <1>5, <1>10, SMT
<1>13. /\ rx_plain' \in [Endpoint -> Seq(Nat)]
       /\ \A d \in Endpoint : Len(rx_plain'[d]) <= PlainCap
  BY <1>1, <1>4, <1>8, <1>9 DEF FdType
<1>14. /\ rx_wire' \in [Endpoint -> Seq(Fragment)]
       /\ \A d \in Endpoint : Len(rx_wire'[d]) <= RxCap
  BY <1>1, <1>10, <1>11, <1>12 DEF FdType
<1> QED
  BY <1>1, <1>7, <1>13, <1>14 DEF FdType

\* Opening records preserves the invariant.
LEMMA RecvOpenInv ==
    ASSUME SessionInv, NEW e \in Endpoint, RecvOpen(e)
    PROVE  SessionInv'
<1>1. FdType /\ NetType /\ CallType /\ RestType /\ LogType /\ \A d \in Endpoint : EndpointInv(d)
  BY TypeParts DEF SessionInv
<1>2. NetType' /\ RestType' /\ LogType' /\ sealed' = sealed
  BY <1>1 DEF RecvOpen, wire, history, NetType, RestType, LogType
<1> DEFINE label == IF Records(e) > 0 THEN "recv" ELSE "pull"
<1>3. ASSUME phase[e] = "Active", AllOpen(e),
             rx' = [rx EXCEPT ![e].counter = @ + Records(e)],
             rx_plain' = [rx_plain EXCEPT ![e] =
                 [i \in 1..Records(e) |-> FrameAt(rx_wire[e], i).pt]],
             rx_wire' = [rx_wire EXCEPT ![e] = SubSeq(@, 2 * Records(e) + 1, Len(@))],
             Goto(e, label), UNCHANGED <<phase, tx, tx_backlog>>
      PROVE  SessionInv'
  <2>1. FdType'
    BY <1>3, OpenType
  <2>2. label \in {"recv", "pull"}
    OBVIOUS
  <2> HIDE DEF label
  <2>3. CallType' /\ pc'[e] = label /\ todo' = todo /\ \A d \in Endpoint : d # e => pc'[d] = pc[d]
    BY <1>1, <1>3, <2>2, GotoType DEF PcLabels
  <2>4. EndpointInv(e)'
    BY <1>1, <1>2, <1>3, <2>2, <2>3 DEF EndpointInv
  <2>5. ASSUME NEW d \in Endpoint, d # e PROVE EndpointInv(d)'
    <3>1. rx_plain'[d] = rx_plain[d]
      BY <1>1, <1>3, <2>5 DEF FdType
    <3> QED
      BY <1>1, <1>2, <1>3, <2>3, <2>5, <3>1, UntouchedInv DEF Untouched
  <2> QED
    BY <1>2, <2>1, <2>3, <2>4, <2>5, PartsInv, SMTT(30)
<1>4. ASSUME fail_closed(e), Return(e) PROVE SessionInv'
  <2>1. FdType' /\ CallType' /\ \A d \in Endpoint : EndpointInv(d)'
    BY <1>2, <1>4, FailReturnInv
  <2> QED
    BY <1>2, <2>1, PartsInv
<1>5. ASSUME Return(e) \/ Goto(e, "pull"), UNCHANGED fdstate PROVE SessionInv'
  <2>1. FdType' /\ UNCHANGED <<phase, tx, tx_backlog, rx_plain, sealed>>
    BY <1>1, <1>2, <1>5 DEF fdstate, FdType
  <2>2. CallType' /\ \A d \in Endpoint : EndpointInv(d)'
    BY <1>5, <2>1, ReturnInv, GotoInv DEF PcLabels
  <2> QED
    BY <1>2, <2>1, <2>2, PartsInv
<1> QED
  BY <1>3, <1>4, <1>5 DEF RecvOpen

\* Pulling bytes in overlay_recv preserves the invariant.
LEMMA RecvPullInv ==
    ASSUME SessionInv, NEW e \in Endpoint, RecvPull(e)
    PROVE  SessionInv'
<1>1. FdType /\ NetType /\ RestType /\ LogType
  BY TypeParts DEF SessionInv
<1>2. UNCHANGED <<cfg, closed, alerts, faults, history>> /\ sealed' = sealed /\ LogType'
  BY <1>1 DEF RecvPull, history, LogType
<1>3. ASSUME NEW k \in PullSizes(e), Len(Pulled(e, k)) <= RxCap,
             rx_wire' = [rx_wire EXCEPT ![e] = Pulled(e, k)], Consume(e, k), Goto(e, "recv"),
             UNCHANGED <<phase, tx, rx, tx_backlog, rx_plain>>
      PROVE  SessionInv'
  <2>1. Pulled(e, k) \in Seq(Fragment) /\ NetType' /\ eof' = eof
    BY <1>3, PullType
  <2>2. FdType' /\ RestType'
    BY <1>1, <1>2, <1>3, <2>1 DEF FdType, RestType, history
  <2>3. CallType' /\ \A d \in Endpoint : EndpointInv(d)'
    BY <1>2, <1>3, GotoInv DEF PcLabels
  <2> QED
    BY <1>2, <2>1, <2>2, <2>3, PartsInv
<1>4. ASSUME NEW k \in PullSizes(e), fail_closed(e), Consume(e, k), Return(e)
      PROVE  SessionInv'
  <2>1. NetType' /\ eof' = eof
    BY <1>4, PullType
  <2>2. FdType' /\ CallType' /\ \A d \in Endpoint : EndpointInv(d)'
    BY <1>2, <1>4, FailReturnInv
  <2>3. RestType'
    BY <1>1, <1>2, <2>1 DEF RestType, history
  <2> QED
    BY <1>2, <2>1, <2>2, <2>3, PartsInv
<1>5. ASSUME Return(e), UNCHANGED <<fdstate, wire>> PROVE SessionInv'
  <2>1. FdType' /\ NetType' /\ RestType'
    BY <1>1, <1>2, <1>5 DEF fdstate, wire, history, FdType, NetType, RestType
  <2>2. CallType' /\ \A d \in Endpoint : EndpointInv(d)'
    BY <1>2, <1>5, ReturnInv DEF fdstate
  <2> QED
    BY <1>2, <2>1, <2>2, PartsInv
<1> QED
  BY <1>3, <1>4, <1>5 DEF RecvPull

=============================================================================
