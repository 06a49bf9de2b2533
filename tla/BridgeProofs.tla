---------------------------- MODULE BridgeProofs ----------------------------
(***************************************************************************)
(* What the two tasks of a connection, kernel TLS and the network keep,    *)
(* for any suites and any bounds: types, agreement, and the tally of what  *)
(* was written and read.  DaemonProofs draws the consequences for the      *)
(* daemon, which adds the hand-over of the socket.                         *)
(***************************************************************************)
EXTENDS Bridge, SequenceTheorems, TLAPS

\* The leaves are logic and sets: Zenon proves them unless one names SMT.
USE ZenonT(20)

-----------------------------------------------------------------------------
(* The wire.                                                               *)

Msg == Hello \cup Record

\* The two ends.
LEMMA PeerFacts ==
    ASSUME NEW e \in End
    PROVE  /\ Peer(e) \in End /\ Peer(e) # e /\ Peer(Peer(e)) = e
           /\ \A d \in End : d = e \/ d = Peer(e)
BY DEF End, Peer

\* A message is a part of a hello or a record, and never both.
LEMMA MsgParts ==
    ASSUME NEW m \in Msg
    PROVE  /\ m.part # "record" => m \in Hello /\ m.suite \in Suite /\ m.ok \in BOOLEAN
           /\ m.part = "record" => m \in Record
BY DEF Msg, Hello, Record

NetType == net \in [End -> Seq(Msg)]

\* What an end puts on the wire is added behind what is under way to its peer,
\* unless the connection is broken.
LEMMA PutNet ==
    ASSUME NetType, NEW e \in End, NEW m \in Msg, Put(e, m)
    PROVE  /\ NetType' /\ net'[e] = net[e]
           /\ \/ net'[Peer(e)] = net[Peer(e)]
              \/ net'[Peer(e)] = Append(net[Peer(e)], m)
<1>1. Peer(e) \in End /\ Peer(e) # e
  BY PeerFacts
<1>2. net[Peer(e)] \in Seq(Msg) /\ Append(net[Peer(e)], m) \in Seq(Msg)
  BY <1>1, AppendProperties DEF NetType
<1> DEFINE x == IF eof[Peer(e)] THEN net[Peer(e)] ELSE Append(net[Peer(e)], m)
<1>3. net' = [net EXCEPT ![Peer(e)] = x]
  BY DEF Put
<1>4. x \in Seq(Msg) /\ (x = net[Peer(e)] \/ x = Append(net[Peer(e)], m))
  BY <1>2
<1> HIDE DEF x
<1> QED
  BY <1>1, <1>3, <1>4 DEF NetType

\* The first item of a sequence, and the others.
LEMMA FirstItem ==
    ASSUME NEW s \in Seq(Msg), s # <<>>
    PROVE  /\ Head(s) \in Msg /\ Tail(s) \in Seq(Msg) /\ Head(s) = s[1]
           /\ Len(s) \in Nat \ {0} /\ Len(Tail(s)) = Len(s) - 1
           /\ \A i \in 1..Len(Tail(s)) : Tail(s)[i] = s[i + 1]
<1>1. Len(s) \in Nat \ {0}
  BY EmptySeq
<1>2. Head(s) = s[1]
  BY <1>1, SMT
<1> QED
  BY <1>1, <1>2, HeadTailProperties

\* A read takes the first item.
LEMMA TailNet ==
    ASSUME NetType, NEW e \in End, net[e] # <<>>, net' = [net EXCEPT ![e] = Tail(@)]
    PROVE  /\ NetType' /\ Head(net[e]) \in Msg /\ Head(net[e]) = net[e][1] /\ 1 \in 1..Len(net[e])
           /\ \A d \in End : d # e => net'[d] = net[d]
           /\ net'[e] = Tail(net[e]) /\ Len(net'[e]) = Len(net[e]) - 1
           /\ \A i \in 1..Len(net'[e]) : i + 1 \in 1..Len(net[e]) /\ net'[e][i] = net[e][i + 1]
<1>1. net[e] \in Seq(Msg)
  BY DEF NetType
<1>2. /\ Head(net[e]) \in Msg /\ Tail(net[e]) \in Seq(Msg) /\ Head(net[e]) = net[e][1]
      /\ Len(net[e]) \in Nat \ {0} /\ Len(Tail(net[e])) = Len(net[e]) - 1
      /\ \A i \in 1..Len(Tail(net[e])) : Tail(net[e])[i] = net[e][i + 1]
  BY <1>1, FirstItem
<1>3. NetType' /\ net'[e] = Tail(net[e]) /\ \A d \in End : d # e => net'[d] = net[d]
  BY <1>2 DEF NetType
<1> DEFINE s == net[e]
           t == net'[e]
<1>4. /\ Len(s) \in Nat \ {0} /\ Len(t) = Len(s) - 1
      /\ \A i \in 1..Len(t) : t[i] = s[i + 1]
  BY <1>2, <1>3
<1> HIDE DEF s, t
<1>5. /\ 1 \in 1..Len(s)
      /\ \A i \in 1..Len(t) : i + 1 \in 1..Len(s) /\ t[i] = s[i + 1]
  BY <1>4, SMT
<1>6. /\ 1 \in 1..Len(net[e]) /\ Len(net'[e]) = Len(net[e]) - 1
      /\ \A i \in 1..Len(net'[e]) : i + 1 \in 1..Len(net[e]) /\ net'[e][i] = net[e][i + 1]
  BY <1>4, <1>5 DEF s, t
<1> QED
  BY <1>2, <1>3, <1>6

\* Damage changes the contents of one item and neither its part nor its suite.
LEMMA DamageNet ==
    ASSUME NetType, NEW e \in End, Damage(e)
    PROVE  /\ NetType'
           /\ \A d \in End : /\ Len(net'[d]) = Len(net[d])
                             /\ \A i \in 1..Len(net[d]) :
                                   /\ net'[d][i].part = net[d][i].part
                                   /\ net[d][i].part # "record" => net'[d][i].suite = net[d][i].suite
<1>0. \A d \in End : net[d] \in Seq(Msg) /\ DOMAIN net[d] = 1..Len(net[d]) /\ Len(net[d]) \in Nat
  BY LenProperties DEF NetType
<1>1. PICK i \in 1..Len(net[e]) : net' = [net EXCEPT ![e][i] = Altered(net[e][i])]
  BY <1>0 DEF Damage
<1>2. net[e][i] \in Msg
  BY <1>0, ElementOfSeq
<1>3. /\ Altered(net[e][i]) \in Msg /\ Altered(net[e][i]).part = net[e][i].part
      /\ net[e][i].part # "record" => Altered(net[e][i]).suite = net[e][i].suite
  <2>1. CASE net[e][i].part = "record"
    <3>1. net[e][i] \in Record
      BY <1>2, <2>1, MsgParts
    <3>2. [net[e][i] EXCEPT !.seq = @ + 1] \in Record
      BY <3>1, SMT DEF Record
    <3> QED
      BY <2>1, <3>1, <3>2 DEF Msg, Record, Altered
  <2>2. CASE net[e][i].part # "record"
    <3>1. net[e][i] \in Hello
      BY <1>2, <2>2, MsgParts
    <3>2. [net[e][i] EXCEPT !.ok = FALSE] \in Hello
      BY <3>1 DEF Hello
    <3> QED
      BY <2>2, <3>1, <3>2 DEF Msg, Hello, Altered
  <2> QED
    BY <2>1, <2>2
<1> DEFINE x == Altered(net[e][i])
           s == [net[e] EXCEPT ![i] = x]
<1>4. /\ s \in Seq(Msg) /\ Len(s) = Len(net[e])
      /\ \A n \in 1..Len(net[e]) : s[n] = IF n = i THEN x ELSE net[e][n]
  BY <1>0, <1>3, ExceptSeq, SMT
<1>5. net' = [net EXCEPT ![e] = s]
  BY <1>1
<1> HIDE DEF s
<1>6. NetType' /\ net'[e] = s /\ \A d \in End : d # e => net'[d] = net[d]
  BY <1>4, <1>5 DEF NetType
<1> QED
  BY <1>3, <1>4, <1>6

\* A cut takes the last items away, of either direction.
LEMMA CutNet ==
    ASSUME NetType, Cut
    PROVE  /\ NetType'
           /\ \A d \in End : /\ Len(net'[d]) <= Len(net[d])
                             /\ \A i \in 1..Len(net'[d]) : i \in 1..Len(net[d]) /\ net'[d][i] = net[d][i]
<1>0. \A d \in End : net[d] \in Seq(Msg) /\ Len(net[d]) \in Nat
  BY LenProperties DEF NetType
<1>1. PICK a \in 0..Len(net["initiator"]), b \in 0..Len(net["responder"]) :
         net' = [e \in End |-> SubSeq(net[e], 1, IF e = "initiator" THEN a ELSE b)]
  BY DEF Cut
<1>2. ASSUME NEW d \in End
      PROVE  /\ net'[d] \in Seq(Msg) /\ Len(net'[d]) <= Len(net[d])
             /\ \A i \in 1..Len(net'[d]) : i \in 1..Len(net[d]) /\ net'[d][i] = net[d][i]
  <2> DEFINE n == IF d = "initiator" THEN a ELSE b
             s == net[d]
             t == net'[d]
  <2>1. n \in 0..Len(s) /\ t = SubSeq(s, 1, n)
    BY <1>1 DEF End
  <2>2. s \in Seq(Msg) /\ Len(s) \in Nat
    BY <1>0
  <2> HIDE DEF n, s, t
  <2>3. /\ \A i \in 1..n : s[i] \in Msg
    BY <2>1, <2>2, ElementOfSeq, SMT
  <2>4. t \in Seq(Msg) /\ Len(t) = n /\ \A i \in 1..n : t[i] = s[i]
    BY <2>1, <2>2, <2>3, SubSeqProperties, SMT
  <2>5. t \in Seq(Msg) /\ Len(t) <= Len(s) /\ \A i \in 1..Len(t) : i \in 1..Len(s) /\ t[i] = s[i]
    BY <2>1, <2>2, <2>4, SMT
  <2> QED
    BY <2>5 DEF s, t
<1>3. NetType'
  BY <1>1, <1>2 DEF NetType
<1> QED
  BY <1>2, <1>3

-----------------------------------------------------------------------------
(* Types.  A hello is written only by an end that has a suite, a record    *)
(* only by one that has keys.                                              *)

Pc == {"start", "wlen", "wbody", "rlen", "rbody", "rother", "rmore", "ulp", "tx", "rx",
       "done", "failed"}

SetUp ==
    /\ suite \in [End -> Suite \cup {NoSuite}] /\ trusted \in BOOLEAN
    /\ pc \in [End -> Pc] /\ keys \in [End -> Suite \cup {NoSuite}]
    /\ ulp \in [End -> BOOLEAN]
    /\ tx \in [End -> End \cup {"none"}] /\ rx \in [End -> End \cup {"none"}]
    /\ fd \in [End -> {"open", "closed", "shut"}] /\ eof \in [End -> BOOLEAN]
    /\ sent \in [End -> 0..MaxRecords] /\ delivered \in [End -> Nat]
    /\ faults \in 0..MaxFaults /\ damaged \in BOOLEAN

Types == SetUp /\ NetType

\* What the proofs are about is the type invariant.
LEMMA TypesAreTypeOK == Types <=> TypeOK
BY DEF Types, SetUp, NetType, TypeOK, Pc, Msg

Has_suite(e) == pc[e] \in {"wlen", "wbody"} => suite[e] \in Suite

Has_keys(e) == pc[e] = "done" => keys[e] \in Suite /\ tx[e] = e

\* The socket of an end is dropped.
LEMMA DroppedType ==
    ASSUME SetUp, NEW e \in End, Dropped(e)
    PROVE  /\ pc' \in [End -> Pc] /\ fd' \in [End -> {"open", "closed", "shut"}]
           /\ eof' \in [End -> BOOLEAN]
BY PeerFacts DEF SetUp, Dropped, Pc

\* A task keeps the types.
LEMMA TaskType ==
    ASSUME Types, NEW e \in End, Has_suite(e), Task(e)
    PROVE  Types'
<1>0. SetUp /\ NetType /\ net[e] \in Seq(Msg)
  BY DEF Types, NetType
<1>1. CASE Start(e)
  <2>1. NetType' /\ UNCHANGED <<suite, trusted, keys, ulp, tx, rx, sent, delivered, faults, damaged>>
    BY <1>0, <1>1 DEF Start, NetType
  <2>2. /\ pc' \in [End -> Pc] /\ fd' \in [End -> {"open", "closed", "shut"}]
        /\ eof' \in [End -> BOOLEAN]
    <3>1. CASE Dropped(e)
      BY <1>0, <3>1, DroppedType
    <3>2. CASE UNCHANGED <<fd, eof>> /\ Goto(e, "start", IF e = "initiator" THEN "wlen" ELSE "rlen")
      BY <1>0, <3>2 DEF SetUp, Goto, Pc
    <3> QED
      BY <1>1, <3>1, <3>2 DEF Start
  <2> QED
    BY <1>0, <2>1, <2>2 DEF Types, SetUp
<1>2. CASE WriteFrame(e)
  <2>1. UNCHANGED <<suite, trusted, keys, ulp, tx, rx, sent, delivered, faults, damaged>>
    BY <1>2 DEF WriteFrame
  <2>2. ASSUME NEW part \in {"len", "body"}, pc[e] \in {"wlen", "wbody"} PROVE hello(e, part) \in Msg
    BY <2>2 DEF Has_suite, hello, Msg, Hello
  <2>3. CASE Dropped(e) /\ UNCHANGED net
    <3>1. /\ pc' \in [End -> Pc] /\ fd' \in [End -> {"open", "closed", "shut"}]
          /\ eof' \in [End -> BOOLEAN]
      BY <1>0, <2>3, DroppedType
    <3> QED
      BY <1>0, <2>1, <2>3, <3>1 DEF Types, SetUp, NetType
  <2>4. ASSUME NEW part \in {"len", "body"}, pc[e] \in {"wlen", "wbody"}, Put(e, hello(e, part)),
               NEW q \in Pc, pc' = [pc EXCEPT ![e] = q], UNCHANGED <<fd, eof>>
        PROVE  Types'
    <3>1. NetType'
      BY <1>0, <2>2, <2>4, PutNet
    <3>2. pc' \in [End -> Pc]
      BY <1>0, <2>4 DEF SetUp
    <3> QED
      BY <1>0, <2>1, <2>4, <3>1, <3>2 DEF Types, SetUp
  <2> QED
    BY <1>2, <2>3, <2>4 DEF WriteFrame, Goto, Pc
<1>3. CASE ReadLen(e) \/ ReadOther(e)
  <2>1. UNCHANGED <<suite, trusted, keys, ulp, tx, rx, sent, delivered, faults, damaged>>
    BY <1>3 DEF ReadLen, ReadOther
  <2>2. CASE Dropped(e) /\ UNCHANGED net
    <3>1. /\ pc' \in [End -> Pc] /\ fd' \in [End -> {"open", "closed", "shut"}]
          /\ eof' \in [End -> BOOLEAN]
      BY <1>0, <2>2, DroppedType
    <3> QED
      BY <1>0, <2>1, <2>2, <3>1 DEF Types, SetUp, NetType
  <2>3. ASSUME net[e] # <<>>, net' = [net EXCEPT ![e] = Tail(@)], UNCHANGED <<fd, eof>>,
               NEW q \in Pc, pc' = [pc EXCEPT ![e] = q]
        PROVE  Types'
    <3>1. NetType'
      BY <1>0, <2>3, TailNet
    <3>2. pc' \in [End -> Pc]
      BY <1>0, <2>3 DEF SetUp
    <3> QED
      BY <1>0, <2>1, <2>3, <3>1, <3>2 DEF Types, SetUp
  <2> QED
    BY <1>3, <2>2, <2>3 DEF ReadLen, ReadOther, Pc
<1>4. CASE ReadBody(e)
  <2>1. UNCHANGED <<suite, trusted, ulp, tx, rx, sent, delivered, faults, damaged>>
    BY <1>4 DEF ReadBody
  <2>2. CASE Dropped(e) /\ UNCHANGED <<net, keys>>
    <3>1. /\ pc' \in [End -> Pc] /\ fd' \in [End -> {"open", "closed", "shut"}]
          /\ eof' \in [End -> BOOLEAN]
      BY <1>0, <2>2, DroppedType
    <3> QED
      BY <1>0, <2>1, <2>2, <3>1 DEF Types, SetUp, NetType
  <2>3. ASSUME net[e] # <<>>, net' = [net EXCEPT ![e] = Tail(@)], UNCHANGED <<fd, eof>>,
               keys' = [keys EXCEPT ![e] = suite[e]], NEW q \in Pc, pc' = [pc EXCEPT ![e] = q]
        PROVE  Types'
    <3>1. NetType'
      BY <1>0, <2>3, TailNet
    <3>2. pc' \in [End -> Pc] /\ keys' \in [End -> Suite \cup {NoSuite}]
      BY <1>0, <2>3 DEF SetUp
    <3> QED
      BY <1>0, <2>1, <2>3, <3>1, <3>2 DEF Types, SetUp
  <2> QED
    BY <1>4, <2>2, <2>3 DEF ReadBody, Pc
<1>5. CASE Ktls(e)
  <2>1. /\ pc' \in [End -> Pc] /\ ulp' \in [End -> BOOLEAN]
        /\ tx' \in [End -> End \cup {"none"}] /\ rx' \in [End -> End \cup {"none"}]
    <3>1. \E q \in Pc : pc' = [pc EXCEPT ![e] = q]
      BY <1>5 DEF Ktls, Goto, Pc
    <3>2. /\ ulp' = ulp \/ ulp' = [ulp EXCEPT ![e] = TRUE]
          /\ tx' = tx \/ tx' = [tx EXCEPT ![e] = e]
          /\ rx' = rx \/ rx' = [rx EXCEPT ![e] = Peer(e)]
      BY <1>5 DEF Ktls
    <3>3. pc' \in [End -> Pc]
      BY <1>0, <3>1 DEF SetUp
    <3>4. ulp' \in [End -> BOOLEAN]
      BY <1>0, <3>2 DEF SetUp
    <3>5. Peer(e) \in End \cup {"none"} /\ e \in End \cup {"none"}
      BY PeerFacts
    <3>6. tx' \in [End -> End \cup {"none"}]
      BY <1>0, <3>2, <3>5 DEF SetUp
    <3>7. rx' \in [End -> End \cup {"none"}]
      BY <1>0, <3>2, <3>5 DEF SetUp
    <3> QED
      BY <3>3, <3>4, <3>6, <3>7
  <2> QED
    BY <1>0, <1>5, <2>1 DEF Ktls, Types, SetUp, NetType, wire
<1>6. CASE KtlsFails(e)
  <2>1. /\ pc' \in [End -> Pc] /\ fd' \in [End -> {"open", "closed", "shut"}]
        /\ eof' \in [End -> BOOLEAN]
    BY <1>0, <1>6, PeerFacts DEF KtlsFails, fail_closed_shutdown, SetUp, Pc
  <2>2. faults' \in 0..MaxFaults
    BY <1>0, <1>6, BridgeAssumption, SMT DEF KtlsFails, SetUp
  <2> QED
    BY <1>0, <1>6, <2>1, <2>2 DEF KtlsFails, Types, SetUp, NetType
<1> QED
  BY <1>1, <1>2, <1>3, <1>4, <1>5, <1>6 DEF Task

\* The kernel's TLS layer and the network keep the types.
LEMMA AroundType ==
    ASSUME Types, \A e \in End : Has_keys(e), (\E e \in End : Kernel(e) \/ Damage(e)) \/ Cut
    PROVE  Types'
<1>0. SetUp /\ NetType
  BY DEF Types
<1>1. ASSUME NEW e \in End, KtlsSend(e) PROVE Types'
  <2> DEFINE m == [part |-> "record", key |-> keys[e], by |-> tx[e], seq |-> sent[e]]
  <2>1. m \in Msg
    BY <1>0, <1>1, BridgeAssumption, SMT DEF KtlsSend, Has_keys, SetUp, Msg, Record
  <2>2. Put(e, m) /\ sent' = [sent EXCEPT ![e] = @ + 1] /\ sent[e] < MaxRecords
        /\ UNCHANGED <<suite, trusted, pc, keys, ulp, tx, rx, fd, eof, delivered, faults, damaged>>
    BY <1>1 DEF KtlsSend, sock
  <2> HIDE DEF m
  <2>3. NetType'
    BY <1>0, <2>1, <2>2, PutNet
  <2>4. sent' \in [End -> 0..MaxRecords]
    BY <1>0, <2>2, BridgeAssumption, SMT DEF SetUp
  <2> QED
    BY <1>0, <2>2, <2>3, <2>4 DEF Types, SetUp
<1>2. ASSUME NEW e \in End, KtlsRecv(e) PROVE Types'
  <2>1. net[e] # <<>> /\ net' = [net EXCEPT ![e] = Tail(@)]
        /\ UNCHANGED <<suite, trusted, pc, keys, ulp, tx, rx, sent, faults, damaged>>
    BY <1>2 DEF KtlsRecv
  <2>2. NetType'
    BY <1>0, <2>1, TailNet
  <2>3. /\ fd' \in [End -> {"open", "closed", "shut"}] /\ eof' \in [End -> BOOLEAN]
        /\ delivered' \in [End -> Nat]
    <3>1. /\ fd' = fd \/ fd' = [fd EXCEPT ![e] = "shut"]
          /\ eof' = eof \/ eof' = [eof EXCEPT ![Peer(e)] = TRUE]
          /\ delivered' = delivered \/ delivered' = [delivered EXCEPT ![e] = @ + 1]
      BY <1>2 DEF KtlsRecv
    <3>2. eof' \in [End -> BOOLEAN]
      BY <1>0, <3>1, PeerFacts DEF SetUp
    <3> QED
      BY <1>0, <3>1, <3>2, SMT DEF SetUp
  <2> QED
    BY <1>0, <2>1, <2>2, <2>3 DEF Types, SetUp
<1>3. ASSUME NEW e \in End, Damage(e) PROVE Types'
  <2>1. NetType'
    BY <1>0, <1>3, DamageNet
  <2>2. faults' \in 0..MaxFaults
    BY <1>0, <1>3, BridgeAssumption, SMT DEF Damage, SetUp
  <2>3. damaged' \in BOOLEAN
    BY <1>3 DEF Damage
  <2> QED
    BY <1>0, <1>3, <2>1, <2>2, <2>3 DEF Damage, Types, SetUp, sock
<1>4. CASE Cut
  <2>1. NetType'
    BY <1>0, <1>4, CutNet
  <2>2. faults' \in 0..MaxFaults
    BY <1>0, <1>4, BridgeAssumption, SMT DEF Cut, SetUp
  <2>3. eof' \in [End -> BOOLEAN]
    BY <1>4 DEF Cut
  <2> QED
    BY <1>0, <1>4, <2>1, <2>2, <2>3 DEF Cut, Types, SetUp, sock
<1> QED
  BY <1>1, <1>2, <1>3, <1>4 DEF Kernel

-----------------------------------------------------------------------------
(* What a step of a task does, point by point: it moves on, writes a part  *)
(* of its hello, reads a length, agrees on keys, or fails.                 *)

Others(e) ==
    /\ UNCHANGED <<suite, trusted, sent, delivered>>
    /\ \A d \in End : d # e => /\ pc'[d] = pc[d] /\ keys'[d] = keys[d] /\ fd'[d] = fd[d]
                              /\ ulp'[d] = ulp[d] /\ tx'[d] = tx[d] /\ rx'[d] = rx[d]

SameSock(e) ==
    /\ fd'[e] = fd[e] /\ ulp'[e] = ulp[e] /\ tx'[e] = tx[e] /\ rx'[e] = rx[e]
    /\ UNCHANGED <<eof, faults>>

Moves(e) ==
    /\ UNCHANGED <<net, eof, faults>> /\ keys'[e] = keys[e] /\ fd'[e] = fd[e]
    /\ \/ /\ pc[e] = "start" /\ pc'[e] = (IF e = "initiator" THEN "wlen" ELSE "rlen")
          /\ suite[e] # NoSuite
          /\ ulp'[e] = ulp[e] /\ tx'[e] = tx[e] /\ rx'[e] = rx[e]
       \/ pc[e] = "ulp" /\ pc'[e] = "tx" /\ ulp'[e] /\ tx'[e] = tx[e] /\ rx'[e] = rx[e]
       \/ pc[e] = "tx" /\ pc'[e] = "rx" /\ tx'[e] = e /\ ulp'[e] = ulp[e] /\ rx'[e] = rx[e]
       \/ pc[e] = "rx" /\ pc'[e] = "done" /\ rx'[e] = Peer(e) /\ ulp'[e] = ulp[e] /\ tx'[e] = tx[e]

Writes(e) ==
    /\ SameSock(e) /\ keys'[e] = keys[e]
    /\ \E part \in {"len", "body"} : Put(e, hello(e, part))
    /\ \/ pc[e] = "wlen" /\ pc'[e] = "wbody"
       \/ pc[e] = "wbody" /\ pc'[e] = (IF e = "initiator" THEN "rlen" ELSE "ulp")

Reads(e) ==
    /\ SameSock(e) /\ keys'[e] = keys[e]
    /\ pc[e] = "rlen" /\ pc'[e] \in {"rbody", "rother", "rmore"}
    /\ net[e] # <<>> /\ net' = [net EXCEPT ![e] = Tail(@)]

Agrees(e) ==
    /\ SameSock(e) /\ keys'[e] = suite[e]
    /\ pc[e] = "rbody" /\ pc'[e] = (IF e = "initiator" THEN "ulp" ELSE "wlen")
    /\ net[e] # <<>> /\ Accepts(e, Head(net[e])) /\ net' = [net EXCEPT ![e] = Tail(@)]

Fails(e) ==
    /\ pc[e] \notin {"done", "failed"} /\ pc'[e] = "failed" /\ fd'[e] # "open"
    /\ eof'[e] = eof[e] /\ UNCHANGED net
    /\ keys'[e] = keys[e] /\ ulp'[e] = ulp[e] /\ tx'[e] = tx[e] /\ rx'[e] = rx[e]
    /\ faults' \in {faults, faults + 1}

\* A socket that is dropped before its task is over.
LEMMA DroppedFails ==
    ASSUME SetUp, NEW e \in End, Dropped(e), pc[e] \notin {"done", "failed"},
           UNCHANGED <<suite, trusted, keys, ulp, tx, rx, net, sent, delivered, faults>>
    PROVE  Others(e) /\ Fails(e)
<1>1. Peer(e) \in End /\ Peer(e) # e
  BY PeerFacts
<1>2. /\ pc'[e] = "failed" /\ fd'[e] = "closed" /\ eof'[e] = eof[e]
      /\ \A d \in End : d # e => pc'[d] = pc[d] /\ fd'[d] = fd[d]
  BY <1>1 DEF Dropped, SetUp
<1> QED
  BY <1>2 DEF Others, Fails

\* These are all the steps of a task.
LEMMA TaskEffect ==
    ASSUME SetUp, NEW e \in End, Task(e)
    PROVE  Others(e) /\ (Moves(e) \/ Writes(e) \/ Reads(e) \/ Agrees(e) \/ Fails(e))
<1>1. ASSUME NEW q \in Pc, pc' = [pc EXCEPT ![e] = q]
      PROVE  pc'[e] = q /\ \A d \in End : d # e => pc'[d] = pc[d]
  BY <1>1 DEF SetUp
<1>2. CASE Start(e)
  <2>1. CASE Dropped(e)
    BY <1>2, <2>1, DroppedFails DEF Start, Goto, Dropped
  <2>2. CASE /\ suite[e] # NoSuite /\ UNCHANGED <<fd, eof>>
             /\ Goto(e, "start", IF e = "initiator" THEN "wlen" ELSE "rlen")
    <3>1. /\ pc[e] = "start" /\ pc'[e] = (IF e = "initiator" THEN "wlen" ELSE "rlen")
          /\ \A d \in End : d # e => pc'[d] = pc[d]
      BY <1>1, <2>2 DEF Goto, Pc
    <3> QED
      BY <1>2, <2>2, <3>1 DEF Start, Others, Moves
  <2> QED
    BY <1>2, <2>1, <2>2 DEF Start
<1>3. CASE WriteFrame(e)
  <2>1. CASE Dropped(e) /\ UNCHANGED net /\ pc[e] \in {"wlen", "wbody"}
    BY <1>3, <2>1, DroppedFails DEF WriteFrame
  <2>2. CASE Goto(e, "wlen", "wbody") /\ Put(e, hello(e, "len")) /\ UNCHANGED <<fd, eof>>
    <3>1. pc[e] = "wlen" /\ pc'[e] = "wbody" /\ \A d \in End : d # e => pc'[d] = pc[d]
      BY <1>1, <2>2 DEF Goto, Pc
    <3> QED
      BY <1>3, <2>2, <3>1 DEF WriteFrame, Others, Writes, SameSock
  <2>3. CASE /\ Goto(e, "wbody", IF e = "initiator" THEN "rlen" ELSE "ulp")
             /\ Put(e, hello(e, "body")) /\ UNCHANGED <<fd, eof>>
    <3>1. /\ pc[e] = "wbody" /\ pc'[e] = (IF e = "initiator" THEN "rlen" ELSE "ulp")
          /\ \A d \in End : d # e => pc'[d] = pc[d]
      BY <1>1, <2>3 DEF Goto, Pc
    <3> QED
      BY <1>3, <2>3, <3>1 DEF WriteFrame, Others, Writes, SameSock
  <2> QED
    BY <1>3, <2>1, <2>2, <2>3 DEF WriteFrame
<1>4. CASE ReadLen(e)
  <2>1. CASE Dropped(e) /\ UNCHANGED net
    BY <1>4, <2>1, DroppedFails DEF ReadLen
  <2>2. ASSUME NEW q \in {"rbody", "rother", "rmore"}, pc' = [pc EXCEPT ![e] = q], net[e] # <<>>,
               net' = [net EXCEPT ![e] = Tail(@)], UNCHANGED <<fd, eof>>
        PROVE  Others(e) /\ Reads(e)
    <3>1. pc'[e] = q /\ \A d \in End : d # e => pc'[d] = pc[d]
      BY <1>1, <2>2 DEF Pc
    <3> QED
      BY <1>4, <2>2, <3>1 DEF ReadLen, Others, Reads, SameSock
  <2> QED
    BY <1>4, <2>1, <2>2 DEF ReadLen
<1>5. CASE ReadOther(e)
  BY <1>5, DroppedFails DEF ReadOther
<1>6. CASE ReadBody(e)
  <2>1. CASE Dropped(e) /\ UNCHANGED <<net, keys>>
    BY <1>6, <2>1, DroppedFails DEF ReadBody
  <2>2. CASE /\ net[e] # <<>> /\ Accepts(e, Head(net[e]))
             /\ keys' = [keys EXCEPT ![e] = suite[e]]
             /\ pc' = [pc EXCEPT ![e] = IF e = "initiator" THEN "ulp" ELSE "wlen"]
             /\ net' = [net EXCEPT ![e] = Tail(@)] /\ UNCHANGED <<fd, eof>>
    <3>1. /\ pc'[e] = (IF e = "initiator" THEN "ulp" ELSE "wlen")
          /\ \A d \in End : d # e => pc'[d] = pc[d]
      BY <1>1, <2>2 DEF Pc
    <3>2. keys'[e] = suite[e] /\ \A d \in End : d # e => keys'[d] = keys[d]
      BY <2>2 DEF SetUp
    <3> QED
      BY <1>6, <2>2, <3>1, <3>2 DEF ReadBody, Others, Agrees, SameSock
  <2> QED
    BY <1>6, <2>1, <2>2 DEF ReadBody
<1>7. CASE Ktls(e)
  <2>1. CASE Goto(e, "ulp", "tx") /\ ulp' = [ulp EXCEPT ![e] = TRUE] /\ UNCHANGED <<tx, rx>>
    <3>1. pc[e] = "ulp" /\ pc'[e] = "tx" /\ \A d \in End : d # e => pc'[d] = pc[d]
      BY <1>1, <2>1 DEF Goto, Pc
    <3>2. ulp'[e] /\ \A d \in End : d # e => ulp'[d] = ulp[d]
      BY <2>1 DEF SetUp
    <3> QED
      BY <1>7, <2>1, <3>1, <3>2 DEF Ktls, Others, Moves, wire
  <2>2. CASE Goto(e, "tx", "rx") /\ tx' = [tx EXCEPT ![e] = e] /\ UNCHANGED <<ulp, rx>>
    <3>1. pc[e] = "tx" /\ pc'[e] = "rx" /\ \A d \in End : d # e => pc'[d] = pc[d]
      BY <1>1, <2>2 DEF Goto, Pc
    <3>2. tx'[e] = e /\ \A d \in End : d # e => tx'[d] = tx[d]
      BY <2>2 DEF SetUp
    <3> QED
      BY <1>7, <2>2, <3>1, <3>2 DEF Ktls, Others, Moves, wire
  <2>3. CASE Goto(e, "rx", "done") /\ rx' = [rx EXCEPT ![e] = Peer(e)] /\ UNCHANGED <<ulp, tx>>
    <3>1. pc[e] = "rx" /\ pc'[e] = "done" /\ \A d \in End : d # e => pc'[d] = pc[d]
      BY <1>1, <2>3 DEF Goto, Pc
    <3>2. rx'[e] = Peer(e) /\ \A d \in End : d # e => rx'[d] = rx[d]
      BY <2>3 DEF SetUp
    <3> QED
      BY <1>7, <2>3, <3>1, <3>2 DEF Ktls, Others, Moves, wire
  <2> QED
    BY <1>7, <2>1, <2>2, <2>3 DEF Ktls
<1>8. CASE KtlsFails(e)
  <2>1. Peer(e) \in End /\ Peer(e) # e
    BY PeerFacts
  <2>2. /\ pc'[e] = "failed" /\ fd'[e] = "shut" /\ eof'[e] = eof[e]
        /\ \A d \in End : d # e => pc'[d] = pc[d] /\ fd'[d] = fd[d]
    BY <1>8, <2>1 DEF KtlsFails, fail_closed_shutdown, SetUp
  <2>3. faults' \in {faults, faults + 1}
    BY <1>8 DEF KtlsFails
  <2> QED
    BY <1>8, <2>2, <2>3 DEF KtlsFails, Others, Fails
<1> QED
  BY <1>2, <1>3, <1>4, <1>5, <1>6, <1>7, <1>8 DEF Task

-----------------------------------------------------------------------------
(* Agreement.  What is on the wire in front of the records says the suite  *)
(* of the end that wrote it, an end has keys only when that is its own     *)
(* suite, and nothing reaches the initiator before the responder has keys. *)

Keyed(e) == {"ulp", "tx", "rx", "done"} \cup (IF e = "responder" THEN {"wlen", "wbody"} ELSE {})

Honest(e) == \A i \in 1..Len(net[e]) : net[e][i].part # "record" => net[e][i].suite = suite[Peer(e)]

Agree(e) ==
    /\ keys[e] \in {NoSuite, suite[e]}
    /\ keys[e] # NoSuite => trusted /\ suite[e] = suite[Peer(e)]
    /\ pc[e] \in Keyed(e) => keys[e] # NoSuite
    /\ pc[e] \in {"wlen", "wbody"} => suite[e] # NoSuite
    /\ Honest(e)

ResponderFirst ==
    net["initiator"] # <<>> \/ keys["initiator"] # NoSuite => keys["responder"] # NoSuite

Staged(e) ==
    /\ pc[e] \in {"tx", "rx", "done"} => ulp[e]
    /\ pc[e] \in {"rx", "done"} => tx[e] = e
    /\ pc[e] = "done" => rx[e] = Peer(e)
    /\ pc[e] \notin {"done", "failed"} => fd[e] = "open"

BridgeInv == Types /\ ResponderFirst /\ \A e \in End : Agree(e) /\ Staged(e)

\* An end that writes has what it writes with.
LEMMA WritersHave ==
    ASSUME BridgeInv
    PROVE  \A e \in End : Has_suite(e) /\ Has_keys(e)
BY SMT DEF BridgeInv, Agree, Staged, Keyed, Has_suite, Has_keys, Types, SetUp

\* What an end writes keeps the wire honest.
LEMMA PutHonest ==
    ASSUME NetType, NEW e \in End, NEW m \in Msg, Put(e, m), UNCHANGED suite,
           \A d \in End : Honest(d), m.part # "record" => m.suite = suite[e]
    PROVE  \A d \in End : Honest(d)'
<1>1. /\ net'[e] = net[e] /\ Peer(e) \in End /\ Peer(Peer(e)) = e
      /\ net'[Peer(e)] = net[Peer(e)] \/ net'[Peer(e)] = Append(net[Peer(e)], m)
      /\ \A d \in End : d = e \/ d = Peer(e)
  BY PutNet, PeerFacts
<1>2. Honest(e)'
  BY <1>1 DEF Honest
<1>3. Honest(Peer(e))'
  <2> DEFINE s == net[Peer(e)]
             t == net'[Peer(e)]
  <2>1. s \in Seq(Msg) /\ Len(s) \in Nat
    BY <1>1, LenProperties DEF NetType
  <2>2. t = s \/ t = Append(s, m)
    BY <1>1
  <2>3. \A i \in 1..Len(s) : s[i].part # "record" => s[i].suite = suite[e]
    BY <1>1 DEF Honest
  <2> HIDE DEF s, t
  <2>4. \A i \in 1..Len(t) : t[i].part # "record" => t[i].suite = suite[e]
    <3>1. CASE t = s
      BY <2>3, <3>1
    <3>2. CASE t = Append(s, m)
      <4>1. /\ Len(t) = Len(s) + 1 /\ t[Len(s) + 1] = m
            /\ \A i \in 1..Len(s) : t[i] = s[i]
        BY <2>1, <3>2, AppendProperties, SMT
      <4> QED
        BY <2>1, <2>3, <4>1, SMT
    <3> QED
      BY <2>2, <3>1, <3>2
  <2> QED
    BY <1>1, <2>4 DEF Honest, t
<1> QED
  BY <1>1, <1>2, <1>3

\* So does what an end reads, and what it reads is honest.
LEMMA TailHonest ==
    ASSUME NetType, NEW e \in End, net[e] # <<>>, net' = [net EXCEPT ![e] = Tail(@)],
           UNCHANGED suite, \A d \in End : Honest(d)
    PROVE  /\ \A d \in End : Honest(d)'
           /\ Head(net[e]) \in Msg
           /\ Head(net[e]).part # "record" => Head(net[e]).suite = suite[Peer(e)]
<1>1. Honest(e)'
  BY TailNet, SMT DEF Honest
<1>2. ASSUME NEW d \in End, d # e PROVE Honest(d)'
  BY <1>2, TailNet, SMT DEF Honest
<1>3. /\ Head(net[e]) \in Msg
      /\ Head(net[e]).part # "record" => Head(net[e]).suite = suite[Peer(e)]
  <2>1. Head(net[e]) \in Msg /\ Head(net[e]) = net[e][1] /\ 1 \in 1..Len(net[e])
    BY TailNet
  <2>2. net[e][1].part # "record" => net[e][1].suite = suite[Peer(e)]
    BY <2>1 DEF Honest
  <2> QED
    BY <2>1, <2>2
<1> QED
  BY <1>1, <1>2, <1>3

\* A task keeps the agreement.
LEMMA TaskAgree ==
    ASSUME BridgeInv, NEW e \in End, Task(e)
    PROVE  BridgeInv'
<1>0. /\ Types /\ SetUp /\ NetType /\ Types' /\ SetUp' /\ Others(e)
      /\ \A d \in End : Honest(d) /\ Agree(d) /\ Staged(d)
  BY WritersHave, TaskType, TaskEffect DEF BridgeInv, Agree, Types
<1>1. /\ Peer(e) \in End /\ Peer(e) # e /\ Peer(Peer(e)) = e
      /\ \A d \in End : d = e \/ d = Peer(e)
  BY PeerFacts
<1>2. \A d \in End : Honest(d)'
  <2>1. CASE UNCHANGED net
    BY <1>0, <2>1 DEF Honest, Others
  <2>2. CASE Writes(e)
    <3>1. PICK part \in {"len", "body"} : Put(e, hello(e, part))
      BY <2>2 DEF Writes
    <3>2. suite[e] \in Suite
      BY <1>0, <2>2, SMT DEF Writes, Agree, SetUp
    <3>3. hello(e, part) \in Msg /\ hello(e, part).suite = suite[e]
      BY <3>2 DEF hello, Msg, Hello
    <3> QED
      BY <1>0, <3>1, <3>3, PutHonest DEF Others
  <2>3. CASE Reads(e) \/ Agrees(e)
    <3>1. net[e] # <<>> /\ net' = [net EXCEPT ![e] = Tail(@)] /\ UNCHANGED suite
      BY <1>0, <2>3 DEF Reads, Agrees, Others
    <3> QED
      BY <1>0, <3>1, TailHonest
  <2> QED
    BY <1>0, <2>1, <2>2, <2>3, TaskEffect DEF Moves, Fails
<1>3. Agree(Peer(e))' /\ Staged(Peer(e))'
  BY <1>0, <1>1, <1>2, SMT DEF Others, Agree, Staged, Keyed
<1>4. CASE Moves(e)
  <2>1. Agree(e)'
    BY <1>0, <1>2, <1>4 DEF Others, Moves, Agree, Keyed, End
  <2>2. Staged(e)'
    BY <1>0, <1>4 DEF Moves, Staged
  <2>3. ResponderFirst'
    BY <1>0, <1>1, <1>4 DEF BridgeInv, ResponderFirst, Moves, Others, End
  <2> QED
    BY <1>0, <1>1, <1>3, <2>1, <2>2, <2>3 DEF BridgeInv
<1>5. CASE Writes(e)
  <2>1. Agree(e)'
    BY <1>0, <1>2, <1>5 DEF Others, Writes, Agree, Keyed, End
  <2>2. Staged(e)'
    BY <1>0, <1>5 DEF Writes, Staged, SameSock
  <2>3. ResponderFirst'
    <3>1. keys'["responder"] = keys["responder"] /\ keys'["initiator"] = keys["initiator"]
      BY <1>0, <1>5 DEF Writes, Others, End
    <3>2. CASE e = "initiator"
      <4>1. net'["initiator"] = net["initiator"]
        <5>1. PICK part \in {"len", "body"} : Put(e, hello(e, part))
          BY <1>5 DEF Writes
        <5>2. hello(e, part) \in Msg
          BY <1>0, <1>5, SMT DEF Writes, Agree, SetUp, hello, Msg, Hello
        <5> QED
          BY <1>0, <3>2, <5>1, <5>2, PutNet
      <4> QED
        BY <3>1, <4>1 DEF BridgeInv, ResponderFirst
    <3>3. CASE e = "responder"
      BY <1>0, <1>5, <3>1, <3>3 DEF Agree, Keyed, Writes, ResponderFirst
    <3> QED
      BY <3>2, <3>3 DEF End
  <2> QED
    BY <1>0, <1>1, <1>3, <2>1, <2>2, <2>3 DEF BridgeInv
<1>6. CASE Reads(e)
  <2>1. Agree(e)'
    BY <1>0, <1>2, <1>6 DEF Others, Reads, Agree, Keyed
  <2>2. Staged(e)'
    BY <1>0, <1>6 DEF Reads, Staged, SameSock
  <2>3. ResponderFirst'
    <3>1. keys' ["responder"] = keys["responder"] /\ keys'["initiator"] = keys["initiator"]
      BY <1>0, <1>6 DEF Reads, Others, End
    <3>2. net'["initiator"] # <<>> => net["initiator"] # <<>>
      BY <1>0, <1>6, TailNet DEF Reads, End
    <3> QED
      BY <3>1, <3>2 DEF BridgeInv, ResponderFirst
  <2> QED
    BY <1>0, <1>1, <1>3, <2>1, <2>2, <2>3 DEF BridgeInv
<1>7. CASE Agrees(e)
  <2>1. trusted /\ suite[e] = suite[Peer(e)] /\ suite[e] \in Suite
    <3> DEFINE m == Head(net[e])
    <3>1. m \in Msg /\ (m.part # "record" => m.suite = suite[Peer(e)])
      BY <1>0, <1>7, TailHonest DEF Agrees, Others
    <3>2. m.part = "body" /\ trusted /\ m.suite = suite[e]
      BY <1>7 DEF Agrees, Accepts
    <3> HIDE DEF m
    <3> QED
      BY <3>1, <3>2, MsgParts
  <2>2. keys'[e] = suite[e] /\ suite[e] # NoSuite
    BY <1>7, <2>1, BridgeAssumption DEF Agrees
  <2>3. Agree(e)'
    BY <1>0, <1>2, <2>1, <2>2 DEF Others, Agree
  <2>4. Staged(e)'
    BY <1>0, <1>7 DEF Agrees, Staged, SameSock
  <2>5. ResponderFirst'
    <3>1. CASE e = "initiator"
      BY <1>0, <1>7, <3>1 DEF BridgeInv, ResponderFirst, Agrees, Others, End
    <3>2. CASE e = "responder"
      BY <2>2, <3>2 DEF ResponderFirst
    <3> QED
      BY <3>1, <3>2 DEF End
  <2> QED
    BY <1>0, <1>1, <1>3, <2>3, <2>4, <2>5 DEF BridgeInv
<1>8. CASE Fails(e)
  <2>1. Agree(e)' /\ Staged(e)'
    BY <1>0, <1>2, <1>8 DEF Others, Fails, Agree, Staged, Keyed
  <2>2. ResponderFirst'
    BY <1>0, <1>8 DEF BridgeInv, ResponderFirst, Fails, Others, End
  <2> QED
    BY <1>0, <1>1, <1>3, <2>1, <2>2 DEF BridgeInv
<1> QED
  BY <1>0, <1>4, <1>5, <1>6, <1>7, <1>8, TaskEffect

\* What the kernel, the applications and the network do.
Surroundings == (\E e \in End : Kernel(e) \/ Damage(e)) \/ Cut

\* They keep the agreement: none of them moves a task or changes its keys.
LEMMA AroundAgree ==
    ASSUME BridgeInv, Surroundings
    PROVE  /\ BridgeInv' /\ UNCHANGED <<suite, trusted, pc, keys, ulp, tx, rx>>
           /\ \A e \in End : pc[e] # "done" => fd'[e] = fd[e]
<1>0. /\ Types /\ SetUp /\ NetType /\ Types'
      /\ \A d \in End : Honest(d) /\ Agree(d) /\ Staged(d)
  BY WritersHave, AroundType DEF BridgeInv, Agree, Types, Surroundings
<1>1. UNCHANGED <<suite, trusted, pc, keys, ulp, tx, rx>>
  BY DEF Surroundings, Kernel, KtlsSend, KtlsRecv, Damage, Cut, sock
<1>2. \A d \in End : pc[d] # "done" => fd'[d] = fd[d]
  <2>1. ASSUME NEW e \in End, KtlsRecv(e), NEW d \in End, pc[d] # "done" PROVE fd'[d] = fd[d]
    <3>1. pc[e] = "done" /\ (fd' = fd \/ fd' = [fd EXCEPT ![e] = "shut"])
      BY <2>1 DEF KtlsRecv
    <3> QED
      BY <1>0, <2>1, <3>1 DEF SetUp
  <2>2. CASE UNCHANGED fd
    BY <2>2
  <2> QED
    BY <2>1, <2>2 DEF Surroundings, Kernel, KtlsSend, Damage, Cut, sock
<1>3. /\ \A d \in End : Honest(d)'
      /\ net'["initiator"] # <<>> => net["initiator"] # <<>> \/ keys["responder"] # NoSuite
  <2>1. ASSUME NEW e \in End, KtlsSend(e)
        PROVE  /\ \A d \in End : Honest(d)'
               /\ net'["initiator"] # <<>> => net["initiator"] # <<>> \/ keys["responder"] # NoSuite
    <3> DEFINE m == [part |-> "record", key |-> keys[e], by |-> tx[e], seq |-> sent[e]]
    <3>1. m \in Msg /\ m.part = "record" /\ Put(e, m) /\ pc[e] = "done"
      BY <1>0, <2>1, WritersHave, BridgeAssumption, SMT
         DEF KtlsSend, Has_keys, SetUp, Msg, Record
    <3> HIDE DEF m
    <3>2. \A d \in End : Honest(d)'
      BY <1>0, <1>1, <3>1, PutHonest
    <3>3. CASE e = "initiator"
      <4>1. net'[e] = net[e]
        BY <1>0, <3>1, PutNet
      <4> QED
        BY <3>2, <3>3, <4>1
    <3>4. CASE e = "responder"
      <4>1. keys[e] # NoSuite
        BY <1>0, <3>1 DEF Agree, Keyed
      <4> QED
        BY <3>2, <3>4, <4>1
    <3> QED
      BY <3>3, <3>4 DEF End
  <2>2. ASSUME NEW e \in End, KtlsRecv(e)
        PROVE  /\ \A d \in End : Honest(d)'
               /\ net'["initiator"] # <<>> => net["initiator"] # <<>>
    <3>1. net[e] # <<>> /\ net' = [net EXCEPT ![e] = Tail(@)]
      BY <2>2 DEF KtlsRecv
    <3>2. \A d \in End : Honest(d)'
      BY <1>0, <1>1, <3>1, TailHonest
    <3>3. net'["initiator"] # <<>> => net["initiator"] # <<>>
      BY <1>0, <3>1, TailNet DEF End
    <3> QED
      BY <3>2, <3>3
  <2>3. ASSUME \/ \E e \in End : Damage(e)
               \/ Cut
        PROVE  /\ \A d \in End : Honest(d)'
               /\ net'["initiator"] # <<>> => net["initiator"] # <<>>
    <3>1. /\ NetType'
          /\ \A d \in End : /\ Len(net'[d]) <= Len(net[d])
                            /\ \A i \in 1..Len(net'[d]) :
                                  /\ i \in 1..Len(net[d])
                                  /\ net'[d][i].part = net[d][i].part
                                  /\ net[d][i].part # "record" => net'[d][i].suite = net[d][i].suite
      <4>1. \A d \in End : Len(net[d]) \in Nat
        BY <1>0, LenProperties DEF NetType
      <4>2. CASE Cut
        BY <1>0, <4>2, CutNet
      <4>3. CASE \E e \in End : Damage(e)
        BY <1>0, <4>1, <4>3, DamageNet, SMT
      <4> QED
        BY <2>3, <4>2, <4>3
    <3>2. \A d \in End : Honest(d)'
      BY <1>0, <1>1, <3>1 DEF Honest
    <3>3. net'["initiator"] # <<>> => net["initiator"] # <<>>
      <4> DEFINE s == net["initiator"]
                 t == net'["initiator"]
      <4>1. s \in Seq(Msg) /\ t \in Seq(Msg) /\ Len(t) <= Len(s)
        BY <1>0, <3>1 DEF NetType, End
      <4> HIDE DEF s, t
      <4>2. t # <<>> => s # <<>>
        BY <4>1, EmptySeq, LenProperties, SMT
      <4> QED
        BY <4>2 DEF s, t
    <3> QED
      BY <3>2, <3>3
  <2> QED
    BY <2>1, <2>2, <2>3 DEF Surroundings, Kernel
<1>4. ResponderFirst'
  BY <1>1, <1>3 DEF BridgeInv, ResponderFirst
<1>5. ASSUME NEW d \in End PROVE Agree(d)' /\ Staged(d)'
  BY <1>0, <1>1, <1>2, <1>3 DEF Agree, Staged
<1> QED
  BY <1>0, <1>1, <1>2, <1>4, <1>5 DEF BridgeInv

\* A task that ends in failure leaves the agreement as it is.
LEMMA FailAgree ==
    ASSUME BridgeInv, Types', NEW e \in End, pc' = [pc EXCEPT ![e] = "failed"],
           \A d \in End : d # e => fd'[d] = fd[d],
           UNCHANGED <<suite, trusted, keys, net, ulp, tx, rx>>
    PROVE  BridgeInv'
<1>1. pc'[e] = "failed" /\ \A d \in End : d # e => pc'[d] = pc[d]
  BY SMT DEF BridgeInv, Types, SetUp
<1>2. \A d \in End : Honest(d)'
  BY DEF BridgeInv, Agree, Honest
<1>3. \A d \in End : Agree(d)' /\ Staged(d)'
  BY <1>1, <1>2, SMT DEF BridgeInv, Agree, Staged, Keyed
<1> QED
  BY <1>3 DEF BridgeInv, ResponderFirst

-----------------------------------------------------------------------------
(* No record is lost.  Without faults what an end has read, what is under  *)
(* way to it and what its kernel delivered add up to what its peer wrote;  *)
(* the records are numbered from the last one sent; and a hello lies no    *)
(* further back than the two items of a frame.                             *)

Read(e) == IF pc[e] \in {"rbody", "rother", "rmore"} THEN 1 ELSE IF pc[e] \in Keyed(e) THEN 2 ELSE 0

Written(e) ==
    IF pc[e] = "wbody" THEN 1
    ELSE IF pc[e] \in {"ulp", "tx", "rx", "done"}
            \cup (IF e = "initiator" THEN {"rlen", "rbody", "rother", "rmore"} ELSE {}) THEN 2
    ELSE 0

Consecutive(s, k, p, n) ==
    \A i \in 1..Len(s) : s[i].part = "record" =>
        s[i].key = k /\ s[i].by = p /\ s[i].seq = n - (Len(s) - i) - 1

HellosWithin(s, n) == \A i \in 1..Len(s) : s[i].part # "record" => i <= n

Tally(e) ==
    /\ eof[e] => pc[Peer(e)] = "failed"
    /\ sent[e] > 0 => pc[e] = "done"
    /\ pc[e] # "done" => delivered[e] = 0
    /\ delivered[e] <= sent[Peer(e)]
    /\ pc[e] # "failed" /\ pc[Peer(e)] # "failed" =>
          Read(e) + Len(net[e]) + delivered[e] = Written(Peer(e)) + sent[Peer(e)]
    /\ Consecutive(net[e], keys[Peer(e)], Peer(e), sent[Peer(e)])
    /\ pc[e] # "failed" => HellosWithin(net[e], 2 - Read(e) - delivered[e])

RecordInv == faults = 0 => \A e \in End : Tally(e)

\* Taking the first item keeps the numbering, and brings hellos nearer.
LEMMA TailConsecutive ==
    ASSUME NEW s \in Seq(Msg), s # <<>>, NEW k, NEW p, NEW n \in Int, NEW h \in Int,
           Consecutive(s, k, p, n)
    PROVE  /\ Len(Tail(s)) = Len(s) - 1 /\ Len(s) \in Nat /\ Consecutive(Tail(s), k, p, n)
           /\ HellosWithin(s, h) => HellosWithin(Tail(s), h - 1)
<1>0. /\ Len(s) \in Nat \ {0} /\ Len(Tail(s)) = Len(s) - 1
      /\ \A i \in 1..Len(Tail(s)) : Tail(s)[i] = s[i + 1]
  BY FirstItem
<1> DEFINE t == Tail(s)
<1> HIDE DEF t
<1>1. /\ Len(s) \in Nat \ {0} /\ Len(t) = Len(s) - 1 /\ \A i \in 1..Len(t) : t[i] = s[i + 1]
  BY <1>0 DEF t
<1>2. \A i \in 1..Len(t) : i + 1 \in 1..Len(s)
  BY <1>1, SMT
<1>3. Consecutive(t, k, p, n)
  <2> SUFFICES ASSUME NEW i \in 1..Len(t), t[i].part = "record"
               PROVE  t[i].key = k /\ t[i].by = p /\ t[i].seq = n - (Len(t) - i) - 1
    BY DEF Consecutive
  <2>1. t[i] = s[i + 1] /\ i + 1 \in 1..Len(s)
    BY <1>1, <1>2
  <2>2. /\ s[i + 1].key = k /\ s[i + 1].by = p
        /\ s[i + 1].seq = n - (Len(s) - (i + 1)) - 1
    BY <2>1 DEF Consecutive
  <2>3. n - (Len(s) - (i + 1)) - 1 = n - (Len(t) - i) - 1
    BY <1>1, SMT
  <2> QED
    BY <2>1, <2>2, <2>3
<1>4. HellosWithin(s, h) => HellosWithin(t, h - 1)
  BY <1>1, <1>2, SMT DEF HellosWithin
<1> QED
  BY <1>1, <1>3, <1>4 DEF t

\* Where nothing was sent there is no record.
LEMMA NoneConsecutive ==
    ASSUME NEW s \in Seq(Msg), NEW k, NEW p, Consecutive(s, k, p, 0)
    PROVE  \A i \in 1..Len(s) : s[i].part # "record"
<1> SUFFICES ASSUME NEW i \in 1..Len(s), s[i].part = "record" PROVE FALSE
  OBVIOUS
<1>1. s[i] \in Record /\ Len(s) \in Nat
  BY ElementOfSeq, LenProperties, MsgParts
<1>2. s[i].seq \in Nat /\ s[i].seq = 0 - (Len(s) - i) - 1
  BY <1>1 DEF Record, Consecutive
<1> QED
  BY <1>1, <1>2, SMT

\* A hello goes behind hellos only, a record behind anything.
LEMMA AppendConsecutive ==
    ASSUME NEW s \in Seq(Msg), NEW m \in Msg, NEW k, NEW p, NEW n \in Nat, NEW h \in Int,
           Consecutive(s, k, p, n)
    PROVE  /\ Len(Append(s, m)) = Len(s) + 1 /\ Len(s) \in Nat
           /\ m.part # "record" /\ n = 0 => Consecutive(Append(s, m), k, p, n)
           /\ m.part # "record" /\ Len(s) + 1 <= h => HellosWithin(Append(s, m), h)
           /\ m.part = "record" /\ m.key = k /\ m.by = p /\ m.seq = n =>
                 /\ Consecutive(Append(s, m), k, p, n + 1)
                 /\ HellosWithin(s, h) => HellosWithin(Append(s, m), h)
<1> DEFINE t == Append(s, m)
<1>1. /\ Len(t) = Len(s) + 1 /\ t[Len(s) + 1] = m /\ Len(s) \in Nat
      /\ \A i \in 1..Len(s) : t[i] = s[i]
  BY AppendProperties, LenProperties, SMT
<1> HIDE DEF t
<1>2. ASSUME m.part # "record", n = 0 PROVE Consecutive(t, k, p, n)
  <2>1. Consecutive(s, k, p, 0)
    BY <1>2
  <2>2. \A i \in 1..Len(s) : s[i].part # "record"
    BY <2>1, NoneConsecutive
  <2>3. \A i \in 1..Len(t) : i \in 1..Len(s) \/ i = Len(s) + 1
    BY <1>1, SMT
  <2>4. \A i \in 1..Len(t) : t[i].part # "record"
    BY <1>1, <1>2, <2>2, <2>3
  <2> QED
    BY <2>4 DEF Consecutive
<1>3. m.part # "record" /\ Len(s) + 1 <= h => HellosWithin(t, h)
  BY <1>1, SMT DEF HellosWithin
<1>4. m.part = "record" /\ m.key = k /\ m.by = p /\ m.seq = n => Consecutive(t, k, p, n + 1)
  BY <1>1, SMT DEF Consecutive
<1>5. m.part = "record" /\ HellosWithin(s, h) => HellosWithin(t, h)
  BY <1>1, SMT DEF HellosWithin
<1> QED
  BY <1>1, <1>2, <1>3, <1>4, <1>5 DEF t

\* What leaves tasks, wire and counts alone leaves the tally.
LEMMA SameTally ==
    ASSUME NEW e \in End, Tally(e), UNCHANGED <<keys, pc, net, eof, sent, delivered>>
    PROVE  Tally(e)'
<1>1. Read(e)' = Read(e) /\ Written(Peer(e))' = Written(Peer(e))
  BY DEF Read, Written, Keyed
<1> QED
  BY <1>1 DEF Tally

\* A task that fails is not counted on any more.
LEMMA FailTally ==
    ASSUME SetUp, \A d \in End : Tally(d), NEW e \in End, pc[e] # "done", pc'[e] = "failed",
           \A d \in End : d # e => pc'[d] = pc[d] /\ keys'[d] = keys[d],
           keys'[e] = keys[e], eof'[e] = eof[e], UNCHANGED <<net, sent, delivered>>
    PROVE  \A d \in End : Tally(d)'
<1>1. /\ Peer(e) \in End /\ Peer(e) # e /\ Peer(Peer(e)) = e
      /\ \A d \in End : d = e \/ d = Peer(e)
  BY PeerFacts
<1>2. Tally(e)'
  BY <1>1, SMT DEF Tally, Consecutive
<1>3. Tally(Peer(e))'
  <2>1. Read(Peer(e))' = Read(Peer(e))
    BY <1>1 DEF Read, Keyed
  <2> QED
    BY <1>1, <2>1, SMT DEF Tally, Consecutive, HellosWithin
<1> QED
  BY <1>1, <1>2, <1>3

\* What a task moves, writes, reads or gives up, the tally follows.
LEMMA TaskTally ==
    ASSUME BridgeInv, RecordInv, NEW e \in End, Task(e)
    PROVE  RecordInv'
<1> SUFFICES ASSUME faults' = 0 PROVE \A d \in End : Tally(d)'
  BY DEF RecordInv
<1>0. /\ Types /\ SetUp /\ NetType /\ Others(e) /\ Agree(e) /\ Staged(e)
      /\ Moves(e) \/ Writes(e) \/ Reads(e) \/ Agrees(e) \/ Fails(e)
  BY TaskEffect DEF BridgeInv, Types
<1>1. /\ Peer(e) \in End /\ Peer(e) # e /\ Peer(Peer(e)) = e
      /\ \A d \in End : d = e \/ d = Peer(e)
  BY PeerFacts
<1> DEFINE p == Peer(e)
<1>2. faults = 0
  BY <1>0, SMT DEF Moves, Writes, Reads, Agrees, Fails, SameSock, SetUp
<1>3. Tally(e) /\ Tally(p)
  BY <1>1, <1>2 DEF RecordInv
<1>4. pc[e] \notin {"done", "failed"}
  BY <1>0 DEF Moves, Writes, Reads, Agrees, Fails
<1>5. sent[e] = 0 /\ delivered[e] = 0 /\ sent[p] \in Nat /\ delivered[p] = 0
      /\ \A d \in End : sent'[d] = sent[d] /\ delivered'[d] = delivered[d]
  BY <1>0, <1>1, <1>3, <1>4, BridgeAssumption, SMT DEF Tally, SetUp, Others
<1>6. pc'[p] = pc[p] /\ keys'[p] = keys[p] /\ Read(p)' = Read(p) /\ Written(p)' = Written(p)
  BY <1>0, <1>1 DEF Others, Read, Written, Keyed
<1>7. net[e] \in Seq(Msg) /\ net[p] \in Seq(Msg) /\ Len(net[e]) \in Nat /\ Len(net[p]) \in Nat
  BY <1>0, <1>1, LenProperties DEF NetType
<1>8. CASE Fails(e)
  BY <1>0, <1>1, <1>3, <1>8, FailTally DEF Fails, Others
<1>9. CASE Moves(e)
  <2>1. /\ Read(e)' = Read(e) /\ Written(e)' = Written(e) /\ pc'[e] # "failed"
        /\ UNCHANGED <<net, eof>> /\ keys'[e] = keys[e]
    BY <1>9 DEF Moves, Read, Written, Keyed, End
  <2>2. Tally(e)'
    BY <1>1, <1>3, <1>4, <1>5, <1>6, <2>1 DEF Tally, Consecutive, HellosWithin
  <2>3. Tally(p)'
    BY <1>1, <1>3, <1>4, <1>5, <1>6, <2>1, SMT DEF Tally, Consecutive, HellosWithin
  <2> QED
    BY <1>1, <2>2, <2>3
<1>10. CASE Reads(e) \/ Agrees(e)
  <2>1. /\ net[e] # <<>> /\ net' = [net EXCEPT ![e] = Tail(@)] /\ UNCHANGED eof
        /\ Read(e)' = Read(e) + 1 /\ Read(e) \in Int /\ Written(e)' = Written(e)
        /\ pc'[e] \notin {"failed", "done"}
    BY <1>10, SMT DEF Reads, Agrees, Read, Written, Keyed, SameSock, End
  <2>2. net'[e] = Tail(net[e]) /\ net'[p] = net[p]
    BY <1>0, <1>1, <2>1, TailNet
  <2>3. Consecutive(net[e], keys[p], p, sent[p]) /\ HellosWithin(net[e], 2 - Read(e))
    BY <1>3, <1>4, <1>5, <2>1, SMT DEF Tally
  <2>4. /\ Len(net'[e]) = Len(net[e]) - 1
        /\ Consecutive(net'[e], keys[p], p, sent[p]) /\ HellosWithin(net'[e], 2 - Read(e) - 1)
    <3> DEFINE s == net[e]
               k == keys[p]
               n == sent[p]
               h == 2 - Read(e)
    <3>1. s \in Seq(Msg) /\ s # <<>> /\ n \in Int /\ h \in Int /\ Consecutive(s, k, p, n)
      BY <1>5, <1>7, <2>1, <2>3, SMT
    <3>2. HellosWithin(s, h)
      BY <2>3
    <3> HIDE DEF s, k, n, h
    <3>3. /\ Len(Tail(s)) = Len(s) - 1
          /\ Consecutive(Tail(s), k, p, n) /\ HellosWithin(Tail(s), h - 1)
      BY <3>1, <3>2, TailConsecutive
    <3> QED
      BY <2>2, <3>3 DEF s, k, n, h
  <2>5. Tally(e)'
    <3>1. pc[p] # "failed" => Read(e)' + Len(net'[e]) + delivered'[e] = Written(p) + sent[p]
      BY <1>3, <1>4, <1>5, <1>7, <2>1, <2>4, SMT DEF Tally
    <3>2. HellosWithin(net'[e], 2 - Read(e)' - delivered'[e])
      <4>1. 2 - Read(e)' - delivered'[e] = 2 - Read(e) - 1
        BY <1>5, <2>1, SMT
      <4> QED
        BY <2>4, <4>1
    <3> QED
      BY <1>1, <1>3, <1>4, <1>5, <1>6, <2>1, <2>4, <3>1, <3>2 DEF Tally
  <2>6. Consecutive(net[p], keys'[e], e, 0)
    <3>1. Consecutive(net[p], keys[e], e, 0)
      BY <1>1, <1>3, <1>5 DEF Tally
    <3>2. \A i \in 1..Len(net[p]) : net[p][i].part # "record"
      BY <1>7, <3>1, NoneConsecutive
    <3> QED
      BY <3>2 DEF Consecutive
  <2>7. Tally(p)'
    <3>1. Written(e)' + sent'[e] = Written(e) + sent[e]
      BY <1>5, <2>1
    <3> QED
      BY <1>1, <1>3, <1>4, <1>5, <1>6, <2>1, <2>2, <2>6, <3>1 DEF Tally
  <2> QED
    BY <1>1, <2>5, <2>7
<1>11. CASE Writes(e)
  <2>1. PICK part \in {"len", "body"} : Put(e, hello(e, part))
    BY <1>11 DEF Writes
  <2> DEFINE m == hello(e, part)
  <2>2. m \in Msg /\ m.part # "record"
    BY <1>0, <1>11 DEF Writes, Agree, SetUp, hello, Msg, Hello
  <2>3. ~eof[p]
    BY <1>1, <1>3, <1>4 DEF Tally
  <2> HIDE DEF m
  <2>4. net' = [net EXCEPT ![p] = Append(net[p], m)]
    BY <2>1, <2>3 DEF Put, m
  <2>5. net'[e] = net[e] /\ net'[p] = Append(net[p], m)
    BY <1>0, <1>1, <2>4 DEF NetType
  <2>6. /\ Read(e)' = Read(e) /\ Written(e)' = Written(e) + 1 /\ Written(e) \in {0, 1}
        /\ UNCHANGED eof /\ keys'[e] = keys[e] /\ pc'[e] \notin {"failed", "done"}
    BY <1>11, SMT DEF Writes, Read, Written, Keyed, SameSock, End
  <2>7. Tally(e)'
    <3>1. HellosWithin(net[e], 2 - Read(e) - delivered[e])
      BY <1>3, <1>4 DEF Tally
    <3> QED
      BY <1>1, <1>3, <1>4, <1>5, <1>6, <2>5, <2>6, <3>1 DEF Tally
  <2>8. Consecutive(net[p], keys[e], e, 0) /\ Read(p) \in 0..2
    BY <1>1, <1>3, <1>5, SMT DEF Tally, Read
  <2>9. pc[p] # "failed" =>
           Read(p) + Len(net[p]) = Written(e) /\ Len(net[p]) + 1 <= 2 - Read(p)
    <3>1. pc[p] # "failed" => Read(p) + Len(net[p]) + delivered[p] = Written(e) + sent[e]
      BY <1>1, <1>3, <1>4 DEF Tally
    <3> QED
      BY <1>5, <1>7, <2>6, <2>8, <3>1, SMT
  <2>10. /\ Len(net'[p]) = Len(net[p]) + 1 /\ Consecutive(net'[p], keys[e], e, 0)
         /\ pc[p] # "failed" => HellosWithin(net'[p], 2 - Read(p))
    BY <1>7, <2>2, <2>5, <2>8, <2>9, AppendConsecutive, SMT
  <2>11. Tally(p)'
    <3>1. pc[p] # "failed" => Read(p) + Len(net'[p]) + delivered[p] = Written(e)' + sent[e]
      BY <1>5, <1>7, <2>6, <2>8, <2>9, <2>10, SMT
    <3>2. 2 - Read(p) - delivered[p] = 2 - Read(p)
      BY <1>5, <2>8, SMT
    <3> QED
      BY <1>1, <1>3, <1>4, <1>5, <1>6, <2>6, <2>10, <3>1, <3>2 DEF Tally
  <2> QED
    BY <1>1, <2>7, <2>11
<1> QED
  BY <1>0, <1>8, <1>9, <1>10, <1>11

\* A record that is sent is the next one.
LEMMA SendTally ==
    ASSUME BridgeInv, RecordInv, NEW e \in End, KtlsSend(e)
    PROVE  RecordInv'
<1> SUFFICES ASSUME faults = 0 PROVE \A d \in End : Tally(d)'
  BY DEF RecordInv, KtlsSend
<1>1. /\ Peer(e) \in End /\ Peer(e) # e /\ Peer(Peer(e)) = e
      /\ \A d \in End : d = e \/ d = Peer(e)
  BY PeerFacts
<1> DEFINE p == Peer(e)
           m == [part |-> "record", key |-> keys[e], by |-> tx[e], seq |-> sent[e]]
<1>2. Types /\ SetUp /\ NetType /\ Tally(e) /\ Tally(p) /\ Has_keys(e)
  BY <1>1, WritersHave DEF BridgeInv, Types, RecordInv
<1>3. /\ pc[e] = "done" /\ Put(e, m) /\ sent' = [sent EXCEPT ![e] = @ + 1]
      /\ UNCHANGED <<pc, keys, eof, delivered>>
  BY DEF KtlsSend
<1>4. /\ m \in Msg /\ m.part = "record" /\ m.key = keys[e] /\ m.by = e /\ m.seq = sent[e]
      /\ sent[e] \in Nat /\ delivered[p] \in Nat /\ delivered[e] \in Nat
  BY <1>1, <1>2, <1>3, BridgeAssumption, SMT DEF Has_keys, SetUp, Msg, Record
<1> HIDE DEF m
<1>5. ~eof[p]
  BY <1>1, <1>2, <1>3 DEF Tally
<1>6. net' = [net EXCEPT ![p] = Append(net[p], m)]
  BY <1>3, <1>5 DEF Put
<1>7. /\ net'[e] = net[e] /\ net'[p] = Append(net[p], m)
      /\ sent'[e] = sent[e] + 1 /\ sent'[p] = sent[p]
      /\ net[p] \in Seq(Msg) /\ Len(net[p]) \in Nat
  BY <1>1, <1>2, <1>3, <1>6, LenProperties DEF NetType, SetUp
<1>8. \A d \in End : Read(d)' = Read(d) /\ Written(d)' = Written(d) /\ Read(d) \in Int /\ Written(d) \in Int
  BY <1>3, SMT DEF Read, Written, Keyed
<1>9. Tally(e)'
  <2>1. Consecutive(net'[e], keys'[p], p, sent'[p])
    BY <1>2, <1>3, <1>7 DEF Tally
  <2> QED
    BY <1>1, <1>2, <1>3, <1>7, <1>8, <2>1 DEF Tally, HellosWithin
<1>10. Tally(p)'
  <2> DEFINE s == net[p]
             k == keys[e]
             n == sent[e]
             h == 2 - Read(p) - delivered[p]
  <2>1. s \in Seq(Msg) /\ n \in Nat /\ h \in Int /\ Consecutive(s, k, e, n)
    BY <1>1, <1>2, <1>4, <1>7, <1>8, SMT DEF Tally
  <2>2. pc[p] # "failed" => HellosWithin(s, h)
    BY <1>2 DEF Tally
  <2>3. m.key = k /\ m.by = e /\ m.seq = n
    BY <1>4
  <2> HIDE DEF s, k, n, h
  <2>4. /\ Len(Append(s, m)) = Len(s) + 1 /\ Consecutive(Append(s, m), k, e, n + 1)
        /\ pc[p] # "failed" => HellosWithin(Append(s, m), h)
    BY <1>4, <2>1, <2>2, <2>3, AppendConsecutive
  <2>5. /\ Len(net'[p]) = Len(net[p]) + 1 /\ Consecutive(net'[p], keys[e], e, sent'[e])
        /\ pc[p] # "failed" => HellosWithin(net'[p], 2 - Read(p) - delivered[p])
    BY <1>7, <2>4 DEF s, k, n, h
  <2>6. pc[p] # "failed" => Read(p) + Len(net[p]) + delivered[p] = Written(e) + sent[e]
    BY <1>1, <1>2, <1>3 DEF Tally
  <2>7. pc[p] # "failed" => Read(p) + Len(net'[p]) + delivered[p] = Written(e) + sent'[e]
    <3> DEFINE r == Read(p)
               w == Written(e)
               l == Len(net[p])
               v == delivered[p]
    <3>1. r \in Int /\ w \in Int /\ l \in Nat /\ v \in Nat /\ sent[e] \in Nat
      BY <1>1, <1>4, <1>7, <1>8
    <3>2. Len(net'[p]) = l + 1 /\ sent'[e] = sent[e] + 1
      BY <1>7, <2>5
    <3>3. pc[p] # "failed" => r + l + v = w + sent[e]
      BY <2>6
    <3> HIDE DEF r, w, l, v
    <3>4. pc[p] # "failed" => r + (l + 1) + v = w + (sent[e] + 1)
      BY <3>1, <3>3, SMT
    <3>5. pc[p] # "failed" => r + Len(net'[p]) + v = w + sent'[e]
      BY <3>2, <3>4
    <3> QED
      BY <3>5 DEF r, w, v
  <2>8. (sent[p] > 0 => pc[p] = "done") /\ (pc[p] # "done" => delivered[p] = 0)
        /\ delivered[p] <= sent'[e]
    BY <1>1, <1>2, <1>4, <1>7, SMT DEF Tally
  <2> QED
    BY <1>1, <1>3, <1>5, <1>7, <1>8, <2>5, <2>7, <2>8 DEF Tally
<1> QED
  BY <1>1, <1>9, <1>10

\* A record that arrives opens: it is the next one, under the agreed key.
LEMMA RecvTally ==
    ASSUME BridgeInv, RecordInv, NEW e \in End, KtlsRecv(e)
    PROVE  RecordInv'
<1> SUFFICES ASSUME faults = 0 PROVE \A d \in End : Tally(d)'
  BY DEF RecordInv, KtlsRecv
<1>1. /\ Peer(e) \in End /\ Peer(e) # e /\ Peer(Peer(e)) = e
      /\ \A d \in End : d = e \/ d = Peer(e)
  BY PeerFacts
<1> DEFINE p == Peer(e)
           m == net[e][1]
<1>2. /\ Types /\ SetUp /\ NetType /\ Tally(e) /\ Tally(p) /\ Agree(e) /\ Agree(p)
      /\ Staged(e)
  BY <1>1 DEF BridgeInv, Types, RecordInv
<1>3. /\ pc[e] = "done" /\ net[e] # <<>> /\ net' = [net EXCEPT ![e] = Tail(@)]
      /\ UNCHANGED <<pc, keys, sent>>
  BY DEF KtlsRecv
<1>4. /\ net'[e] = Tail(net[e]) /\ net'[p] = net[p] /\ Head(net[e]) = m
      /\ 1 \in 1..Len(net[e]) /\ net[e] \in Seq(Msg) /\ Len(net[e]) \in Nat
  BY <1>1, <1>2, <1>3, TailNet, LenProperties DEF NetType
<1>5. /\ sent[p] \in Nat /\ delivered[e] \in Nat /\ delivered[p] \in Nat /\ sent[e] \in Nat
      /\ Read(e) = 2
  BY <1>1, <1>2, <1>3, BridgeAssumption, SMT DEF SetUp, Read, Keyed
<1>6. m.part = "record"
  <2>1. HellosWithin(net[e], 2 - Read(e) - delivered[e])
    BY <1>2, <1>3 DEF Tally
  <2>2. m.part # "record" => 1 <= 2 - Read(e) - delivered[e]
    BY <1>4, <2>1 DEF HellosWithin
  <2> QED
    BY <1>5, <2>2, SMT
<1>7. m.key = keys[p] /\ m.by = p /\ m.seq = sent[p] - (Len(net[e]) - 1) - 1 /\ m.seq \in Nat
  <2>1. Consecutive(net[e], keys[p], p, sent[p])
    BY <1>2 DEF Tally
  <2>2. m.key = keys[p] /\ m.by = p /\ m.seq = sent[p] - (Len(net[e]) - 1) - 1
    BY <1>4, <1>6, <2>1 DEF Consecutive
  <2>3. m \in Record
    BY <1>4, <1>6, ElementOfSeq, MsgParts
  <2> QED
    BY <2>2, <2>3 DEF Record
<1>8. pc[p] = "done" /\ sent[p] = delivered[e] + Len(net[e])
  <2>1. sent[p] > 0
    BY <1>4, <1>5, <1>7, SMT
  <2>2. pc[p] = "done"
    BY <1>2, <2>1 DEF Tally
  <2>3. Read(e) + Len(net[e]) + delivered[e] = Written(p) + sent[p] /\ Written(p) = 2
    BY <1>2, <1>3, <2>2 DEF Tally, Written
  <2> QED
    BY <1>4, <1>5, <2>2, <2>3, SMT
<1>9. Opens(e, m)
  <2>1. keys[e] = keys[p] /\ rx[e] = p
    BY <1>1, <1>2, <1>3, <1>8 DEF Agree, Staged, Keyed
  <2>2. m.seq = delivered[e]
    BY <1>4, <1>5, <1>7, <1>8, SMT
  <2> QED
    BY <1>6, <1>7, <2>1, <2>2 DEF Opens
<1>10. delivered' = [delivered EXCEPT ![e] = @ + 1] /\ UNCHANGED eof
  BY <1>4, <1>9 DEF KtlsRecv
<1>11. delivered'[e] = delivered[e] + 1 /\ delivered'[p] = delivered[p]
  BY <1>1, <1>2, <1>10 DEF SetUp
<1>12. \A d \in End : Read(d)' = Read(d) /\ Written(d)' = Written(d)
  BY <1>3 DEF Read, Written, Keyed
<1>13. Tally(e)'
  <2> DEFINE s == net[e]
             k == keys[p]
             n == sent[p]
             h == 0 - delivered[e]
  <2>1. s \in Seq(Msg) /\ s # <<>> /\ n \in Int /\ h \in Int /\ Consecutive(s, k, p, n)
    BY <1>2, <1>3, <1>4, <1>5, SMT DEF Tally
  <2>2. HellosWithin(s, h)
    <3>1. HellosWithin(net[e], 2 - Read(e) - delivered[e])
      BY <1>2, <1>3 DEF Tally
    <3>2. 2 - Read(e) - delivered[e] = h
      BY <1>5, SMT
    <3> QED
      BY <3>1, <3>2
  <2> HIDE DEF s, k, n, h
  <2>3. /\ Len(Tail(s)) = Len(s) - 1
        /\ Consecutive(Tail(s), k, p, n) /\ HellosWithin(Tail(s), h - 1)
    BY <2>1, <2>2, TailConsecutive
  <2>4. /\ Len(net'[e]) = Len(net[e]) - 1
        /\ Consecutive(net'[e], keys[p], p, sent[p]) /\ HellosWithin(net'[e], 0 - delivered[e] - 1)
    BY <1>4, <2>3 DEF s, k, n, h
  <2>5. 2 - Read(e)' - delivered'[e] = 0 - delivered[e] - 1
    BY <1>5, <1>11, <1>12, SMT
  <2>6. delivered'[e] <= sent[p]
    BY <1>4, <1>5, <1>8, <1>11, SMT
  <2>7. Read(e)' + Len(net'[e]) + delivered'[e] = Written(p)' + sent'[p]
    <3>1. Written(p)' = 2 /\ Read(e)' = 2 /\ sent'[p] = sent[p]
      BY <1>3, <1>5, <1>8, <1>12 DEF Written
    <3> DEFINE l == Len(net[e])
               v == delivered[e]
    <3>2. /\ l \in Nat /\ v \in Nat /\ Len(net'[e]) = l - 1 /\ delivered'[e] = v + 1
          /\ sent'[p] = v + l
      BY <1>4, <1>5, <1>8, <1>11, <2>4, <3>1
    <3> HIDE DEF l, v
    <3>3. 2 + (l - 1) + (v + 1) = 2 + (v + l)
      BY <3>2, SMT
    <3> QED
      BY <3>1, <3>2, <3>3
  <2> QED
    BY <1>2, <1>3, <1>10, <2>4, <2>5, <2>6, <2>7 DEF Tally
<1>14. Tally(p)'
  BY <1>1, <1>2, <1>3, <1>4, <1>10, <1>11, <1>12 DEF Tally
<1> QED
  BY <1>1, <1>13, <1>14

\* Nothing has happened at first.
LEMMA InitBridge == Init => BridgeInv /\ RecordInv
<1> SUFFICES ASSUME Init PROVE BridgeInv /\ RecordInv
  OBVIOUS
<1>1. trusted \in BOOLEAN /\ damaged \in BOOLEAN
  BY DEF Init
<1>2. /\ suite \in [End -> Suite \cup {NoSuite}] /\ keys \in [End -> Suite \cup {NoSuite}]
      /\ pc \in [End -> Pc] /\ fd \in [End -> {"open", "closed", "shut"}]
      /\ ulp \in [End -> BOOLEAN] /\ eof \in [End -> BOOLEAN]
  BY DEF Init, Pc
<1>3. tx \in [End -> End \cup {"none"}] /\ rx \in [End -> End \cup {"none"}]
  BY DEF Init
<1>4. sent \in [End -> 0..MaxRecords] /\ delivered \in [End -> Nat] /\ faults \in 0..MaxFaults
  BY BridgeAssumption, SMT DEF Init
<1>5. NetType /\ \A e \in End : net[e] = <<>> /\ Honest(e)
  BY EmptySeq, SMT DEF Init, NetType, Honest
<1>6. ResponderFirst
  BY <1>5 DEF Init, ResponderFirst, End
<1>7. \A e \in End : Agree(e) /\ Staged(e)
  BY <1>5 DEF Init, Agree, Staged, Keyed
<1>8. ASSUME NEW e \in End PROVE Tally(e)
  <2>1. net[e] = <<>> /\ Len(net[e]) = 0
    BY DEF Init
  <2>2. Consecutive(net[e], keys[Peer(e)], Peer(e), sent[Peer(e)]) /\ HellosWithin(net[e], 2)
    BY <2>1, SMT DEF Consecutive, HellosWithin
  <2>3. /\ ~eof[e] /\ pc[e] = "start" /\ pc[Peer(e)] = "start" /\ sent[e] = 0 /\ sent[Peer(e)] = 0
        /\ delivered[e] = 0
    BY PeerFacts DEF Init
  <2>4. Read(e) = 0 /\ Written(Peer(e)) = 0
    BY <2>3 DEF Read, Written, Keyed
  <2> QED
    BY <2>1, <2>2, <2>3, <2>4, SMT DEF Tally
<1> QED
  BY <1>1, <1>2, <1>3, <1>4, <1>5, <1>6, <1>7, <1>8 DEF BridgeInv, Types, SetUp, RecordInv

\* The network and the kernel keep the tally; a fault voids it.
LEMMA AroundTally ==
    ASSUME BridgeInv, RecordInv, Surroundings
    PROVE  RecordInv'
<1>1. ASSUME Cut \/ \E e \in End : Damage(e) PROVE RecordInv'
  <2>1. faults' = faults + 1 /\ faults \in 0..MaxFaults
    BY <1>1 DEF Cut, Damage, BridgeInv, Types, SetUp
  <2>2. faults' # 0
    BY <2>1, SMT
  <2> QED
    BY <2>2 DEF RecordInv
<1> QED
  BY <1>1, SendTally, RecvTally DEF Surroundings, Kernel

\* What leaves the connection alone leaves the invariants.
LEMMA SameBridge ==
    ASSUME BridgeInv, RecordInv, UNCHANGED vars
    PROVE  BridgeInv' /\ RecordInv'
<1>1. /\ UNCHANGED <<suite, trusted, pc, keys, ulp, tx, rx, fd, net, eof, sent, delivered>>
      /\ UNCHANGED <<faults, damaged>>
  BY DEF vars, sock, wire
<1>2. BridgeInv'
  BY <1>1, SMT DEF BridgeInv, Types, SetUp, NetType, ResponderFirst, Agree, Honest, Staged, Keyed
<1>3. \A d \in End : Tally(d) => Tally(d)'
  BY <1>1, SameTally
<1> QED
  BY <1>1, <1>2, <1>3 DEF RecordInv

-----------------------------------------------------------------------------
(* What the invariants say.                                               *)

\* Two ends that are bridged hold the same keys and trust each other.
LEMMA AgreeHolds == BridgeInv => BridgedAgree
<1> SUFFICES ASSUME BridgeInv, NEW e \in End, pc[e] = "done"
             PROVE  /\ trusted /\ keys[e] = suite[Peer(e)]
                    /\ keys[Peer(e)] \in {keys[e], NoSuite}
                    /\ e = "initiator" => keys[Peer(e)] = keys[e]
  BY DEF BridgedAgree
<1>1. Agree(e) /\ Agree(Peer(e)) /\ ResponderFirst /\ pc[e] \in Keyed(e)
  BY PeerFacts DEF BridgeInv, Keyed
<1>2. trusted /\ keys[e] # NoSuite /\ keys[e] = suite[e] /\ suite[e] = suite[Peer(e)]
  BY <1>1 DEF Agree
<1>3. keys[Peer(e)] \in {keys[e], NoSuite}
  BY <1>1, <1>2 DEF Agree
<1>4. e = "initiator" => keys[Peer(e)] # NoSuite
  BY <1>1, <1>2 DEF ResponderFirst, Peer
<1> QED
  BY <1>2, <1>3, <1>4

\* What a kernel has delivered and what is under way are what was sent.
LEMMA RecordsHold == BridgeInv /\ RecordInv => NoRecordLost
<1> SUFFICES ASSUME BridgeInv, RecordInv, faults = 0, NEW e \in End
             PROVE  /\ \A i \in DOMAIN net[e] : net[e][i].part = "record" =>
                          net[e][i].seq = sent[Peer(e)] - (Len(net[e]) - i) - 1
                    /\ pc[e] = "done" => sent[Peer(e)] = delivered[e] + Len(net[e])
  BY DEF NoRecordLost
<1> DEFINE p == Peer(e)
<1>1. /\ Tally(e) /\ p \in End /\ net[e] \in Seq(Msg) /\ Len(net[e]) \in Nat
      /\ DOMAIN net[e] = 1..Len(net[e]) /\ SetUp
  BY PeerFacts, LenProperties DEF RecordInv, BridgeInv, Types, NetType
<1>2. Consecutive(net[e], keys[p], p, sent[p])
  BY <1>1 DEF Tally
<1>3. \A i \in DOMAIN net[e] : net[e][i].part = "record" =>
         net[e][i].seq = sent[p] - (Len(net[e]) - i) - 1
  BY <1>1, <1>2 DEF Consecutive
<1>4. ASSUME pc[e] = "done" PROVE sent[p] = delivered[e] + Len(net[e])
  <2>1. sent[p] \in Nat /\ delivered[e] \in Nat /\ Read(e) = 2 /\ Written(p) \in 0..2
    BY <1>1, <1>4, BridgeAssumption, SMT DEF SetUp, Read, Written, Keyed
  <2>2. CASE pc[p] # "failed"
    <3>1. Read(e) + Len(net[e]) + delivered[e] = Written(p) + sent[p]
      BY <1>1, <1>4, <2>2 DEF Tally
    <3>2. sent[p] > 0 => Written(p) = 2
      BY <1>1, PeerFacts DEF RecordInv, Tally, Written
    <3> DEFINE r == Read(e)
               w == Written(p)
               l == Len(net[e])
    <3>3. r = 2 /\ w \in 0..2 /\ l \in Nat /\ r + l + delivered[e] = w + sent[p] /\ (sent[p] > 0 => w = 2)
      BY <1>1, <2>1, <3>1, <3>2
    <3> HIDE DEF r, w, l
    <3>4. sent[p] = delivered[e] + l
      BY <2>1, <3>3, SMT
    <3> QED
      BY <3>4 DEF l
  <2>3. CASE pc[p] = "failed"
    <3>1. sent[p] = 0
      BY <1>1, <2>1, <2>3, PeerFacts, SMT DEF RecordInv, Tally
    <3>2. delivered[e] = 0
      BY <1>1, <2>1, <3>1, SMT DEF Tally
    <3>3. HellosWithin(net[e], 0)
      <4>1. HellosWithin(net[e], 2 - Read(e) - delivered[e])
        BY <1>1, <1>4 DEF Tally
      <4>2. 2 - Read(e) - delivered[e] = 0
        BY <2>1, <3>2, SMT
      <4> QED
        BY <4>1, <4>2
    <3>4. \A i \in 1..Len(net[e]) : net[e][i].part # "record"
      <4>1. Consecutive(net[e], keys[p], p, 0)
        BY <1>2, <3>1
      <4> QED
        BY <1>1, <4>1, NoneConsecutive
    <3>5. Len(net[e]) = 0
      BY <1>1, <3>3, <3>4, SMT DEF HellosWithin
    <3> QED
      BY <3>1, <3>2, <3>5, SMT
  <2> QED
    BY <2>2, <2>3
<1> QED
  BY <1>3, <1>4

=============================================================================
