------------------------------- MODULE Bridge -------------------------------
(***************************************************************************)
(* The v2 control daemon on one connection: the over-socket handshake      *)
(* (over_socket.rs) in user space, then the hand-over of the live socket   *)
(* to kernel TLS (kernel_native.rs), at both ends of the connection.       *)
(*                                                                         *)
(* One tokio task runs each end; every await and every setsockopt is a     *)
(* step.  A handshake frame is a length and a body; a kTLS record is one   *)
(* item.  The kernel's TLS layer is modelled from how the bridge uses it.  *)
(***************************************************************************)
EXTENDS Integers, Sequences

CONSTANTS
    Suite,       \* cipher suites
    NoSuite,     \* no policy, or no identity: nothing to start with
    MaxRecords,  \* bound: records an end sends through kernel TLS
    MaxFaults    \* bound: frames damaged, connections cut, setsockopts failed

ASSUME BridgeAssumption ==
    /\ NoSuite \notin Suite
    /\ MaxRecords \in Nat /\ MaxFaults \in Nat

End == {"initiator", "responder"}

Peer(e) == IF e = "initiator" THEN "responder" ELSE "initiator"

VARIABLES
    suite,      \* configured_suite of each end
    trusted,    \* the ends pin each other's identity
    pc,         \* where the task of an end is
    keys,       \* the session an end derived, NoSuite if none
    ulp,        \* the TLS ULP is attached
    tx, rx,     \* kTLS directions: the writer of the key, or "none"
    fd,         \* the descriptor: "open", "closed", or "shut" and closed
    net,        \* bytes on their way to an end
    eof,        \* no more will come
    sent,       \* records an end sent through kernel TLS
    delivered,  \* records its kernel delivered, in order
    faults,
    damaged     \* history: a frame or a record was altered on its way

sock == <<ulp, tx, rx, fd>>
wire == <<net, eof>>
vars == <<suite, trusted, pc, keys, sock, wire, sent, delivered, faults, damaged>>

\* What travels: parts of a handshake frame, and records.
Hello == [part : {"len", "body"}, suite : Suite, ok : BOOLEAN]

Record == [part : {"record"}, key : Suite, by : End, seq : Nat]

hello(e, part) == [part |-> part, suite |-> suite[e], ok |-> TRUE]

Init ==
    /\ suite \in [End -> Suite \cup {NoSuite}]
    /\ trusted \in BOOLEAN
    /\ pc = [e \in End |-> "start"]
    /\ keys = [e \in End |-> NoSuite]
    /\ ulp = [e \in End |-> FALSE]
    /\ tx = [e \in End |-> "none"] /\ rx = [e \in End |-> "none"]
    /\ fd = [e \in End |-> "open"]
    /\ net = [e \in End |-> <<>>] /\ eof = [e \in End |-> FALSE]
    /\ sent = [e \in End |-> 0] /\ delivered = [e \in End |-> 0]
    /\ faults = 0 /\ damaged = FALSE

-----------------------------------------------------------------------------
\* Bytes written behind a break do not arrive.
Put(e, m) ==
    net' = [net EXCEPT ![Peer(e)] = IF eof[Peer(e)] THEN @ ELSE Append(@, m)]

Goto(e, from, to) == pc[e] = from /\ pc' = [pc EXCEPT ![e] = to]

\* Mutant of Dropped: the descriptor leaks, the peer sees no end of file.
DroppedLeaks(e) ==
    /\ pc' = [pc EXCEPT ![e] = "failed"]
    /\ UNCHANGED <<fd, eof>>

\* The stream goes out of scope: its descriptor is closed, the peer reads what
\* is under way and then end of file.
Dropped(e) ==
    /\ pc' = [pc EXCEPT ![e] = "failed"]
    /\ fd' = [fd EXCEPT ![e] = "closed"]
    /\ eof' = [eof EXCEPT ![Peer(e)] = TRUE]

\* Mutant of Start: an unconfigured daemon starts all the same.
StartUnconfigured(e) ==
    /\ Goto(e, "start", IF e = "initiator" THEN "wlen" ELSE "rlen")
    /\ UNCHANGED <<suite, trusted, keys, sock, wire, sent, delivered, faults, damaged>>

\* serve_over_socket: suite and identity, then the role's first message.
Start(e) ==
    /\ \/ /\ suite[e] # NoSuite
          /\ Goto(e, "start", IF e = "initiator" THEN "wlen" ELSE "rlen")
          /\ UNCHANGED <<fd, eof>>
       \/ /\ pc[e] = "start" /\ suite[e] = NoSuite
          /\ Dropped(e)
    /\ UNCHANGED <<suite, trusted, keys, ulp, tx, rx, net, sent, delivered, faults, damaged>>

\* write_frame: the length, then the payload.
WriteFrame(e) ==
    /\ \/ /\ \/ Goto(e, "wlen", "wbody") /\ Put(e, hello(e, "len"))
             \/ /\ Goto(e, "wbody", IF e = "initiator" THEN "rlen" ELSE "ulp")
                /\ Put(e, hello(e, "body"))
          /\ UNCHANGED <<fd, eof>>
       \/ /\ pc[e] \in {"wlen", "wbody"} /\ eof[e]
          /\ Dropped(e)
          /\ UNCHANGED net
    /\ UNCHANGED <<suite, trusted, keys, ulp, tx, rx, sent, delivered, faults, damaged>>

\* Mutant of Accepts: any suite will do.
AcceptsAnySuite(e, m) == m.part = "body" /\ m.ok /\ trusted

\* engine.respond and InitiatorState::finish: identities, signatures, suites.
Accepts(e, m) == m.part = "body" /\ m.ok /\ trusted /\ m.suite = suite[e]

\* read_frame: read_exact takes the length, then the payload, and no more.  A
\* length that is not the one written is refused when it is out of range.
\* Otherwise it asks for bytes that come, or for more than will ever come.
ReadLen(e) ==
    /\ pc[e] = "rlen"
    /\ \/ /\ net[e] # <<>>
          /\ \E to \in IF Head(net[e]).ok THEN {"rbody"} ELSE {"rother", "rmore"} :
                pc' = [pc EXCEPT ![e] = to]
          /\ net' = [net EXCEPT ![e] = Tail(@)]
          /\ UNCHANGED <<fd, eof>>
       \/ /\ net[e] # <<>> /\ ~Head(net[e]).ok
          /\ Dropped(e)
          /\ UNCHANGED net
       \/ /\ net[e] = <<>> /\ eof[e]
          /\ Dropped(e)
          /\ UNCHANGED net
    /\ UNCHANGED <<suite, trusted, keys, ulp, tx, rx, sent, delivered, faults, damaged>>

\* The payload of another length is no hello.  The one that asks for too much is
\* over only at end of file: no timeout is set.
ReadOther(e) ==
    /\ \/ pc[e] = "rother" /\ net[e] # <<>>
       \/ pc[e] \in {"rother", "rmore"} /\ eof[e]
    /\ Dropped(e)
    /\ UNCHANGED <<suite, trusted, keys, ulp, tx, rx, net, sent, delivered, faults, damaged>>

\* Mutant of ReadBody: a buffered reader takes what is behind the payload along.
ReadBodyBuffered(e) ==
    /\ pc[e] = "rbody" /\ net[e] # <<>> /\ Accepts(e, Head(net[e]))
    /\ keys' = [keys EXCEPT ![e] = suite[e]]
    /\ pc' = [pc EXCEPT ![e] = IF e = "initiator" THEN "ulp" ELSE "wlen"]
    /\ net' = [net EXCEPT ![e] = <<>>]
    /\ UNCHANGED <<suite, trusted, sock, eof, sent, delivered, faults, damaged>>

ReadBody(e) ==
    /\ pc[e] = "rbody"
    /\ \/ /\ net[e] # <<>> /\ Accepts(e, Head(net[e]))
          /\ keys' = [keys EXCEPT ![e] = suite[e]]
          /\ pc' = [pc EXCEPT ![e] = IF e = "initiator" THEN "ulp" ELSE "wlen"]
          /\ net' = [net EXCEPT ![e] = Tail(@)]
          /\ UNCHANGED <<fd, eof>>
       \/ /\ net[e] # <<>> /\ ~Accepts(e, Head(net[e]))
          /\ Dropped(e)
          /\ UNCHANGED <<net, keys>>
       \/ /\ net[e] = <<>> /\ eof[e]
          /\ Dropped(e)
          /\ UNCHANGED <<net, keys>>
    /\ UNCHANGED <<suite, trusted, ulp, tx, rx, sent, delivered, faults, damaged>>

\* Mutant of fail_closed_shutdown: the error is reported and no more.
fail_closed_report(e) == UNCHANGED <<fd, eof>>

\* shutdown(SHUT_RDWR), then close.
fail_closed_shutdown(e) ==
    /\ fd' = [fd EXCEPT ![e] = "shut"]
    /\ eof' = [eof EXCEPT ![Peer(e)] = TRUE]

\* bridge_session_to_ktls: attach the ULP, install TX, install RX.  A stage that
\* fails ends in fail_closed_shutdown.
Ktls(e) ==
    /\ \/ Goto(e, "ulp", "tx") /\ ulp' = [ulp EXCEPT ![e] = TRUE] /\ UNCHANGED <<tx, rx>>
       \/ Goto(e, "tx", "rx") /\ tx' = [tx EXCEPT ![e] = e] /\ UNCHANGED <<ulp, rx>>
       \/ Goto(e, "rx", "done") /\ rx' = [rx EXCEPT ![e] = Peer(e)] /\ UNCHANGED <<ulp, tx>>
    /\ UNCHANGED <<suite, trusted, keys, fd, wire, sent, delivered, faults, damaged>>

\* The kernel refuses the ULP on a connection the peer has ended; any stage can
\* fail for want of kernel support.
KtlsFails(e) ==
    /\ pc[e] \in {"ulp", "tx", "rx"}
    /\ \/ pc[e] = "ulp" /\ eof[e] /\ UNCHANGED faults
       \/ faults < MaxFaults /\ faults' = faults + 1
    /\ fail_closed_shutdown(e)
    /\ pc' = [pc EXCEPT ![e] = "failed"]
    /\ UNCHANGED <<suite, trusted, keys, ulp, tx, rx, net, sent, delivered, damaged>>

-----------------------------------------------------------------------------
(* The kernel's TLS layer, the applications above it and the network.      *)

KtlsSend(e) ==
    /\ pc[e] = "done" /\ fd[e] = "open" /\ sent[e] < MaxRecords
    /\ Put(e, [part |-> "record", key |-> keys[e], by |-> tx[e], seq |-> sent[e]])
    /\ sent' = [sent EXCEPT ![e] = @ + 1]
    /\ UNCHANGED <<suite, trusted, pc, keys, sock, eof, delivered, faults, damaged>>

Opens(e, m) ==
    /\ m.part = "record"
    /\ m.key = keys[e] /\ m.by = rx[e] /\ m.seq = delivered[e]

KtlsRecv(e) ==
    /\ pc[e] = "done" /\ fd[e] = "open" /\ net[e] # <<>>
    /\ net' = [net EXCEPT ![e] = Tail(@)]
    /\ \/ /\ Opens(e, Head(net[e]))
          /\ delivered' = [delivered EXCEPT ![e] = @ + 1]
          /\ UNCHANGED <<fd, eof>>
       \/ /\ ~Opens(e, Head(net[e]))
          /\ fd' = [fd EXCEPT ![e] = "shut"]
          /\ eof' = [eof EXCEPT ![Peer(e)] = TRUE]
          /\ UNCHANGED delivered
    /\ UNCHANGED <<suite, trusted, pc, keys, ulp, tx, rx, sent, faults, damaged>>

Altered(m) == IF m.part = "record" THEN [m EXCEPT !.seq = @ + 1] ELSE [m EXCEPT !.ok = FALSE]

\* A frame or a record is damaged, or the connection breaks.
Damage(e) ==
    /\ faults < MaxFaults /\ faults' = faults + 1
    /\ \E i \in DOMAIN net[e] : net' = [net EXCEPT ![e][i] = Altered(@)]
    /\ damaged' = TRUE
    /\ UNCHANGED <<suite, trusted, pc, keys, sock, eof, sent, delivered>>

Cut ==
    /\ faults < MaxFaults /\ faults' = faults + 1
    /\ eof' = [e \in End |-> TRUE]
    /\ \E i \in 0..Len(net["initiator"]), r \in 0..Len(net["responder"]) :
          net' = [e \in End |-> SubSeq(net[e], 1, IF e = "initiator" THEN i ELSE r)]
    /\ UNCHANGED <<suite, trusted, pc, keys, sock, sent, delivered, damaged>>

-----------------------------------------------------------------------------
Task(e) ==
    \/ Start(e) \/ WriteFrame(e)
    \/ ReadLen(e) \/ ReadBody(e) \/ ReadOther(e)
    \/ Ktls(e) \/ KtlsFails(e)

Kernel(e) == KtlsSend(e) \/ KtlsRecv(e)

Next ==
    \/ \E e \in End : Task(e) \/ Kernel(e) \/ Damage(e)
    \/ Cut

Spec == Init /\ [][Next]_vars

-----------------------------------------------------------------------------
\* Every variable has its type; what travels before the records are hellos of
\* a configured suite.
TypeOK ==
    /\ suite \in [End -> Suite \cup {NoSuite}] /\ trusted \in BOOLEAN
    /\ pc \in [End -> {"start", "wlen", "wbody", "rlen", "rbody", "rother", "rmore", "ulp",
                   "tx", "rx", "done", "failed"}]
    /\ keys \in [End -> Suite \cup {NoSuite}]
    /\ ulp \in [End -> BOOLEAN]
    /\ tx \in [End -> End \cup {"none"}] /\ rx \in [End -> End \cup {"none"}]
    /\ fd \in [End -> {"open", "closed", "shut"}]
    /\ net \in [End -> Seq(Hello \cup Record)] /\ eof \in [End -> BOOLEAN]
    /\ sent \in [End -> 0..MaxRecords] /\ delivered \in [End -> Nat]
    /\ faults \in 0..MaxFaults /\ damaged \in BOOLEAN

\* A socket is either fully under kernel TLS, both directions, or closed: when
\* a task is over, no stage of handshake or bridge that failed leaves a
\* half-protected descriptor behind.
AllOrNothing ==
    \A e \in End :
        /\ pc[e] = "failed" => fd[e] # "open"
        /\ pc[e] = "done" => ulp[e] /\ tx[e] = e /\ rx[e] = Peer(e) /\ keys[e] # NoSuite

\* A daemon that has handed its socket over has agreed on the keys with the
\* trusted end it is connected to: the initiator's peer holds the same keys
\* already, the responder's holds the same ones or none yet.
BridgedAgree ==
    \A e \in End : pc[e] = "done" =>
        /\ trusted /\ keys[e] = suite[Peer(e)]
        /\ keys[Peer(e)] \in {keys[e], NoSuite}
        /\ e = "initiator" => keys[Peer(e)] = keys[e]

\* The handshake takes no byte of the records behind it: while nothing is
\* damaged, what a kernel delivers and what is still under way are the records
\* the other end sent, the ones sent before this end was bridged included.
NoRecordLost ==
    faults = 0 =>
        \A e \in End :
            LET records == {i \in DOMAIN net[e] : net[e][i].part = "record"} IN
            /\ \A i \in records : net[e][i].seq = sent[Peer(e)] - (Len(net[e]) - i) - 1
            /\ pc[e] = "done" => sent[Peer(e)] = delivered[e] + Len(net[e])

=============================================================================
