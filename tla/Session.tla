------------------------------ MODULE Session ------------------------------
(***************************************************************************)
(* One overlaid TCP connection: the two FdStates at its ends, the library  *)
(* calls overlay_send / overlay_recv that drive them, and the byte streams *)
(* between the two kernels.                                                *)
(*                                                                         *)
(* A frame travels as two fragments, so that flush_backlog and pull_wire   *)
(* can stop in the middle of one.  A step of a call is one system call     *)
(* together with the local computation up to the next one: everything else *)
(* runs under the per-fd lock and is invisible to the peer.                *)
(*                                                                         *)
(* Cryptography is symbolic.  A session is the term its key schedule is    *)
(* computed from; a payload is described by the key that made it, and its  *)
(* `body` says what the network did to its bytes.                          *)
(***************************************************************************)
EXTENDS Integers, Sequences

CONSTANTS
    Suite,       \* the cipher suites a policy can pin
    Psk,         \* the pre-shared keys a node can be given
    NoPsk,       \* SYNTRIASS_FALLBACK_PSK_HEX unset or malformed
    Configs,     \* the pairs of node configurations to consider
    MaxSend,     \* bound: records an application seals
    MaxChunks,   \* bound: records one send call is split into
    SockCap,     \* the most fragments the kernels hold per direction
    PullMax,     \* fragments one recv(2) returns at most (8192 bytes)
    TxCap,       \* MAX_WRITE_BACKLOG, in fragments
    RxCap,       \* MAX_WIRE_RX_BUFFER, in fragments
    PlainCap,    \* MAX_PLAIN_RX_BUFFER, in records
    MaxCounter,  \* u64::MAX, the counter value that is never used
    MaxFaults    \* bound: frames the network damages

Endpoint == {"initiator", "responder"}

Peer(e) == IF e = "initiator" THEN "responder" ELSE "initiator"

\* BadPolicy is a policy that does not parse; "foreign" identity material is
\* well formed but not the one the peer pins; sndbuf is how many fragments on
\* their way the kernels hold before a send is cut short.
BadPolicy == "bad policy"

Config == [suite : Suite \cup {BadPolicy}, pqc : BOOLEAN, psk : Psk \cup {NoPsk},
           identity : {"paired", "foreign", "none"}, blocking : BOOLEAN, sndbuf : 1..SockCap]

ASSUME ConfigsAssumption ==
    /\ BadPolicy \notin Suite
    /\ NoPsk \notin Psk
    /\ Configs \subseteq [Endpoint -> Config]

ASSUME BoundsAssumption ==
    /\ MaxSend \in Nat /\ MaxChunks \in Nat /\ SockCap \in Nat /\ PullMax \in Nat
    /\ TxCap \in Nat \ {0, 1} /\ RxCap \in Nat /\ PlainCap \in Nat /\ MaxFaults \in Nat
    /\ MaxCounter \in Nat \ {0, 1}

-----------------------------------------------------------------------------
(* Key schedule, frames, fragments.                                        *)

\* What derive / derive_fallback bind: the keying material (PQC, or a PSK),
\* the suite byte and the hello both sides put in the transcript.
NoSession == [mode |-> "none", suite |-> BadPolicy, psk |-> NoPsk, hello |-> "none"]

PqcSession(suite) == [mode |-> "pqc", suite |-> suite, psk |-> NoPsk, hello |-> "ok"]

PskSession(psk, hello) == [mode |-> "psk", suite |-> "0xFF", psk |-> psk, hello |-> hello]

SessionTerm == [mode : {"none", "pqc", "psk"}, suite : Suite \cup {BadPolicy, "0xFF"},
                psk : Psk \cup {NoPsk}, hello : {"none", "ok", "flipped"}]

\* One half of a session's keys: the half that `by` writes with.
KeyOf(sess, by) == [sess |-> sess, by |-> by]

Key == [sess : SessionTerm, by : Endpoint]

\* An AEAD direction: its key and its record counter.
Direction(key, counter) == [key |-> key, counter |-> counter]

\* The plaintext of the n-th application record is n; 0 is FALLBACK_CONFIRM.
FALLBACK_CONFIRM == 0

Tag == {"ClientHello", "ServerHello", "Data", "FallbackHello", "FallbackFinished"}

FALLBACK_WIRE_ID == "0xFE"

\* BadPolicy doubles as any byte that names no suite.
WireId == Suite \cup {BadPolicy, FALLBACK_WIRE_ID}

\* body: "ok" as written by the sender; "flipped" same length, other bytes;
\* "malformed" not the payload its tag announces; "badlen" length out of range.
Body == {"ok", "flipped", "malformed", "badlen"}

Frame == [suite : WireId, tag : Tag, body : Body, id : {"paired", "foreign", "none"},
          key : Key, nonce : Nat, pt : Nat]

frame(suite, tag, id, key, nonce, pt) ==
    [suite |-> suite, tag |-> tag, body |-> "ok", id |-> id,
     key |-> key, nonce |-> nonce, pt |-> pt]

Fragment == [frame : Frame, part : {1, 2}]

Fragments(f) == <<[frame |-> f, part |-> 1], [frame |-> f, part |-> 2]>>

\* try_pop_frame: a bad header is an error as soon as it is there; a frame is
\* returned once it is complete.
BadHeader(w) == w # <<>> /\ w[1].frame.body = "badlen"

Complete(w) == Len(w) >= 2

\* The i-th frame of a buffer; read from the middle of another one it is none.
FrameAt(w, i) ==
    IF w[2 * i - 1].part = 1 THEN w[2 * i - 1].frame
    ELSE [w[2 * i - 1].frame EXCEPT !.body = "malformed"]

FirstFrame(w) == FrameAt(w, 1)

AfterFirst(w) == SubSeq(w, 3, Len(w))

MinOf(a, b) == IF a <= b THEN a ELSE b

-----------------------------------------------------------------------------
VARIABLES
    cfg,          \* what each node's environment and files say
    phase,        \* FdState.phase
    tx, rx,       \* the two directions inside FdPhase::Active
    tx_backlog,   \* FdState.tx_backlog
    rx_wire,      \* FdState.rx_wire
    rx_plain,     \* FdState.rx_plain
    pc,           \* where the library call in progress is
    todo,         \* records the send call in progress has still to seal
    net,          \* fragments on their way to an endpoint
    eof,          \* the stream towards an endpoint has ended
    closed,       \* the application closed its descriptor
    alerts,       \* downgrade_attacks_detected
    faults,       \* frames the network damaged
    sealed,       \* history: the records an endpoint sealed, in order
    received,     \* history: the records handed to an application, in order
    established   \* history: the session an endpoint activated

fdstate == <<phase, tx, rx, tx_backlog, rx_wire, rx_plain>>
call == <<pc, todo>>
wire == <<net, eof>>
history == <<sealed, received, established>>
vars == <<cfg, fdstate, call, wire, closed, alerts, faults, history>>

Handshaking == {"InitiatorAwaitingServerHello", "InitiatorAwaitingFallbackFinished",
                "ResponderAwaitingClientHello"}

NoDirection(by) == Direction(KeyOf(NoSession, by), 0)

\* Application records sealed so far (the fallback confirmation is not one).
Sent(e) == IF established[e].mode = "psk" /\ e = "responder"
           THEN Len(sealed[e]) - 1
           ELSE Len(sealed[e])

-----------------------------------------------------------------------------
(* Construction of the two states: connect installs the initiator's, the   *)
(* first I/O on an accepted descriptor the responder's.                    *)

\* Mutant of select_posture: a configured PSK wins over an available control plane.
select_posture_psk_first(c) ==
    IF c.psk # NoPsk THEN "EncryptedFallback" ELSE IF c.pqc THEN "FullPqc" ELSE "FailClosed"

select_posture(c) ==
    IF c.pqc THEN "FullPqc"
    ELSE IF c.psk # NoPsk THEN "EncryptedFallback" ELSE "FailClosed"

install_initiator_state(c) ==
    IF c.suite = BadPolicy THEN "Failed"
    ELSE CASE select_posture(c) = "FullPqc" ->
                  IF c.identity = "none" THEN "Failed" ELSE "InitiatorAwaitingServerHello"
           [] select_posture(c) = "EncryptedFallback" -> "InitiatorAwaitingFallbackFinished"
           [] select_posture(c) = "FailClosed" -> "Failed"

ensure_tracked(c) ==
    IF c.suite = BadPolicy THEN "Failed" ELSE "ResponderAwaitingClientHello"

ClientHello(c) ==
    frame(c.suite, "ClientHello", c.identity, KeyOf(PqcSession(c.suite), "initiator"), 0, 0)

FallbackHello ==
    frame(FALLBACK_WIRE_ID, "FallbackHello", "none", KeyOf(NoSession, "initiator"), 0, 0)

FirstFlight(c) ==
    CASE install_initiator_state(c) = "InitiatorAwaitingServerHello" -> Fragments(ClientHello(c))
      [] install_initiator_state(c) = "InitiatorAwaitingFallbackFinished" -> Fragments(FallbackHello)
      [] OTHER -> <<>>

Init ==
    /\ cfg \in Configs
    /\ phase = [e \in Endpoint |-> IF e = "initiator" THEN install_initiator_state(cfg[e])
                                                      ELSE ensure_tracked(cfg[e])]
    /\ tx_backlog = [e \in Endpoint |-> IF e = "initiator" THEN FirstFlight(cfg[e]) ELSE <<>>]
    /\ tx = [e \in Endpoint |-> NoDirection(e)]
    /\ rx = [e \in Endpoint |-> NoDirection(Peer(e))]
    /\ rx_wire = [e \in Endpoint |-> <<>>]
    /\ rx_plain = [e \in Endpoint |-> <<>>]
    /\ pc = [e \in Endpoint |-> "idle"]
    /\ todo = [e \in Endpoint |-> 0]
    /\ net = [e \in Endpoint |-> <<>>]
    /\ eof = [e \in Endpoint |-> FALSE]
    /\ closed = [e \in Endpoint |-> FALSE]
    /\ alerts = [e \in Endpoint |-> 0]
    /\ faults = 0
    /\ sealed = [e \in Endpoint |-> <<>>]
    /\ received = [e \in Endpoint |-> <<>>]
    /\ established = [e \in Endpoint |-> NoSession]

-----------------------------------------------------------------------------
(* FdState operations.                                                     *)

\* Mutant of fail_closed: the backlog is not wiped.
fail_closed_keeps_backlog(e) ==
    /\ phase' = [phase EXCEPT ![e] = "Failed"]
    /\ tx' = [tx EXCEPT ![e] = NoDirection(e)]
    /\ rx' = [rx EXCEPT ![e] = NoDirection(Peer(e))]
    /\ rx_wire' = [rx_wire EXCEPT ![e] = <<>>]
    /\ rx_plain' = [rx_plain EXCEPT ![e] = <<>>]
    /\ UNCHANGED tx_backlog

fail_closed(e) ==
    /\ phase' = [phase EXCEPT ![e] = "Failed"]
    /\ tx' = [tx EXCEPT ![e] = NoDirection(e)]
    /\ rx' = [rx EXCEPT ![e] = NoDirection(Peer(e))]
    /\ tx_backlog' = [tx_backlog EXCEPT ![e] = <<>>]
    /\ rx_wire' = [rx_wire EXCEPT ![e] = <<>>]
    /\ rx_plain' = [rx_plain EXCEPT ![e] = <<>>]

\* The call returns to the application.
Return(e) ==
    /\ pc' = [pc EXCEPT ![e] = "idle"]
    /\ todo' = [todo EXCEPT ![e] = 0]

Goto(e, label) ==
    /\ pc' = [pc EXCEPT ![e] = label]
    /\ UNCHANGED todo

\* Mutant of activate: the counters start at zero in a fallback session too.
activate_from_zero(e, sess) ==
    /\ phase' = [phase EXCEPT ![e] = "Active"]
    /\ tx' = [tx EXCEPT ![e] = Direction(KeyOf(sess, e), 0)]
    /\ rx' = [rx EXCEPT ![e] = Direction(KeyOf(sess, Peer(e)), 0)]
    /\ established' = [established EXCEPT ![e] = sess]

\* derive: the initiator writes c2s and reads s2c, the responder mirrored.
\* The confirmation of a fallback session has used the responder's nonce 0.
activate(e, sess) ==
    LET confirmed(by) == IF sess.mode = "psk" /\ by = "responder" THEN 1 ELSE 0 IN
    /\ phase' = [phase EXCEPT ![e] = "Active"]
    /\ tx' = [tx EXCEPT ![e] = Direction(KeyOf(sess, e), confirmed(e))]
    /\ rx' = [rx EXCEPT ![e] = Direction(KeyOf(sess, Peer(e)), confirmed(Peer(e)))]
    /\ established' = [established EXCEPT ![e] = sess]

-----------------------------------------------------------------------------
(* drive_handshake: at most one frame is consumed, because every arm of    *)
(* the match ends Active or Failed.                                        *)

\* Mutant of Authentic: the peer's keys are not compared with the pinned ones.
AuthenticUnpinned(e, f) ==
    /\ f.body = "ok" /\ f.suite = cfg[e].suite
    /\ f.key.sess = PqcSession(cfg[e].suite)

\* verify_peer_public_keys and verify_peer_signatures over suite and hello.
Authentic(e, f) ==
    /\ f.body = "ok"
    /\ cfg[e].identity = "paired" /\ f.id = "paired"
    /\ f.suite = cfg[e].suite
    /\ f.key.sess = PqcSession(cfg[e].suite)

\* The session the frame completes, NoSession if it is refused.
HandshakeResult(e, f) ==
    CASE phase[e] = "ResponderAwaitingClientHello" /\ f.tag = "ClientHello" ->
             IF Authentic(e, f) THEN PqcSession(cfg[e].suite) ELSE NoSession
      [] phase[e] = "ResponderAwaitingClientHello" /\ f.tag = "FallbackHello" ->
             IF select_posture(cfg[e]) = "EncryptedFallback" /\ f.body # "malformed"
             THEN PskSession(cfg[e].psk, f.body) ELSE NoSession
      [] phase[e] = "InitiatorAwaitingServerHello" /\ f.tag = "ServerHello" ->
             IF Authentic(e, f) THEN PqcSession(cfg[e].suite) ELSE NoSession
      [] phase[e] = "InitiatorAwaitingFallbackFinished" /\ f.tag = "FallbackFinished" ->
             IF /\ f.body = "ok"
                /\ f.key = KeyOf(PskSession(cfg[e].psk, "ok"), "responder")
             THEN PskSession(cfg[e].psk, "ok") ELSE NoSession
      [] OTHER -> NoSession

\* The refusals that record_downgrade_attack counts.
IsDowngrade(e, f) ==
    \/ phase[e] = "ResponderAwaitingClientHello" /\ f.tag = "FallbackHello"
    \/ phase[e] = "InitiatorAwaitingServerHello" /\ f.tag \in {"FallbackHello", "FallbackFinished"}
    \/ /\ phase[e] = "InitiatorAwaitingFallbackFinished"
       /\ f.tag \in {"FallbackFinished", "ClientHello", "ServerHello"}

\* What the responder queues before it activates.
Reply(e, sess) ==
    IF e = "initiator" THEN <<>>
    ELSE IF sess.mode = "pqc"
         THEN Fragments(frame(sess.suite, "ServerHello", cfg[e].identity, KeyOf(sess, e), 0, 0))
         ELSE Fragments(frame(FALLBACK_WIRE_ID, "FallbackFinished", "none",
                              KeyOf(sess, e), 0, FALLBACK_CONFIRM))

SealConfirm(e, sess) ==
    IF e = "responder" /\ sess.mode = "psk"
    THEN sealed' = [sealed EXCEPT ![e] =
                        Append(@, [key |-> KeyOf(sess, e), nonce |-> 0, pt |-> FALLBACK_CONFIRM])]
    ELSE UNCHANGED sealed

drive_handshake(e, w) ==
    \/ /\ BadHeader(w)
       /\ fail_closed(e)
       /\ UNCHANGED <<alerts, sealed, established>>
    \/ /\ ~BadHeader(w) /\ ~Complete(w)
       /\ rx_wire' = [rx_wire EXCEPT ![e] = w]
       /\ UNCHANGED <<phase, tx, rx, tx_backlog, rx_plain, alerts, sealed, established>>
    \/ /\ ~BadHeader(w) /\ Complete(w)
       /\ LET sess == HandshakeResult(e, FirstFrame(w))
              reply == Reply(e, sess)
              accepted == sess # NoSession /\ Len(tx_backlog[e]) + Len(reply) <= TxCap
          IN  \/ /\ accepted
                 /\ activate(e, sess)
                 /\ SealConfirm(e, sess)
                 /\ tx_backlog' = [tx_backlog EXCEPT ![e] = @ \o reply]
                 /\ rx_wire' = [rx_wire EXCEPT ![e] = AfterFirst(w)]
                 /\ UNCHANGED <<rx_plain, alerts>>
              \/ /\ ~accepted
                 /\ fail_closed(e)
                 /\ alerts' = [alerts EXCEPT ![e] =
                        IF sess = NoSession /\ IsDowngrade(e, FirstFrame(w)) THEN @ + 1 ELSE @]
                 /\ UNCHANGED <<sealed, established>>

-----------------------------------------------------------------------------
(* The real send(2) and recv(2) below the library.                         *)

Room(e) ==
    IF Len(net[Peer(e)]) < cfg[e].sndbuf THEN cfg[e].sndbuf - Len(net[Peer(e)]) ELSE 0

Flushed(e) == MinOf(Len(tx_backlog[e]), Room(e))

FlushedAll(e) == Flushed(e) = Len(tx_backlog[e])

\* The first k fragments of the backlog leave.  What is written behind a break
\* of the connection does not arrive.
Transmit(e, k) ==
    net' = [net EXCEPT ![Peer(e)] =
                IF eof[Peer(e)] THEN @ ELSE @ \o SubSeq(tx_backlog[e], 1, k)]

\* flush_backlog: as much as the kernel takes.  On a blocking descriptor the
\* call sleeps until there is room and goes on until the backlog is empty.
flush_backlog(e, next) ==
    LET k == Flushed(e) IN
    /\ cfg[e].blocking => (k > 0 \/ FlushedAll(e))
    /\ Transmit(e, k)
    /\ tx_backlog' = [tx_backlog EXCEPT ![e] = SubSeq(@, k + 1, Len(@))]
    /\ pc' = [pc EXCEPT ![e] = IF cfg[e].blocking /\ ~FlushedAll(e) THEN @ ELSE next]
    /\ todo' = [todo EXCEPT ![e] = IF next = "idle" /\ pc'[e] = "idle" THEN 0 ELSE @]

\* flush_backlog when a send(2) on a connection whose other end is gone fails:
\* k fragments were taken before.
FlushFails(e, k) ==
    /\ eof[e]
    /\ k <= Flushed(e) /\ k < Len(tx_backlog[e])
    /\ Transmit(e, k)

\* pull_wire: some of what has arrived, a part of a frame perhaps.
Pulled(e, k) == rx_wire[e] \o SubSeq(net[e], 1, k)

PullSizes(e) == 1..MinOf(PullMax, Len(net[e]))

Consume(e, k) ==
    /\ net' = [net EXCEPT ![e] = SubSeq(@, k + 1, Len(@))]
    /\ UNCHANGED eof

-----------------------------------------------------------------------------
(* overlay_send                                                            *)

\* The application hands n records' worth of plaintext to send / write.
overlay_send(e, n) ==
    /\ pc[e] = "idle" /\ ~closed[e]
    /\ Sent(e) + n <= MaxSend
    /\ pc' = [pc EXCEPT ![e] = "sflush"]
    /\ todo' = [todo EXCEPT ![e] = n]
    /\ UNCHANGED <<cfg, fdstate, wire, closed, alerts, faults, history>>

\* drive_until_active_for_write, first flush.
SendFlush(e) ==
    /\ pc[e] = "sflush"
    /\ flush_backlog(e, "drive")
    /\ UNCHANGED <<cfg, phase, tx, rx, rx_wire, rx_plain, eof, closed, alerts, faults, history>>

\* Any flush of overlay_send that fails ends the session.
SendFlushFails(e) ==
    /\ \/ pc[e] \in {"sflush", "final"}
       \/ pc[e] = "drive" /\ phase[e] \in Handshaking
    /\ \E k \in 0..TxCap : FlushFails(e, k)
    /\ fail_closed(e)
    /\ Return(e)
    /\ UNCHANGED <<cfg, eof, closed, alerts, faults, history>>

\* The loop of drive_until_active_for_write: the phase is settled ...
DriveSettled(e) ==
    /\ pc[e] = "drive"
    /\ \/ phase[e] = "Active" /\ todo[e] > 0 /\ Goto(e, "seal")
       \/ phase[e] = "Active" /\ todo[e] = 0 /\ Return(e)
       \/ phase[e] = "Failed" /\ Return(e)
    /\ UNCHANGED <<cfg, fdstate, wire, closed, alerts, faults, history>>


\* ... or the hello is not out yet ...
DriveFlush(e) ==
    /\ pc[e] = "drive" /\ phase[e] \in Handshaking
    /\ tx_backlog[e] # <<>>
    /\ flush_backlog(e, IF FlushedAll(e) THEN "drive" ELSE "idle")
    /\ UNCHANGED <<cfg, phase, tx, rx, rx_wire, rx_plain, eof, closed, alerts, faults, history>>

\* ... or the peer's frame has to be waited for.
DrivePull(e) ==
    /\ pc[e] = "drive" /\ phase[e] \in Handshaking
    /\ tx_backlog[e] = <<>>
    /\ \/ \E k \in PullSizes(e) :
             /\ Len(Pulled(e, k)) <= RxCap
             /\ drive_handshake(e, Pulled(e, k))
             /\ Consume(e, k)
             /\ Goto(e, "drive")
       \/ \E k \in PullSizes(e) :
             /\ Len(Pulled(e, k)) > RxCap
             /\ fail_closed(e)
             /\ Consume(e, k)
             /\ Return(e)
             /\ UNCHANGED <<alerts, sealed, established>>
       \/ /\ net[e] = <<>> /\ eof[e]
          /\ fail_closed(e)
          /\ Return(e)
          /\ UNCHANGED <<wire, alerts, sealed, established>>
       \/ /\ net[e] = <<>> /\ ~eof[e] /\ ~cfg[e].blocking
          /\ Return(e)
          /\ UNCHANGED <<fdstate, wire, alerts, sealed, established>>
    /\ UNCHANGED <<cfg, closed, faults, received>>

\* Direction::seal and frame.
DataFrame(e) ==
    frame(cfg[e].suite, "Data", "none", tx[e].key, tx[e].counter, Sent(e) + 1)

SealNext(e) == [key |-> tx[e].key, nonce |-> tx[e].counter, pt |-> Sent(e) + 1]

Seal(e) ==
    /\ tx' = [tx EXCEPT ![e].counter = @ + 1]
    /\ sealed' = [sealed EXCEPT ![e] = Append(@, SealNext(e))]

Exhausted(e) == tx[e].counter = MaxCounter

\* Mutant of SealRecord: the frame is queued whether it fits or not.
SealRecordUnbounded(e) ==
    /\ pc[e] = "seal" /\ ~Exhausted(e)
    /\ Seal(e)
    /\ tx_backlog' = [tx_backlog EXCEPT ![e] = @ \o Fragments(DataFrame(e))]
    /\ todo' = [todo EXCEPT ![e] = @ - 1]
    /\ pc' = [pc EXCEPT ![e] = IF todo[e] = 1 THEN "final" ELSE "seal"]
    /\ UNCHANGED <<cfg, phase, rx, rx_wire, rx_plain, wire, closed, alerts, faults,
                   received, established>>

\* One turn of the sealing loop whose frame fits in the backlog.
SealRecord(e) ==
    /\ pc[e] = "seal" /\ ~Exhausted(e)
    /\ Len(tx_backlog[e]) + 2 <= TxCap
    /\ Seal(e)
    /\ tx_backlog' = [tx_backlog EXCEPT ![e] = @ \o Fragments(DataFrame(e))]
    /\ todo' = [todo EXCEPT ![e] = @ - 1]
    /\ pc' = [pc EXCEPT ![e] = IF todo[e] = 1 THEN "final" ELSE "seal"]
    /\ UNCHANGED <<cfg, phase, rx, rx_wire, rx_plain, wire, closed, alerts, faults,
                   received, established>>

SealExhausted(e) ==
    /\ pc[e] = "seal" /\ Exhausted(e)
    /\ fail_closed(e)
    /\ Return(e)
    /\ UNCHANGED <<cfg, wire, closed, alerts, faults, history>>

\* append_or_flush when the frame does not fit.  A blocking descriptor sleeps
\* until the backlog is out; on a nonblocking one anything left in the
\* backlog, or a failing send, ends the session.
MakeRoom(e) ==
    /\ pc[e] = "seal" /\ ~Exhausted(e)
    /\ Len(tx_backlog[e]) + 2 > TxCap
    /\ \/ /\ cfg[e].blocking \/ FlushedAll(e)
          /\ flush_backlog(e, "seal")
          /\ UNCHANGED <<phase, tx, rx, rx_wire, rx_plain, sealed>>
       \/ /\ \/ /\ ~cfg[e].blocking /\ ~FlushedAll(e)
                /\ Transmit(e, Flushed(e))
             \/ \E k \in 0..TxCap : FlushFails(e, k)
          /\ fail_closed(e)
          /\ sealed' = [sealed EXCEPT ![e] = Append(@, SealNext(e))]
          /\ Return(e)
    /\ UNCHANGED <<cfg, eof, closed, alerts, faults, received, established>>

\* Mutant of FinalFlush: the call returns with the frames in the backlog.
FinalFlushSkipped(e) ==
    /\ pc[e] = "final"
    /\ Return(e)
    /\ UNCHANGED <<cfg, fdstate, wire, closed, alerts, faults, history>>

\* The flush at the end: a nonblocking call reports the whole length as sent
\* whatever is left in the backlog.
FinalFlush(e) ==
    /\ pc[e] = "final"
    /\ flush_backlog(e, "idle")
    /\ UNCHANGED <<cfg, phase, tx, rx, rx_wire, rx_plain, eof, closed, alerts, faults, history>>

-----------------------------------------------------------------------------
(* overlay_recv                                                            *)

overlay_recv(e) ==
    /\ pc[e] = "idle" /\ ~closed[e]
    /\ Goto(e, "recv")
    /\ UNCHANGED <<cfg, fdstate, wire, closed, alerts, faults, history>>

\* Mutant of Deliver: what was copied to the application is not drained.
DeliverPeeks(e) ==
    /\ pc[e] = "recv" /\ rx_plain[e] # <<>>
    /\ received' = [received EXCEPT ![e] = @ \o rx_plain[e]]
    /\ Return(e)
    /\ UNCHANGED <<cfg, fdstate, wire, closed, alerts, faults, sealed, established>>

\* copy_plaintext_to_app: as much as the application's buffer takes.
Deliver(e) ==
    /\ pc[e] = "recv" /\ rx_plain[e] # <<>>
    /\ \E n \in 1..Len(rx_plain[e]) :
          /\ received' = [received EXCEPT ![e] = @ \o SubSeq(rx_plain[e], 1, n)]
          /\ rx_plain' = [rx_plain EXCEPT ![e] = SubSeq(@, n + 1, Len(@))]
    /\ Return(e)
    /\ UNCHANGED <<cfg, phase, tx, rx, tx_backlog, rx_wire, wire, closed, alerts, faults,
                   sealed, established>>

\* The two flushes around drive_handshake; their errors are ignored.
RecvFlush(e) ==
    /\ \/ pc[e] = "recv" /\ rx_plain[e] = <<>> /\ phase[e] \in Handshaking
       \/ pc[e] = "rflush"
    /\ LET next == IF pc[e] = "recv" THEN "hs" ELSE "open" IN
       \/ flush_backlog(e, next)
       \/ \E k \in 0..TxCap :
             /\ FlushFails(e, k)
             /\ tx_backlog' = [tx_backlog EXCEPT ![e] = SubSeq(@, k + 1, Len(@))]
             /\ Goto(e, next)
    /\ UNCHANGED <<cfg, phase, tx, rx, rx_wire, rx_plain, eof, closed, alerts, faults, history>>

\* Mutant of RecvHandshake: no flush behind drive_handshake.
RecvHandshakeNoFlush(e) ==
    /\ pc[e] = "hs"
    /\ drive_handshake(e, rx_wire[e])
    /\ Goto(e, "open")
    /\ UNCHANGED <<cfg, wire, closed, faults, received>>

RecvHandshake(e) ==
    /\ pc[e] = "hs"
    /\ drive_handshake(e, rx_wire[e])
    /\ Goto(e, "rflush")
    /\ UNCHANGED <<cfg, wire, closed, faults, received>>

Opening(e) ==
    \/ pc[e] = "open"
    \/ pc[e] = "recv" /\ rx_plain[e] = <<>> /\ phase[e] \notin Handshaking

\* Mutant of Opens: the nonce is taken from the record.
OpensAnyNonce(e, f, counter) ==
    /\ f.tag = "Data" /\ f.suite = cfg[e].suite
    /\ counter # MaxCounter
    /\ f.body = "ok" /\ f.key = rx[e].key

\* Direction::open of a complete frame of rx_wire, and the checks before it.
Opens(e, f, counter) ==
    /\ f.tag = "Data" /\ f.suite = cfg[e].suite
    /\ counter # MaxCounter
    /\ f.body = "ok" /\ f.key = rx[e].key /\ f.nonce = counter

Records(e) == Len(rx_wire[e]) \div 2

AllOpen(e) ==
    /\ \A i \in 1..Records(e) : Opens(e, FrameAt(rx_wire[e], i), rx[e].counter + i - 1)
    /\ Len(rx_wire[e]) % 2 = 1 => ~BadHeader(SubSeq(rx_wire[e], Len(rx_wire[e]), Len(rx_wire[e])))
    /\ Records(e) <= PlainCap

\* Every complete frame is opened; one that does not open ends the session
\* and takes the records opened before it along.
RecvOpen(e) ==
    /\ Opening(e)
    /\ \/ /\ phase[e] = "Active" /\ AllOpen(e)
          /\ rx' = [rx EXCEPT ![e].counter = @ + Records(e)]
          /\ rx_plain' = [rx_plain EXCEPT ![e] =
                [i \in 1..Records(e) |-> FrameAt(rx_wire[e], i).pt]]
          /\ rx_wire' = [rx_wire EXCEPT ![e] = SubSeq(@, 2 * Records(e) + 1, Len(@))]
          /\ Goto(e, IF Records(e) > 0 THEN "recv" ELSE "pull")
          /\ UNCHANGED <<phase, tx, tx_backlog>>
       \/ /\ phase[e] = "Active" /\ ~AllOpen(e)
          /\ fail_closed(e)
          /\ Return(e)
       \/ /\ phase[e] = "Failed"
          /\ Return(e)
          /\ UNCHANGED fdstate
       \/ /\ phase[e] \in Handshaking
          /\ Goto(e, "pull")
          /\ UNCHANGED fdstate
    /\ UNCHANGED <<cfg, wire, closed, alerts, faults, history>>

RecvPull(e) ==
    /\ pc[e] = "pull"
    /\ \/ \E k \in PullSizes(e) :
             /\ Len(Pulled(e, k)) <= RxCap
             /\ rx_wire' = [rx_wire EXCEPT ![e] = Pulled(e, k)]
             /\ Consume(e, k)
             /\ Goto(e, "recv")
             /\ UNCHANGED <<phase, tx, rx, tx_backlog, rx_plain>>
       \/ \E k \in PullSizes(e) :
             /\ Len(Pulled(e, k)) > RxCap
             /\ fail_closed(e)
             /\ Consume(e, k)
             /\ Return(e)
       \/ /\ net[e] = <<>> /\ (eof[e] \/ ~cfg[e].blocking)
          /\ Return(e)
          /\ UNCHANGED <<fdstate, wire>>
    /\ UNCHANGED <<cfg, closed, alerts, faults, history>>

-----------------------------------------------------------------------------
(* close, and what the network between the two hosts may do.               *)

\* close drops the state; the peer reads what is in flight, then end of file.
close(e) ==
    /\ pc[e] = "idle" /\ ~closed[e]
    /\ closed' = [closed EXCEPT ![e] = TRUE]
    /\ eof' = [eof EXCEPT ![Peer(e)] = TRUE]
    /\ fail_closed(e)
    /\ UNCHANGED <<cfg, call, net, alerts, faults, history>>

\* Index i of net[e] starts a complete frame.
FrameStarts(e) ==
    {i \in 1..(Len(net[e]) - 1) : net[e][i].part = 1 /\ net[e][i + 1].part = 2}

Splice(s, i, mid, j) == SubSeq(s, 1, i - 1) \o mid \o SubSeq(s, j, Len(s))

\* A frame whose bytes change: header, payload or length.
Damaged(f) ==
    {[f EXCEPT !.suite = s] : s \in WireId \ {f.suite}}
        \cup {[f EXCEPT !.tag = t, !.body = "malformed"] : t \in Tag}
        \cup {[f EXCEPT !.body = b] : b \in {"flipped", "badlen"}}

Relay(e) ==
    /\ faults < MaxFaults
    /\ faults' = faults + 1
    /\ \/ \E i \in FrameStarts(e) :                        \* altered
             \E g \in Damaged(net[e][i].frame) :
                net' = [net EXCEPT ![e] = Splice(@, i, Fragments(g), i + 2)]
       \/ \E i \in FrameStarts(e) :                        \* lost
             net' = [net EXCEPT ![e] = Splice(@, i, <<>>, i + 2)]
       \/ \E i \in FrameStarts(e) :                        \* repeated
             /\ Len(net[e]) + 2 <= SockCap
             /\ net' = [net EXCEPT ![e] =
                   Splice(@, i, Fragments(@[i].frame) \o Fragments(@[i].frame), i + 2)]
       \/ \E i \in FrameStarts(e) :                        \* overtaken
             /\ i + 2 \in FrameStarts(e)
             /\ net' = [net EXCEPT ![e] =
                   Splice(@, i, Fragments(@[i + 2].frame) \o Fragments(@[i].frame), i + 4)]
    /\ UNCHANGED <<cfg, fdstate, call, eof, closed, alerts, history>>

\* The connection breaks, a frame half way through perhaps.
Cut(e) ==
    /\ faults < MaxFaults /\ ~eof[e]
    /\ faults' = faults + 1
    /\ \E k \in 0..Len(net[e]) : net' = [net EXCEPT ![e] = SubSeq(@, 1, k)]
    /\ eof' = [eof EXCEPT ![e] = TRUE]
    /\ UNCHANGED <<cfg, fdstate, call, closed, alerts, history>>

-----------------------------------------------------------------------------
\* The steps of a library call once the application has made it.
Library(e) ==
    \/ SendFlush(e) \/ SendFlushFails(e)
    \/ DriveSettled(e) \/ DriveFlush(e) \/ DrivePull(e)
    \/ SealRecord(e) \/ SealExhausted(e) \/ MakeRoom(e) \/ FinalFlush(e)
    \/ Deliver(e) \/ RecvFlush(e) \/ RecvHandshake(e) \/ RecvOpen(e) \/ RecvPull(e)

Application(e) ==
    \/ \E n \in 0..MaxChunks : overlay_send(e, n)
    \/ overlay_recv(e)
    \/ close(e)

Next == \E e \in Endpoint : Application(e) \/ Library(e) \/ Relay(e) \/ Cut(e)

Spec == Init /\ [][Next]_vars

\* Two applications that keep the connection open and read again and again,
\* over a network without faults.  A system call in progress completes once it
\* can, and an application that reads in a loop reads in between its sends.
Conversation(e) ==
    \/ \E n \in 1..MaxChunks : overlay_send(e, n)
    \/ overlay_recv(e)
    \/ Library(e)

LiveSpec ==
    /\ Init
    /\ [][\E e \in Endpoint : Conversation(e)]_vars
    /\ \A e \in Endpoint : WF_vars(Library(e)) /\ SF_vars(overlay_recv(e))

-----------------------------------------------------------------------------
(* Properties.                                                             *)

PcLabels == {"idle", "sflush", "drive", "seal", "final", "recv", "hs", "rflush", "open", "pull"}

SealedRecord == [key : Key, nonce : Nat, pt : Nat]

\* Every variable has its type, and no buffer exceeds the bound that
\* append_bounded or the kernel puts on it.
TypeOK ==
    /\ cfg \in [Endpoint -> Config]
    /\ phase \in [Endpoint -> Handshaking \cup {"Active", "Failed"}]
    /\ tx \in [Endpoint -> [key : Key, counter : 0..MaxCounter]]
    /\ rx \in [Endpoint -> [key : Key, counter : 0..MaxCounter]]
    /\ tx_backlog \in [Endpoint -> Seq(Fragment)]
    /\ rx_wire \in [Endpoint -> Seq(Fragment)]
    /\ net \in [Endpoint -> Seq(Fragment)]
    /\ \A e \in Endpoint : /\ Len(tx_backlog[e]) <= TxCap
                            /\ Len(rx_wire[e]) <= RxCap
                            /\ Len(rx_plain[e]) <= PlainCap
                            /\ Len(net[e]) <= SockCap
    /\ rx_plain \in [Endpoint -> Seq(Nat)]
    /\ pc \in [Endpoint -> PcLabels]
    /\ todo \in [Endpoint -> 0..MaxChunks]
    /\ eof \in [Endpoint -> BOOLEAN] /\ closed \in [Endpoint -> BOOLEAN]
    /\ alerts \in [Endpoint -> Nat] /\ faults \in 0..MaxFaults
    /\ sealed \in [Endpoint -> Seq(SealedRecord)]
    /\ received \in [Endpoint -> Seq(Nat)]
    /\ established \in [Endpoint -> SessionTerm]

\* No AES-GCM key seals two records with the same nonce, the confirmation
\* that fallback::respond seals before the first application record included.
NonceUnique ==
    \A e, d \in Endpoint : \A i \in DOMAIN sealed[e], j \in DOMAIN sealed[d] :
        /\ sealed[e][i].key = sealed[d][j].key
        /\ sealed[e][i].nonce = sealed[d][j].nonce
        => e = d /\ i = j

\* Whatever the network loses, repeats, reorders or alters, what overlay_recv
\* hands to the application is a prefix of what the peer's application sent.
DeliveredInOrder ==
    \A e \in Endpoint :
        /\ Len(received[e]) <= Sent(Peer(e))
        /\ \A i \in 1..Len(received[e]) : received[e][i] = i

\* An initiator that finishes the handshake holds the keys the responder
\* derived, under its own policy suite or its own PSK: drive_handshake never
\* activates on a ServerHello or FallbackFinished of another session.
KeyAgreement ==
    established["initiator"] # NoSession =>
        /\ established["responder"] = established["initiator"]
        /\ established["initiator"].mode = "pqc" =>
               /\ cfg["initiator"].suite = cfg["responder"].suite
               /\ cfg["initiator"].identity = "paired" /\ cfg["responder"].identity = "paired"
        /\ established["initiator"].mode = "psk" => cfg["initiator"].psk = cfg["responder"].psk

\* The wire never pushes a node whose own posture is FullPqc into a PSK
\* session, nor a degraded one to initiate a PQC session.
FallbackIsLocal ==
    \A e \in Endpoint :
        /\ established[e].mode = "psk" => ~cfg[e].pqc /\ cfg[e].psk # NoPsk
        /\ (e = "initiator" /\ established[e].mode = "pqc") => cfg[e].pqc

\* The step seals, delivers and sends nothing on behalf of a failed endpoint.
Silent(e) ==
    /\ phase'[e] = "Failed"
    /\ sealed'[e] = sealed[e] /\ received'[e] = received[e]
    /\ faults' = faults => Len(net'[Peer(e)]) <= Len(net[Peer(e)])

\* Once an endpoint has failed closed (or was closed) it stays so: it seals
\* nothing, delivers nothing, and puts nothing more on the wire.
FailedIsTerminal == [][\A e \in Endpoint : phase[e] = "Failed" => Silent(e)]_vars

\* Two nodes that are configured for one another.
Matched ==
    /\ \A e \in Endpoint : cfg[e].suite \in Suite
    /\ cfg["initiator"].suite = cfg["responder"].suite
    /\ \/ \A e \in Endpoint : cfg[e].pqc /\ cfg[e].identity = "paired"
       \/ /\ \A e \in Endpoint : ~cfg[e].pqc
          /\ cfg["initiator"].psk # NoPsk /\ cfg["responder"].psk = cfg["initiator"].psk


\* The handshake of two matching nodes ends, whoever speaks first and however
\* its frames are split.
HandshakeCompletes == \A e \in Endpoint : <>(phase[e] = "Active")

\* Every record an application sent reaches the other one.
AllDelivered ==
    \A e \in Endpoint : \A n \in 1..MaxSend :
        (Sent(Peer(e)) >= n) ~> (Len(received[e]) >= n)

\* tx_backlog holds "bytes framed and waiting to go out on the real socket":
\* while both sessions live and both applications go on reading, they go out.
BacklogDrains ==
    \A e \in Endpoint :
        (tx_backlog[e] # <<>>) ~> (tx_backlog[e] = <<>> \/ \E d \in Endpoint : phase[d] = "Failed")

-----------------------------------------------------------------------------
\* The connection as its two applications see it.
Status(e) ==
    IF phase[e] \in Handshaking THEN "opening" ELSE IF phase[e] = "Active" THEN "open" ELSE "shut"

Channel == INSTANCE SecureChannel WITH
    Client <- "initiator", Server <- "responder", Sessions <- SessionTerm \ {NoSession},
    status <- [e \in Endpoint |-> Status(e)],
    agreed <- {established[e] : e \in Endpoint} \ {NoSession},
    sent <- [e \in Endpoint |-> Sent(e)],
    delivered <- [e \in Endpoint |-> Len(received[e])]


=============================================================================
