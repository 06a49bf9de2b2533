------------------------------ MODULE Vectored ------------------------------
(***************************************************************************)
(* Vectored and flagged I/O on an established session: iov_total,          *)
(* gather_iov and scatter_iov under writev, sendmsg, readv and recvmsg,    *)
(* with overlay_recv's read loop below (interceptor.rs).                   *)
(*                                                                         *)
(* The peer's bytes are numbered; a record carries RecordLen of them and   *)
(* opens once, in its turn.  An iovec entry is a length and whether its    *)
(* base is null.                                                           *)
(***************************************************************************)
EXTENDS Integers, Sequences

LOCAL INSTANCE SequencesExt

CONSTANTS
    Iov,         \* the arrays of entries an application passes
    MaxIovCopy,  \* MAX_IOV_COPY
    RecordLen,   \* bytes of a record
    MaxPeer,     \* bound: records the peer sends
    MaxWritten   \* bound: bytes the application writes

ASSUME VectoredAssumption ==
    /\ MaxIovCopy \in Nat /\ RecordLen \in Nat \ {0}
    /\ MaxPeer \in Nat /\ MaxWritten \in Nat

VARIABLES
    kernel,   \* records in the kernel's receive queue
    opened,   \* records opened: the receive counter
    rx_plain, \* plaintext not yet taken
    alive,    \* the session has not failed
    taken,    \* history: bytes in the application's buffers, in the order of its calls
    written,  \* history: bytes of the buffers the application has written, in order
    sealed,   \* bytes handed to seal
    came,     \* records the peer has sent
    peeked,   \* history: MSG_PEEK was used
    dropped   \* history: a readv failed after its bytes were taken

vectoredVars ==
    <<kernel, opened, rx_plain, alive, taken, written, sealed, came, peeked, dropped>>

VectoredInit ==
    /\ kernel = <<>> /\ opened = 0 /\ rx_plain = <<>> /\ alive = TRUE
    /\ taken = <<>> /\ written = <<>> /\ sealed = <<>>
    /\ came = 0 /\ peeked = FALSE /\ dropped = FALSE

-----------------------------------------------------------------------------
Faulty(e) == e.len > 0 /\ e.null

Sum(iov) == FoldLeft(LAMBDA n, e : n + e.len, 0, iov)

\* iov_total, which refuses a request beyond MAX_IOV_COPY.
TooLong(iov) == Sum(iov) > MaxIovCopy

\* The entries scatter_iov reaches with n bytes: the ones before which fewer
\* than n have been copied.
Reached(iov, n) == {i \in DOMAIN iov : Sum(SubSeq(iov, 1, i - 1)) < n}


\* scatter_iov: what the entries hold afterwards, one after the other.
scatter_iov(iov, data) ==
    FoldLeft(LAMBDA out, e :
                 LET room == Len(data) - Len(out) IN
                 out \o SubSeq(data, Len(out) + 1, Len(out) + (IF e.len < room THEN e.len ELSE room)),
             <<>>, iov)

\* gather_iov, for an application whose buffers hold the bytes from..: an entry
\* contributes as many of them as it is long.
gather_iov(iov, from) ==
    FoldLeft(LAMBDA out, e : out \o [i \in 1..e.len |-> from + Len(out) + i - 1], <<>>, iov)

\* The peer's next record arrives.
Arrive ==
    /\ came < MaxPeer /\ came' = came + 1
    /\ kernel' = Append(kernel, came)
    /\ UNCHANGED <<opened, rx_plain, alive, taken, written, sealed, peeked, dropped>>

Plain(r) == [i \in 1..RecordLen |-> r * RecordLen + i]

\* overlay_recv with nothing to copy: pull_wire hands the flags to the kernel,
\* which keeps what is peeked at; the record is opened if it is its turn.
Pull(peek) ==
    /\ alive /\ rx_plain = <<>> /\ kernel # <<>>
    /\ kernel' = IF peek THEN kernel ELSE Tail(kernel)
    /\ peeked' = (peeked \/ peek)
    /\ \/ /\ Head(kernel) = opened
          /\ opened' = opened + 1 /\ rx_plain' = Plain(Head(kernel)) /\ UNCHANGED alive
       \/ /\ Head(kernel) # opened
          /\ alive' = FALSE /\ UNCHANGED <<opened, rx_plain>>
    /\ UNCHANGED <<taken, written, sealed, came, dropped>>

\* overlay_read_iov once there is plaintext: copy_plaintext_to_app drains it,
\* MSG_PEEK or not, then it is scattered.
overlay_read_iov(iov, peek) ==
    LET total == Sum(iov)
        n == IF total < Len(rx_plain) THEN total ELSE Len(rx_plain)
        fault == \E i \in Reached(iov, n) : Faulty(iov[i])
    IN  /\ alive /\ rx_plain # <<>> /\ ~TooLong(iov) /\ total > 0
        /\ rx_plain' = SubSeq(rx_plain, n + 1, Len(rx_plain))
        /\ taken' = IF fault THEN taken ELSE taken \o scatter_iov(iov, SubSeq(rx_plain, 1, n))
        /\ dropped' = (dropped \/ fault)
        /\ peeked' = (peeked \/ peek)
        /\ UNCHANGED <<kernel, opened, alive, written, sealed, came>>

\* overlay_write_iov: all entries or none.  The buffers hold the next bytes of
\* what the application has to say.
overlay_write_iov(iov) ==
    /\ alive /\ ~TooLong(iov) /\ ~\E i \in DOMAIN iov : Faulty(iov[i])
    /\ Len(sealed) + Sum(iov) <= MaxWritten
    /\ sealed' = sealed \o gather_iov(iov, Len(written) + 1)
    /\ written' = written \o [i \in 1..Sum(iov) |-> Len(written) + i]
    /\ UNCHANGED <<kernel, opened, rx_plain, alive, taken, came, peeked, dropped>>

VectoredNext ==
    \/ Arrive
    \/ \E peek \in BOOLEAN : Pull(peek)
    \/ \E iov \in Iov : overlay_write_iov(iov) \/ \E peek \in BOOLEAN : overlay_read_iov(iov, peek)

-----------------------------------------------------------------------------

=============================================================================
