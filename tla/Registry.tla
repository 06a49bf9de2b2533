------------------------------ MODULE Registry ------------------------------
(***************************************************************************)
(* The threads of one process at the interposed calls: the REGISTRY map    *)
(* from descriptor numbers to shared FdStates (an Arc<Mutex<FdState>>      *)
(* each), the kernel's descriptor table, and what the interposer does      *)
(* between looking a number up and using it.                               *)
(*                                                                         *)
(* The registry lock covers single map operations only, so an operation    *)
(* under it is one step; the lock of an FdState is held from Lock to the   *)
(* end of the call, across blocking system calls.  The contents of a       *)
(* session are module Session's; here a state only knows how far it is     *)
(* and which sockets it has exchanged bytes with.                          *)
(***************************************************************************)
EXTENDS Integers, FiniteSets

CONSTANTS
    Thread,    \* threads of the process
    Fd,        \* descriptor numbers
    MaxPanics  \* bound: states whose lock a panic has poisoned

None == 0

ASSUME RegistryAssumption ==
    /\ IsFiniteSet(Thread) /\ IsFiniteSet(Fd)
    /\ None \notin Thread \cup Fd
    /\ MaxPanics \in Nat

\* Names for sockets and for FdStates.  A name whose bearer is gone is given out
\* again; there are enough for every number and every call under way.
Sock == 1..(Cardinality(Fd) + Cardinality(Thread))
State == 1..(Cardinality(Fd) + Cardinality(Thread))
Gone == 0

VARIABLES
    fdtab,     \* the kernel's table: number -> open socket or file
    sock,      \* the sockets and files
    registry,  \* REGISTRY: number -> FdState
    st,        \* the FdStates
    gauge,     \* RUNTIME_METRICS.active_sessions
    th,        \* per thread, the call it is in
    raw,       \* history: application bytes reached a stream socket as they are
    misuse     \* history: a call raced with close, connect or reuse of its number

kernel == <<fdtab, sock>>
states == <<registry, st, gauge>>
vars == <<kernel, states, th, raw, misuse>>

Kind == {"closed", "file", "unconnected", "connecting", "established", "connected"}

\* sessions: history, how many states have exchanged bytes with the socket.
Socket == [kind : Kind, nonblocking : BOOLEAN, input : {"none", "bytes", "eof"}, sessions : Nat]

Closed == [kind |-> "closed", nonblocking |-> FALSE, input |-> "none", sessions |-> 0]

Phase == {"hello", "await", "active", "failed"}

\* counted: counted_active; touched: history, the sockets bytes were exchanged with.
FdState == [phase : Phase, counted : BOOLEAN, lock : Thread \cup {None}, poisoned : BOOLEAN,
            touched : SUBSET (Sock \cup {Gone})]

\* A new FdState, in its first phase or failed for want of policy, identity or PSK.
Build(phase) ==
    [phase |-> phase, counted |-> FALSE, lock |-> None, poisoned |-> FALSE, touched |-> {}]

Op == {"send", "recv", "egress", "close", "connect"}

Idle == [pc |-> "idle", op |-> "close", fd |-> None, arc |-> None, sock |-> None]

Init ==
    /\ fdtab = [f \in Fd |-> None]
    /\ sock = [s \in Sock |-> Closed]
    /\ registry = [f \in Fd |-> None]
    /\ st = [o \in State |-> Build("failed")]
    /\ gauge = 0
    /\ th = [t \in Thread |-> Idle]
    /\ raw = FALSE
    /\ misuse = FALSE

-----------------------------------------------------------------------------
(* The kernel: sockets are opened, connections established, bytes arrive.  *)

Kinded(f, kinds) == fdtab[f] # None /\ sock[fdtab[f]].kind \in kinds

Streams == Kind \ {"closed", "file"}

Connected == {"established", "connected"}

Parked(s) == \E t \in Thread : th[t].pc = "parked" /\ th[t].sock = s

NewSock ==
    CHOOSE s \in Sock :
        /\ sock[s].kind = "closed" /\ ~Parked(s)
        /\ \A r \in 1..(s - 1) : sock[r].kind # "closed" \/ Parked(r)

\* socket, accept or open, none of which is interposed.
Open(f, kind, nonblocking) ==
    /\ fdtab[f] = None
    /\ fdtab' = [fdtab EXCEPT ![f] = NewSock]
    /\ sock' = [sock EXCEPT ![NewSock] =
                    [Closed EXCEPT !.kind = kind, !.nonblocking = nonblocking]]
    /\ st' = [o \in State |-> [st[o] EXCEPT !.touched =
                 {IF s = NewSock THEN Gone ELSE s : s \in @}]]
    /\ UNCHANGED <<registry, gauge, th, raw, misuse>>

Established(s) ==
    /\ sock[s].kind = "connecting"
    /\ sock' = [sock EXCEPT ![s].kind = "established"]
    /\ UNCHANGED <<fdtab, states, th, raw, misuse>>

Arrive(s, input) ==
    /\ sock[s].kind \in Connected \/ Parked(s)
    /\ sock[s].input = "none"
    /\ sock' = [sock EXCEPT ![s].input = input]
    /\ UNCHANGED <<fdtab, states, th, raw, misuse>>

-----------------------------------------------------------------------------
(* References, and what the end of the last one does.                      *)

Live(r, calls) == ({r[f] : f \in Fd} \cup {calls[t].arc : t \in Thread}) \ {None}

\* Mutant of Dropped: the flag is not looked at.
DroppedUncounted(r, states0) == {}

\* impl Drop for FdState runs for the states that lose their last reference in
\* this step; those still counted as active are taken off the gauge.
Dropped(r, states0) ==
    {o \in Live(registry, th) \ Live(r, th') : states0[o].counted}

\* A step that changes the registry to r, the states to states0 and the gauge by
\* delta, and then drops what nobody refers to any more.
Update(r, states0, delta) ==
    /\ registry' = r
    /\ st' = [o \in State |-> IF o \in Live(r, th') THEN states0[o] ELSE Build("failed")]
    /\ gauge' = gauge + delta - Cardinality(Dropped(r, states0))

\* The registry holds a new state for f.
Register(f, phase) ==
    LET new == CHOOSE o \in State : o \notin Live(registry, th) /\ 1..(o - 1) \subseteq Live(registry, th)
    IN Update([registry EXCEPT ![f] = new], [st EXCEPT ![new] = Build(phase)], 0)

Pc(t, from) == th[t].pc = from

Goto(t, to) == th' = [th EXCEPT ![t].pc = to]

\* The call returns to the application; its clone of the Arc is dropped.
Return(t) == th' = [th EXCEPT ![t] = Idle]

-----------------------------------------------------------------------------
(* The calls.                                                              *)

InCall(t, f) == th[t].pc # "idle" /\ th[t].fd = f

\* What an application must not do with a number: close it, or connect it,
\* while another thread is in a call on it; use it while it is being closed or
\* connected, or when it is not open; connect a socket that has been used.
Misused(op, f) ==
    \/ \E u \in Thread : InCall(u, f) /\ {op, th[u].op} \cap {"close", "connect"} # {}
    \/ fdtab[f] = None
    \/ op = "connect" /\ sock[fdtab[f]].sessions > 0

\* A call begins.  The history is kept as long as no number is misused.
Begin(t, op, f) ==
    /\ Pc(t, "idle")
    /\ misuse' = (misuse \/ Misused(op, f))
    /\ IF misuse' THEN /\ st' = [o \in State |-> [st[o] EXCEPT !.touched = {}]]
                       /\ sock' = [s \in Sock |-> [sock[s] EXCEPT !.sessions = 0]]
                       /\ raw' = FALSE
                  ELSE UNCHANGED <<st, sock, raw>>
    /\ th' = [th EXCEPT ![t] =
                 [Idle EXCEPT !.op = op, !.fd = f,
                              !.pc = CASE op \in {"send", "recv"} -> "ensure"
                                       [] op = "egress" -> "probe"
                                       [] op = "close" -> "remove"
                                       [] op = "connect" -> "connect"]]
    /\ UNCHANGED <<fdtab, registry, gauge>>

\* Mutant of Ensure: what is not in the registry is left to libc.
EnsureTrackedOnly(t) ==
    /\ Pc(t, "ensure")
    /\ Goto(t, IF registry[th[t].fd] # None THEN "lookup" ELSE "raw")
    /\ UNCHANGED <<kernel, states, raw, misuse>>

\* ensure_tracked: is the number in the registry?
Ensure(t) ==
    /\ Pc(t, "ensure")
    /\ Goto(t, IF registry[th[t].fd] # None THEN "lookup" ELSE "probe")
    /\ UNCHANGED <<kernel, states, raw, misuse>>

\* is_stream_socket, for ensure_tracked and for block_stream_egress, which
\* refuses sendto, sendmmsg, sendfile, sendfile64 and splice on a stream.
Probe(t) ==
    /\ Pc(t, "probe")
    /\ \/ Kinded(th[t].fd, Streams) /\ th[t].op = "egress" /\ Return(t)
       \/ Kinded(th[t].fd, Streams) /\ th[t].op # "egress" /\ Goto(t, "insert")
       \/ ~Kinded(th[t].fd, Streams) /\ Goto(t, "raw")
    /\ UNCHANGED <<kernel, states, raw, misuse>>

\* The real call of a descriptor that is no stream socket.
Raw(t) ==
    /\ Pc(t, "raw")
    /\ Return(t)
    /\ raw' = (raw \/ (~misuse /\ Kinded(th[t].fd, Streams)))
    /\ UNCHANGED <<kernel, states, misuse>>


\* ensure_tracked, under the registry lock again: entry().or_insert_with().
Insert(t, phase) ==
    /\ Pc(t, "insert")
    /\ Goto(t, "lookup")
    /\ \/ registry[th[t].fd] # None /\ UNCHANGED states
       \/ registry[th[t].fd] = None /\ Register(th[t].fd, phase)
    /\ UNCHANGED <<kernel, raw, misuse>>

\* lookup clones the Arc; EBADF when the entry is gone.
Lookup(t) ==
    /\ Pc(t, "lookup")
    /\ \/ registry[th[t].fd] = None /\ Return(t)
       \/ /\ registry[th[t].fd] # None
          /\ th' = [th EXCEPT ![t].pc = "lock", ![t].arc = registry[th[t].fd]]
    /\ UNCHANGED <<kernel, states, raw, misuse>>

-----------------------------------------------------------------------------
(* Under the lock of a state.                                              *)

\* Mutant of fail_closed: counted_active stays set.
fail_closed_counted(x) ==
    [x |-> [x EXCEPT !.phase = "failed"], delta |-> IF x.counted THEN -1 ELSE 0]

fail_closed(x) ==
    [x |-> [x EXCEPT !.phase = "failed", !.counted = FALSE], delta |-> IF x.counted THEN -1 ELSE 0]

activate(x) ==
    [x |-> [x EXCEPT !.phase = "active", !.counted = TRUE], delta |-> IF x.counted THEN 0 ELSE 1]

same(x) == [x |-> x, delta |-> 0]

\* The call ends with its state as r says and the lock released.
Unlock(t, r) ==
    /\ Return(t)
    /\ Update(registry, [st EXCEPT ![th[t].arc] = [r.x EXCEPT !.lock = None]], r.delta)

\* The call goes on with its state as r says.
Continue(t, r) ==
    /\ Goto(t, "io")
    /\ Update(registry, [st EXCEPT ![th[t].arc] = r.x], r.delta)

\* Mutant of Lock: a poisoned lock is taken all the same (into_inner).
LockPoisoned(t, stale) ==
    LET o == th[t].arc IN
    /\ Pc(t, "lock") /\ st[o].lock = None
    /\ \/ stale /\ Unlock(t, fail_closed(st[o]))
       \/ ~stale /\ Continue(t, same([st[o] EXCEPT !.lock = t]))
    /\ UNCHANGED <<kernel, raw, misuse>>

\* state.lock(): a poisoned lock is EIO.  A state that is stale after a reload,
\* or that another process began, is failed at once.
Lock(t, stale) ==
    LET o == th[t].arc IN
    /\ Pc(t, "lock") /\ st[o].lock = None
    /\ \/ st[o].poisoned /\ Unlock(t, same(st[o]))
       \/ ~st[o].poisoned /\ stale /\ Unlock(t, fail_closed(st[o]))
       \/ ~st[o].poisoned /\ ~stale /\ Continue(t, same([st[o] EXCEPT !.lock = t]))
    /\ UNCHANGED <<kernel, raw, misuse>>

\* A panic in the call: caught by ffi_guard, it poisons the lock.
Panic(t) ==
    LET o == th[t].arc IN
    /\ Pc(t, "io")
    /\ Cardinality({q \in State : st[q].poisoned}) < MaxPanics
    /\ Unlock(t, same([st[o] EXCEPT !.poisoned = TRUE]))
    /\ UNCHANGED <<kernel, raw, misuse>>

\* The state of a call, after bytes went between it and socket s.
Contact(t, s) ==
    LET x == st[th[t].arc] IN IF misuse THEN x ELSE [x EXCEPT !.touched = @ \cup {s}]

CountContact(sock0, t, s) ==
    [sock0 EXCEPT ![s].sessions = IF misuse \/ s \in st[th[t].arc].touched THEN @ ELSE @ + 1]

\* The real call fails on what the number denotes now: send fails the session,
\* recv leaves it.  A connection still in progress is EAGAIN for both.
IoError(t) ==
    LET o == th[t].arc IN
    /\ Pc(t, "io") /\ st[o].phase # "failed"
    /\ ~Kinded(th[t].fd, Connected)
    /\ IF th[t].op = "recv" \/ Kinded(th[t].fd, {"connecting"})
       THEN Unlock(t, same(st[o])) ELSE Unlock(t, fail_closed(st[o]))
    /\ UNCHANGED <<kernel, raw, misuse>>

\* A failed session: EPIPE.
IoFailed(t) ==
    /\ Pc(t, "io") /\ st[th[t].arc].phase = "failed"
    /\ Unlock(t, same(st[th[t].arc]))
    /\ UNCHANGED <<kernel, raw, misuse>>

\* flush_backlog: the hello, or the records of a send.  The connection may turn
\* out broken, which fails the session; a recv in the handshake ignores it.
IoSend(t, broken) ==
    LET o == th[t].arc
        s == fdtab[th[t].fd]
    IN
    /\ Pc(t, "io") /\ Kinded(th[t].fd, Connected)
    /\ \/ /\ ~broken
          /\ \/ /\ st[o].phase = "hello"
                /\ Continue(t, same([Contact(t, s) EXCEPT !.phase = "await"]))
             \/ /\ st[o].phase = "active" /\ th[t].op = "send"
                /\ Unlock(t, same(Contact(t, s)))
          /\ sock' = CountContact(sock, t, s)
       \/ /\ broken
          /\ st[o].phase \in {"hello", "active"} /\ th[t].op = "send"
          /\ Unlock(t, fail_closed(st[o]))
          /\ UNCHANGED sock
    /\ UNCHANGED <<fdtab, raw, misuse>>

\* A call that has come to pull_wire.
Pulls(t) ==
    \/ st[th[t].arc].phase = "await"
    \/ st[th[t].arc].phase = "active" /\ th[t].op = "recv"

\* recv(2) finds nothing: a blocking descriptor sleeps in the call, with the
\* lock of the state held and on the socket the number denoted when it began.
Park(t) ==
    LET s == fdtab[th[t].fd] IN
    /\ Pc(t, "io") /\ Kinded(th[t].fd, Connected) /\ Pulls(t) /\ sock[s].input = "none"
    /\ \/ /\ ~sock[s].nonblocking
          /\ th' = [th EXCEPT ![t].pc = "parked", ![t].sock = s]
          /\ UNCHANGED <<registry, st, gauge>>
       \/ sock[s].nonblocking /\ Unlock(t, same(st[th[t].arc]))
    /\ UNCHANGED <<kernel, raw, misuse>>

\* The socket recv(2) reads from.
Source(t) == IF Pc(t, "parked") THEN th[t].sock ELSE fdtab[th[t].fd]

\* recv(2) finds bytes, which are part of a frame, or complete the handshake or
\* the answer, or are refused; or it finds the end of the stream.
IoRecv(t, outcome) ==
    LET o == th[t].arc
        s == Source(t)
        x == Contact(t, s)
    IN
    /\ Pc(t, "parked") \/ (Pc(t, "io") /\ Kinded(th[t].fd, Connected))
    /\ Pulls(t)
    /\ \/ /\ sock[s].input = "bytes"
          /\ sock' = CountContact([sock EXCEPT ![s].input = "none"], t, s)
          /\ CASE outcome = "part" -> Continue(t, same(x))
               [] outcome = "refused" -> Unlock(t, fail_closed(x))
               [] outcome = "whole" -> IF x.phase = "await" THEN Continue(t, activate(x))
                                                            ELSE Unlock(t, same(x))
       \/ /\ sock[s].input = "eof"
          /\ Unlock(t, IF th[t].op = "send" THEN fail_closed(st[o]) ELSE same(st[o]))
          /\ UNCHANGED sock
    /\ UNCHANGED <<fdtab, raw, misuse>>

-----------------------------------------------------------------------------
(* close and connect.                                                      *)

\* Mutant of CloseRemove: close waits for the lock of the state.
CloseRemoveLocked(t) ==
    /\ Pc(t, "remove")
    /\ registry[th[t].fd] # None => st[registry[th[t].fd]].lock = None
    /\ Goto(t, "close")
    /\ Update([registry EXCEPT ![th[t].fd] = None], st, 0)
    /\ UNCHANGED <<kernel, raw, misuse>>

\* close removes the entry and drops the registry's reference, then closes.
CloseRemove(t) ==
    /\ Pc(t, "remove")
    /\ Goto(t, "close")
    /\ Update([registry EXCEPT ![th[t].fd] = None], st, 0)
    /\ UNCHANGED <<kernel, raw, misuse>>

CloseReal(t) ==
    /\ Pc(t, "close")
    /\ Return(t)
    /\ fdtab' = [fdtab EXCEPT ![th[t].fd] = None]
    /\ sock' = [s \in Sock |->
                   IF s # fdtab[th[t].fd] THEN sock[s]
                   ELSE IF Parked(s) THEN [sock[s] EXCEPT !.kind = "closed"] ELSE Closed]
    /\ UNCHANGED <<states, raw, misuse>>

\* The real connect.  It succeeds, at once or the second time, or is in
\* progress (EINPROGRESS): both have a state installed.  It fails, or says
\* EALREADY or EISCONN: no state.
ConnectReal(t) ==
    LET s == fdtab[th[t].fd]
        becomes(kind) == sock' = [sock EXCEPT ![s].kind = kind]
    IN
    /\ Pc(t, "connect")
    /\ \/ /\ Kinded(th[t].fd, {"unconnected", "established"})
          /\ becomes("connected") /\ Goto(t, "install")
       \/ /\ Kinded(th[t].fd, {"unconnected"}) /\ sock[s].nonblocking
          /\ becomes("connecting") /\ Goto(t, "install")
       \/ /\ ~Kinded(th[t].fd, {"established"})
          /\ Return(t) /\ UNCHANGED sock
    /\ UNCHANGED <<fdtab, states, raw, misuse>>

\* install_initiator_state replaces whatever the registry holds for the number.
Install(t, phase) ==
    /\ Pc(t, "install")
    /\ Return(t)
    /\ Register(th[t].fd, phase)
    /\ UNCHANGED <<kernel, raw, misuse>>

-----------------------------------------------------------------------------
Io(t) ==
    \/ IoError(t) \/ IoFailed(t) \/ Park(t)
    \/ \E broken \in BOOLEAN : IoSend(t, broken)
    \/ \E outcome \in {"part", "whole", "refused"} : IoRecv(t, outcome)

Take(t) == \E stale \in BOOLEAN : Lock(t, stale)

Step(t) ==
    \/ Ensure(t) \/ Probe(t) \/ Raw(t) \/ Lookup(t)
    \/ \E phase \in {"await", "failed"} : Insert(t, phase)
    \/ CloseRemove(t) \/ CloseReal(t) \/ ConnectReal(t)
    \/ \E phase \in {"hello", "failed"} : Install(t, phase)

Network(s) == Established(s) \/ \E input \in {"bytes", "eof"} : Arrive(s, input)

Next ==
    \/ \E f \in Fd, kind \in {"file", "unconnected", "connected"}, nonblocking \in BOOLEAN :
          (kind = "file" => ~nonblocking) /\ Open(f, kind, nonblocking)
    \/ \E s \in Sock : Network(s)
    \/ \E t \in Thread : \/ \E op \in Op, f \in Fd : Begin(t, op, f)
                         \/ Step(t) \/ Take(t) \/ Io(t) \/ Panic(t)

Spec == Init /\ [][Next]_vars

\* Threads run, a lock that is released again and again is acquired, and a frame,
\* whose length is bounded, is complete or refused after finitely many reads.
Fairness ==
    \A t \in Thread :
        /\ WF_vars(Step(t)) /\ WF_vars(Io(t)) /\ SF_vars(Take(t))
        /\ SF_vars(\E outcome \in {"whole", "refused"} : IoRecv(t, outcome))

LiveSpec == Spec /\ Fairness

-----------------------------------------------------------------------------
\* Every variable has its type.
TypeOK ==
    /\ fdtab \in [Fd -> Sock \cup {None}] /\ sock \in [Sock -> Socket]
    /\ registry \in [Fd -> State \cup {None}] /\ st \in [State -> FdState]
    /\ gauge \in Nat
    /\ th \in [Thread -> [pc : {"idle", "ensure", "probe", "raw", "insert", "lookup", "lock", "io",
                                "parked", "remove", "close", "connect", "install"},
                          op : Op, fd : Fd \cup {None}, arc : State \cup {None},
                          sock : Sock \cup {None}]]
    /\ raw \in BOOLEAN /\ misuse \in BOOLEAN

\* active_sessions is the number of states in use that are counted as active,
\* whether a session fails, is closed under a running call, is replaced by a
\* second connect or is left behind by a panic.
GaugeExact == gauge = Cardinality({o \in Live(registry, th) : st[o].counted})


\* As long as the application does not misuse a number, no call hands its bytes
\* to a stream socket as they are: the descriptor that ensure_tracked or
\* block_stream_egress took for something else is still that when the real call
\* is made.
NoPlaintext == ~raw

\* A state that has failed, or whose lock a panic has poisoned, is dead: no call,
\* not even one that was waiting for the lock, exchanges bytes through it or
\* brings it back.
DeadStaysDead ==
    [][\A o \in Live(registry, th) \cap Live(registry', th') :
          st[o].phase = "failed" \/ st[o].poisoned =>
              /\ Cardinality(st'[o].touched) <= Cardinality(st[o].touched)
              /\ st'[o].phase = st[o].phase]_vars

\* A thread waits for its peer, in a read, or for the lock of a state that
\* another thread holds.
Waits(t) ==
    \/ Pc(t, "parked") /\ sock[th[t].sock].input = "none"
    \/ Pc(t, "lock") /\ st[th[t].arc].lock # None

\* Connections are independent and close never waits: a thread that is in a
\* call can take its next step unless it waits for its own peer or for another
\* call on its own state, and whoever holds a state is in its I/O, not waiting
\* for another lock.
NoCrossWait ==
    \A t \in Thread :
        /\ ~Pc(t, "idle") /\ ~Waits(t) => ENABLED (Step(t) \/ Take(t) \/ Io(t))
        /\ Pc(t, "lock") /\ Waits(t) =>
              LET u == st[th[t].arc].lock IN th[u].pc \in {"io", "parked"} /\ th[u].arc = th[t].arc

\* The application goes on using "normal socket and file-descriptor APIs": a
\* send on an established session of an open descriptor completes, whether or
\* not another thread waits for the peer's answer on the same descriptor.
SendCompletes ==
    \A t \in Thread :
        (th[t].op = "send" /\ Pc(t, "lock") /\ st[th[t].arc].phase = "active" /\ ~misuse)
            ~> Pc(t, "idle")

=============================================================================
