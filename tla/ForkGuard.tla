----------------------------- MODULE ForkGuard -----------------------------
(***************************************************************************)
(* The owner_pid guard.  fork(2) copies a process with every FdState it    *)
(* holds: keys, ephemeral secrets and record counters now exist twice, and *)
(* both copies sit on the same kernel socket.  overlay_send and            *)
(* overlay_recv compare owner_pid with getpid() before anything else.      *)
(*                                                                         *)
(* A process is an element of Proc; its pid is what the kernel gives it.   *)
(***************************************************************************)
EXTENDS Integers, Sequences

CONSTANTS
    Proc,       \* the processes there can be, the dead ones included
    Root,       \* the process the program starts as
    Pid,        \* process identifiers
    NoPid,      \* what getpid never returns
    Fd,         \* descriptors
    MaxCounter, \* u64::MAX, the counter value that is never used
    MaxKeys,    \* bound: sessions begun
    MaxOps      \* bound: records sealed or opened

ASSUME ForkAssumption ==
    /\ Root \in Proc /\ NoPid \notin Pid
    /\ MaxCounter \in Nat /\ MaxKeys \in Nat /\ MaxOps \in Nat

VARIABLES
    live,    \* the processes that run
    pid,     \* what getpid returns in a process
    used,    \* the pids the kernel has given out
    reused,  \* history: it has given one of them out again
    state,   \* per process, its copy of the FdState of a descriptor
    answered, \* the sessions whose handshake the peer has answered
    keys,    \* number of sessions begun: a session's keys are its number
    maker,   \* history: the process that began a session
    log      \* history: records sealed and opened, in order

vars == <<live, pid, used, reused, state, answered, keys, maker, log>>

\* The two directions of a session, and their record counters.
Op == {"seal", "open"}

Fresh == [op \in Op |-> 0]

Untracked == [owner |-> NoPid, phase |-> "Untracked", key |-> 0, counter |-> Fresh]

FdState == [owner : Pid \cup {NoPid}, phase : {"Untracked", "Handshaking", "Active", "Failed"},
            key : Nat, counter : [Op -> 0..MaxCounter]]

Entry == [op : Op, key : Nat, nonce : Nat, by : Proc]

Init ==
    /\ live = {Root}
    /\ \E n \in Pid : /\ pid = [p \in Proc |-> IF p = Root THEN n ELSE NoPid]
                      /\ used = {n}
    /\ reused = FALSE
    /\ state = [p \in Proc |-> [f \in Fd |-> Untracked]]
    /\ answered = {}
    /\ keys = 0
    /\ maker = <<>>
    /\ log = <<>>

-----------------------------------------------------------------------------
\* Mutant of Track: a session is begun with the secrets of the one before.
TrackReusesKeys(p, f) ==
    /\ state[p][f].phase = "Untracked" /\ keys < MaxKeys
    /\ maker' = Append(maker, p)
    /\ state' = [state EXCEPT ![p][f] =
           [owner |-> pid[p], phase |-> "Handshaking", key |-> keys, counter |-> Fresh]]
    /\ UNCHANGED <<live, pid, used, reused, answered, keys, log>>

\* install_initiator_state or ensure_tracked: new ephemeral secrets, owned by
\* the process that makes them.
Track(p, f) ==
    /\ state[p][f].phase = "Untracked" /\ keys < MaxKeys
    /\ keys' = keys + 1
    /\ maker' = Append(maker, p)
    /\ state' = [state EXCEPT ![p][f] =
           [owner |-> pid[p], phase |-> "Handshaking", key |-> keys + 1, counter |-> Fresh]]
    /\ UNCHANGED <<live, pid, used, reused, answered, log>>

fail_closed(p, f) == state' = [state EXCEPT ![p][f].phase = "Failed"]

\* Mutants of inherited_after_fork: no guard, and one for established sessions only.
never_inherited(p, f) == FALSE

inherited_if_active(p, f) == state[p][f].phase = "Active" /\ state[p][f].owner # pid[p]

\* True when the state was made by another process.
inherited_after_fork(p, f) == state[p][f].owner # pid[p]

\* Record an operation of p with the keys of f.
Log(op, p, f) ==
    log' = Append(log, [op |-> op, key |-> state[p][f].key,
                        nonce |-> state[p][f].counter[op], by |-> p])

\* The peer's one answer to a handshake goes to whichever copy reads it.
Usable(p, f) ==
    \/ state[p][f].phase = "Active"
    \/ state[p][f].phase = "Handshaking" /\ state[p][f].key \notin answered

\* overlay_send ("seal") and overlay_recv ("open"): the guard, then whatever
\* is left of the handshake, then one record; any failure is final.
overlay_io(op, p, f) ==
    /\ state[p][f].phase # "Untracked"
    /\ \/ /\ inherited_after_fork(p, f)
          /\ fail_closed(p, f)
          /\ UNCHANGED <<answered, log>>
       \/ /\ ~inherited_after_fork(p, f)
          /\ fail_closed(p, f)
          /\ UNCHANGED <<answered, log>>
       \/ /\ ~inherited_after_fork(p, f)
          /\ Usable(p, f) /\ state[p][f].counter[op] # MaxCounter
          /\ state' = [state EXCEPT ![p][f].phase = "Active", ![p][f].counter[op] = @ + 1]
          /\ answered' = answered \cup {state[p][f].key}
          /\ Log(op, p, f)
    /\ UNCHANGED <<live, pid, used, reused, keys, maker>>

close(p, f) ==
    /\ state[p][f].phase # "Untracked"
    /\ state' = [state EXCEPT ![p][f] = Untracked]
    /\ UNCHANGED <<live, pid, used, reused, answered, keys, maker, log>>

\* The kernel: a pid is free when no live process has it.
FreePids == {n \in Pid : \A q \in live : pid[q] # n}

fork(p, q) ==
    /\ pid[q] = NoPid
    /\ \E n \in FreePids :
          /\ pid' = [pid EXCEPT ![q] = n]
          /\ used' = used \cup {n}
          /\ reused' = (reused \/ n \in used)
    /\ live' = live \cup {q}
    /\ state' = [state EXCEPT ![q] = state[p]]
    /\ UNCHANGED <<answered, keys, maker, log>>

exit(p) ==
    /\ live' = live \ {p}
    /\ state' = [state EXCEPT ![p] = [f \in Fd |-> Untracked]]
    /\ UNCHANGED <<pid, used, reused, answered, keys, maker, log>>

Next ==
    \E p \in live :
        \/ \E f \in Fd : Track(p, f) \/ close(p, f)
        \/ \E f \in Fd, op \in Op : Len(log) < MaxOps /\ overlay_io(op, p, f)
        \/ \E q \in Proc \ live : fork(p, q)
        \/ exit(p)

Spec == Init /\ [][Next]_vars

-----------------------------------------------------------------------------
\* Every variable has its type, and every session begun has a maker.
TypeOK ==
    /\ live \subseteq Proc
    /\ pid \in [Proc -> Pid \cup {NoPid}]
    /\ used \subseteq Pid /\ reused \in BOOLEAN
    /\ state \in [Proc -> [Fd -> FdState]]
    /\ answered \subseteq Nat
    /\ keys \in Nat
    /\ maker \in Seq(Proc) /\ Len(maker) = keys
    /\ log \in Seq(Entry)

\* However the processes that share a connection are scheduled, no key seals
\* two records with one nonce: the counters that fork duplicated are dead.  The
\* guard compares pids, so this holds until the kernel gives a pid out again.
NonceUnique ==
    ~reused =>
        \A i, j \in DOMAIN log :
            /\ log[i].op = "seal" /\ log[j].op = "seal"
            /\ log[i].key = log[j].key /\ log[i].nonce = log[j].nonce
            => i = j

\* Until then a session is only ever used by the process that began it: the
\* copy in a child neither seals a record nor takes one off the shared socket.
OwnerOnly == ~reused => \A i \in DOMAIN log : log[i].by = maker[log[i].key]

=============================================================================
