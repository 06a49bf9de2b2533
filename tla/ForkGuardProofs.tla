-------------------------- MODULE ForkGuardProofs --------------------------
(***************************************************************************)
(* Proofs about ForkGuard, for any number of processes, descriptors and    *)
(* sessions: as long as the kernel has not reused a pid, a session is used *)
(* by the process that began it and by no other, and no nonce repeats.     *)
(***************************************************************************)
EXTENDS ForkGuard, SequenceTheorems, TLAPS

\* The leaves are logic and sets: Zenon proves them unless one names SMT.
USE ZenonT(20)

-----------------------------------------------------------------------------
(* The inductive invariant.                                                *)

\* The copy of a state that passes the owner_pid guard.
Owned(p, f) == state[p][f].phase # "Untracked" /\ state[p][f].owner = pid[p]

\* Pids are given out once, and every owner_pid is one of them.
PidInv ==
    /\ \A p \in live : pid[p] # NoPid
    /\ \A p \in Proc : pid[p] # NoPid => pid[p] \in used
    /\ \A p, q \in Proc : pid[p] = pid[q] /\ pid[p] # NoPid => p = q
    /\ \A p \in Proc, f \in Fd : state[p][f].phase # "Untracked" => state[p][f].owner \in used

\* The owned copy of a session is its maker's only one, and its counters are
\* ahead of every record in the log.
OwnedInv(p, f) ==
    /\ state[p][f].key \in 1..keys
    /\ maker[state[p][f].key] = p
    /\ \A i \in DOMAIN log : log[i].key = state[p][f].key =>
           log[i].nonce < state[p][f].counter[log[i].op]
    /\ \A g \in Fd : Owned(p, g) /\ state[p][g].key = state[p][f].key => g = f

LogInv ==
    /\ \A i \in DOMAIN log : log[i].key \in 1..keys /\ log[i].by = maker[log[i].key]
    /\ \A i, j \in DOMAIN log :
           /\ log[i].op = log[j].op /\ log[i].key = log[j].key /\ log[i].nonce = log[j].nonce
           => i = j

ForkInv ==
    /\ TypeOK /\ PidInv /\ LogInv
    /\ \A p \in Proc, f \in Fd : Owned(p, f) => OwnedInv(p, f)

-----------------------------------------------------------------------------
(* Every action preserves the invariant.                                   *)

Replace(s, p, f, t) == [s EXCEPT ![p][f] = t]

\* One descriptor's state is replaced.
LEMMA ReplaceOne ==
    ASSUME NEW s \in [Proc -> [Fd -> FdState]], NEW p \in Proc, NEW f \in Fd, NEW t \in FdState
    PROVE  /\ Replace(s, p, f, t) \in [Proc -> [Fd -> FdState]]
           /\ Replace(s, p, f, t)[p][f] = t
           /\ \A q \in Proc, g \in Fd : q # p \/ g # f => Replace(s, p, f, t)[q][g] = s[q][g]
BY DEF Replace

\* A step that keeps pids, log and sessions, and leaves every descriptor as it
\* was, without an owned state, or failed with its other fields as they were.
LEMMA CalmStep ==
    ASSUME ForkInv, state' \in [Proc -> [Fd -> FdState]],
           live' \subseteq live, UNCHANGED <<pid, used, reused, answered, keys, maker, log>>,
           \A q \in Proc, g \in Fd :
               \/ state'[q][g].phase = "Untracked"
               \/ /\ state[q][g].phase # "Untracked"
                  /\ state'[q][g].owner = state[q][g].owner
                  /\ state'[q][g].key = state[q][g].key
                  /\ state'[q][g].counter = state[q][g].counter
    PROVE  ForkInv'
<1>1. TypeOK'
  BY DEF ForkInv, TypeOK
<1>2. PidInv'
  <2>1. PidInv
    BY DEF ForkInv
  <2> QED
    BY <2>1 DEF PidInv
<1>3. LogInv'
  <2>1. LogInv
    BY DEF ForkInv
  <2> QED
    BY <2>1 DEF LogInv
<1>4. ASSUME NEW q \in Proc, NEW g \in Fd, Owned(q, g)' PROVE OwnedInv(q, g)'
  <2>1. \A h \in Fd : Owned(q, h)' => Owned(q, h) /\ state'[q][h].key = state[q][h].key
    BY DEF Owned
  <2>2. Owned(q, g) /\ OwnedInv(q, g) /\ state'[q][g].key = state[q][g].key
    BY <1>4, <2>1 DEF ForkInv
  <2>3. state'[q][g].counter = state[q][g].counter
    BY <1>4 DEF Owned
  <2> QED
    BY <2>1, <2>2, <2>3 DEF OwnedInv
<1> QED
  BY <1>1, <1>2, <1>3, <1>4 DEF ForkInv

\* A new session: its key is new, so no record and no other state has it.
LEMMA TrackInv ==
    ASSUME ForkInv, NEW p \in live, NEW f \in Fd, Track(p, f)
    PROVE  ForkInv'
<1>1. TypeOK /\ PidInv /\ LogInv /\ p \in Proc /\ keys \in Nat
      /\ maker \in Seq(Proc) /\ Len(maker) = keys
  BY DEF ForkInv, TypeOK
<1> DEFINE t == [owner |-> pid[p], phase |-> "Handshaking", key |-> keys + 1, counter |-> Fresh]
<1>2. t \in FdState
  BY <1>1, ForkAssumption, SMT DEF FdState, Fresh, TypeOK
<1>3. /\ state' = [state EXCEPT ![p][f] = t] /\ maker' = Append(maker, p) /\ keys' = keys + 1
      /\ UNCHANGED <<live, pid, used, reused, answered, log>>
  BY DEF Track
<1>4. t.owner = pid[p] /\ t.phase = "Handshaking" /\ t.key = keys + 1
  OBVIOUS
<1> HIDE DEF t
<1>5. /\ state' \in [Proc -> [Fd -> FdState]] /\ state'[p][f] = t
      /\ \A q \in Proc, g \in Fd : q # p \/ g # f => state'[q][g] = state[q][g]
  BY <1>1, <1>2, <1>3 DEF TypeOK
<1>6. /\ maker' \in Seq(Proc) /\ Len(maker') = keys' /\ maker'[keys + 1] = p
      /\ \A k \in 1..keys : maker'[k] = maker[k]
  BY <1>1, <1>3, AppendProperties, SMT
<1>7. TypeOK'
  BY <1>1, <1>3, <1>5, <1>6, SMT DEF TypeOK
<1>8. PidInv'
  <2>1. pid[p] \in used
    BY <1>1 DEF PidInv
  <2>2. ASSUME NEW q \in Proc, NEW g \in Fd, state'[q][g].phase # "Untracked"
        PROVE  state'[q][g].owner \in used
    BY <1>1, <1>4, <1>5, <2>1, <2>2, SMT DEF PidInv
  <2> QED
    BY <1>1, <1>3, <2>2 DEF PidInv
<1>9. LogInv'
  <2>1. \A i \in DOMAIN log : log[i].key \in 1..keys' /\ log[i].by = maker'[log[i].key]
    BY <1>1, <1>3, <1>6, SMT DEF LogInv
  <2> QED
    BY <1>1, <1>3, <2>1 DEF LogInv
<1>10. ASSUME NEW q \in Proc, NEW g \in Fd, Owned(q, g)' PROVE OwnedInv(q, g)'
  <2>1. \A r \in Proc, h \in Fd : r # p \/ h # f => (Owned(r, h)' => Owned(r, h) /\ OwnedInv(r, h))
    BY <1>3, <1>5, SMT DEF Owned, ForkInv
  <2>2. \A r \in Proc, h \in Fd : Owned(r, h)' /\ (r # p \/ h # f) =>
            state'[r][h].key \in 1..keys /\ state'[r][h].key # keys + 1
    BY <1>1, <1>5, <2>1, SMT DEF OwnedInv
  <2>3. CASE q = p /\ g = f
    <3>1. state'[q][g].key = keys + 1 /\ keys + 1 \in 1..keys'
      BY <1>1, <1>3, <1>4, <1>5, <2>3, SMT
    <3>2. \A i \in DOMAIN log' : log'[i].key # keys + 1
      BY <1>1, <1>3, SMT DEF LogInv
    <3>3. \A h \in Fd : Owned(q, h)' /\ state'[q][h].key = keys + 1 => h = g
      BY <2>2, <2>3
    <3> QED
      BY <1>6, <2>3, <3>1, <3>2, <3>3 DEF OwnedInv
  <2>4. CASE q # p \/ g # f
    <3>1. OwnedInv(q, g) /\ state'[q][g] = state[q][g] /\ state[q][g].key \in 1..keys
      BY <1>5, <1>10, <2>1, <2>4 DEF OwnedInv
    <3>2. state[q][g].key \in 1..keys' /\ maker'[state[q][g].key] = q
      BY <1>1, <1>3, <1>6, <3>1, SMT DEF OwnedInv
    <3>3. ASSUME NEW h \in Fd, Owned(q, h)', state'[q][h].key = state'[q][g].key PROVE h = g
      <4>1. ~(q = p /\ h = f)
        BY <1>1, <1>4, <1>5, <3>1, <3>3, SMT
      <4>2. Owned(q, h) /\ state'[q][h] = state[q][h]
        BY <1>5, <2>1, <3>3, <4>1
      <4> QED
        BY <3>1, <3>3, <4>2 DEF OwnedInv
    <3> QED
      BY <1>3, <3>1, <3>2, <3>3 DEF OwnedInv
  <2> QED
    BY <2>3, <2>4
<1> QED
  BY <1>7, <1>8, <1>9, <1>10 DEF ForkInv

\* A descriptor of a process fails closed.
LEMMA FailInv ==
    ASSUME ForkInv, NEW p \in live, NEW f \in Fd, state[p][f].phase # "Untracked",
           fail_closed(p, f), UNCHANGED <<live, pid, used, reused, answered, keys, maker, log>>
    PROVE  ForkInv'
<1>1. TypeOK /\ p \in Proc /\ state[p][f] \in FdState
  BY DEF ForkInv, TypeOK
<1> DEFINE t == [state[p][f] EXCEPT !.phase = "Failed"]
<1>2. /\ t \in FdState /\ t.owner = state[p][f].owner /\ t.key = state[p][f].key
      /\ t.counter = state[p][f].counter
  BY <1>1 DEF FdState
<1>3. state' = [state EXCEPT ![p][f] = t]
  BY <1>1 DEF fail_closed, TypeOK
<1> HIDE DEF t
<1>4. /\ state' \in [Proc -> [Fd -> FdState]] /\ state'[p][f] = t
      /\ \A q \in Proc, g \in Fd : q # p \/ g # f => state'[q][g] = state[q][g]
  BY <1>1, <1>2, <1>3 DEF TypeOK
<1>5. ASSUME NEW q \in Proc, NEW g \in Fd
      PROVE  \/ state'[q][g].phase = "Untracked"
             \/ /\ state[q][g].phase # "Untracked"
                /\ state'[q][g].owner = state[q][g].owner
                /\ state'[q][g].key = state[q][g].key
                /\ state'[q][g].counter = state[q][g].counter
  BY <1>2, <1>4
<1> QED
  BY <1>4, <1>5, CalmStep

\* close drops the state.
LEMMA CloseInv ==
    ASSUME ForkInv, NEW p \in live, NEW f \in Fd, close(p, f)
    PROVE  ForkInv'
<1>1. TypeOK /\ p \in Proc
  BY DEF ForkInv, TypeOK
<1>2. Untracked \in FdState /\ Untracked.phase = "Untracked"
  BY ForkAssumption, SMT DEF Untracked, FdState, Fresh
<1>3. /\ state' \in [Proc -> [Fd -> FdState]] /\ state'[p][f] = Untracked
      /\ \A q \in Proc, g \in Fd : q # p \/ g # f => state'[q][g] = state[q][g]
  BY <1>1, <1>2 DEF TypeOK, close
<1>4. UNCHANGED <<live, pid, used, reused, answered, keys, maker, log>>
  BY DEF close
<1> QED
  BY <1>2, <1>3, <1>4, CalmStep

\* exit drops the states of the process.
LEMMA ExitInv ==
    ASSUME ForkInv, NEW p \in live, exit(p)
    PROVE  ForkInv'
<1>1. TypeOK /\ p \in Proc
  BY DEF ForkInv, TypeOK
<1>2. Untracked \in FdState /\ Untracked.phase = "Untracked"
  BY ForkAssumption, SMT DEF Untracked, FdState, Fresh
<1>3. /\ state' \in [Proc -> [Fd -> FdState]]
      /\ \A g \in Fd : state'[p][g] = Untracked
      /\ \A q \in Proc : q # p => state'[q] = state[q]
  BY <1>1, <1>2 DEF exit, TypeOK
<1>4. live' \subseteq live /\ UNCHANGED <<pid, used, reused, answered, keys, maker, log>>
  BY DEF exit
<1> QED
  BY <1>2, <1>3, <1>4, CalmStep

\* fork: the new pid has never been given out, so nothing the child inherits
\* passes the guard.
LEMMA ForkStepInv ==
    ASSUME ~reused', ForkInv, NEW p \in live, NEW q \in Proc \ live, fork(p, q)
    PROVE  ForkInv'
<1>1. TypeOK /\ PidInv /\ LogInv /\ p \in Proc /\ q \in Proc /\ p # q
  BY DEF ForkInv, TypeOK
<1>2. PICK n \in FreePids : /\ pid' = [pid EXCEPT ![q] = n] /\ used' = used \cup {n}
                             /\ reused' = (reused \/ n \in used)
  BY DEF fork
<1>3. n \in Pid /\ n \notin used /\ n # NoPid
  BY <1>2, ForkAssumption DEF FreePids
<1>4. /\ live' = live \cup {q} /\ state' = [state EXCEPT ![q] = state[p]]
      /\ UNCHANGED <<answered, keys, maker, log>>
  BY DEF fork
<1>5. /\ pid'[q] = n /\ \A r \in Proc : r # q => pid'[r] = pid[r]
      /\ state'[q] = state[p] /\ \A r \in Proc : r # q => state'[r] = state[r]
  BY <1>1, <1>2, <1>4 DEF TypeOK
<1>6. TypeOK'
  BY <1>1, <1>2, <1>3, <1>4 DEF TypeOK
<1>7. PidInv'
  <2>1. \A r \in live' : pid'[r] # NoPid
    BY <1>1, <1>3, <1>4, <1>5, SMT DEF PidInv, TypeOK
  <2>2. \A r \in Proc : pid'[r] # NoPid => pid'[r] \in used'
    BY <1>1, <1>2, <1>5, SMT DEF PidInv
  <2>3. \A r, s \in Proc : pid'[r] = pid'[s] /\ pid'[r] # NoPid => r = s
    BY <1>1, <1>3, <1>5, SMT DEF PidInv
  <2>4. \A r \in Proc, f \in Fd : state'[r][f].phase # "Untracked" => state'[r][f].owner \in used'
    BY <1>1, <1>2, <1>5, SMT DEF PidInv
  <2> QED
    BY <2>1, <2>2, <2>3, <2>4 DEF PidInv
<1>8. LogInv'
  BY <1>1, <1>4 DEF LogInv
<1>9. ASSUME NEW r \in Proc, NEW f \in Fd, Owned(r, f)' PROVE OwnedInv(r, f)'
  <2>1. r # q
    <3>1. SUFFICES ASSUME r = q PROVE FALSE
      OBVIOUS
    <3>2. state[p][f].phase # "Untracked" /\ state[p][f].owner = n
      BY <1>5, <1>9, <3>1 DEF Owned
    <3> QED
      BY <1>1, <1>3, <3>2 DEF PidInv
  <2>2. state'[r] = state[r] /\ pid'[r] = pid[r]
    BY <1>5, <2>1
  <2>3. OwnedInv(r, f)
    BY <1>9, <2>2 DEF Owned, ForkInv
  <2> QED
    BY <1>4, <2>2, <2>3 DEF Owned, OwnedInv
<1> QED
  BY <1>6, <1>7, <1>8, <1>9 DEF ForkInv

\* The part of overlay_io that moves a counter.
Advance(op, p, f) ==
    state' = [state EXCEPT ![p][f].phase = "Active", ![p][f].counter[op] = @ + 1]

\* A record is sealed or opened: only the owned copy of a session gets there.
LEMMA RecordInv ==
    ASSUME ForkInv, NEW p \in live, NEW f \in Fd, NEW op \in Op,
           state[p][f].phase # "Untracked", ~inherited_after_fork(p, f),
           state[p][f].counter[op] # MaxCounter,
           Advance(op, p, f),
           answered' = answered \cup {state[p][f].key}, Log(op, p, f),
           UNCHANGED <<live, pid, used, reused, keys, maker>>
    PROVE  ForkInv'
<1>1. /\ TypeOK /\ PidInv /\ LogInv /\ p \in Proc /\ log \in Seq(Entry)
      /\ state \in [Proc -> [Fd -> FdState]]
  BY DEF ForkInv, TypeOK
<1> DEFINE s == state[p][f]
           c == [s.counter EXCEPT ![op] = @ + 1]
           t == [s EXCEPT !.phase = "Active", !.counter = c]
           entry == [op |-> op, key |-> s.key, nonce |-> s.counter[op], by |-> p]
<1>2. s \in FdState /\ s.counter \in [Op -> 0..MaxCounter] /\ s.key \in Nat
  BY <1>1 DEF FdState
<1>3. s.counter[op] \in Nat /\ s.counter[op] + 1 \in 0..MaxCounter
  BY <1>2, ForkAssumption, SMT
<1>4. /\ c \in [Op -> 0..MaxCounter] /\ c[op] = s.counter[op] + 1
      /\ \A o \in Op : o # op => c[o] = s.counter[o]
  BY <1>2, <1>3
<1>5. state' = Replace(state, p, f, t)
  BY <1>1, <1>2 DEF FdState, Replace, Advance
<1>6. log' = Append(log, entry)
  BY DEF Log
<1>7. /\ t \in FdState /\ t.phase = "Active" /\ t.owner = s.owner /\ t.key = s.key
      /\ t.counter = c
  <2> HIDE DEF c, s
  <2> QED
    BY <1>2, <1>4 DEF FdState
<1>8. entry \in Entry /\ entry.op = op /\ entry.key = s.key /\ entry.nonce = s.counter[op] /\ entry.by = p
  BY <1>1, <1>2, <1>3 DEF Entry
<1>9. Owned(p, f) /\ OwnedInv(p, f)
  BY <1>1 DEF ForkInv, Owned, inherited_after_fork
<1> HIDE DEF t, c, entry
<1>10. /\ state' \in [Proc -> [Fd -> FdState]] /\ state'[p][f] = t
       /\ \A q \in Proc, g \in Fd : q # p \/ g # f => state'[q][g] = state[q][g]
  <2> DEFINE u == Replace(state, p, f, t)
  <2>1. state \in [Proc -> [Fd -> FdState]] /\ p \in Proc /\ f \in Fd /\ t \in FdState
    BY <1>1, <1>7
  <2>2. /\ u \in [Proc -> [Fd -> FdState]] /\ u[p][f] = t
        /\ \A q \in Proc, g \in Fd : q # p \/ g # f => u[q][g] = state[q][g]
    BY <2>1, ReplaceOne, SMT
  <2>3. state' = u
    BY <1>5
  <2> HIDE DEF u
  <2> QED
    BY <2>2, <2>3
<1>11. /\ log' \in Seq(Entry) /\ Len(log') = Len(log) + 1 /\ Len(log) \in Nat
       /\ \A i \in 1..Len(log) : log'[i] = log[i]
       /\ log'[Len(log) + 1] = entry
  BY <1>1, <1>6, <1>8, AppendProperties, SMT
<1>12. DOMAIN log = 1..Len(log) /\ DOMAIN log' = 1..(Len(log) + 1)
  BY <1>1, <1>11, SMT
<1>13. \A i \in DOMAIN log' : \/ i \in DOMAIN log /\ log'[i] = log[i]
                              \/ i = Len(log) + 1 /\ log'[i] = entry
  BY <1>11, <1>12, SMT
<1>14. \A i \in DOMAIN log : log[i] \in Entry
  BY <1>1, <1>12, ElementOfSeq
<1>15. TypeOK'
  BY <1>1, <1>2, <1>10, <1>11 DEF TypeOK
<1>16. PidInv'
  <2>1. \A q \in Proc, g \in Fd : state'[q][g].phase # "Untracked" => state'[q][g].owner \in used
    BY <1>1, <1>7, <1>10, SMT DEF PidInv
  <2> QED
    BY <1>1, <2>1 DEF PidInv
<1>17. \A i \in DOMAIN log : log[i].op = op /\ log[i].key = s.key => log[i].nonce # s.counter[op]
  <2>1. ASSUME NEW i \in DOMAIN log, log[i].op = op, log[i].key = s.key
        PROVE  log[i].nonce # s.counter[op]
    <3>1. log[i].nonce < s.counter[op]
      BY <1>9, <2>1 DEF OwnedInv
    <3>2. log[i].nonce \in Nat
      BY <1>14 DEF Entry
    <3> QED
      BY <1>3, <3>1, <3>2, SMT
  <2> QED
    BY <2>1
<1>18. LogInv'
  <2>1. \A i \in DOMAIN log' : log'[i].key \in 1..keys' /\ log'[i].by = maker'[log'[i].key]
    BY <1>1, <1>8, <1>9, <1>13 DEF LogInv, OwnedInv
  <2>2. ASSUME NEW i \in DOMAIN log', NEW j \in DOMAIN log',
               log'[i].op = log'[j].op, log'[i].key = log'[j].key, log'[i].nonce = log'[j].nonce
        PROVE  i = j
    <3>1. CASE i \in DOMAIN log /\ log'[i] = log[i] /\ j \in DOMAIN log /\ log'[j] = log[j]
      BY <1>1, <2>2, <3>1 DEF LogInv
    <3>2. CASE i \in DOMAIN log /\ log'[i] = log[i] /\ log'[j] = entry
      <4>1. log[i].op = op /\ log[i].key = s.key /\ log[i].nonce = s.counter[op]
        BY <1>8, <2>2, <3>2
      <4> QED
        BY <1>17, <3>2, <4>1
    <3>3. CASE j \in DOMAIN log /\ log'[j] = log[j] /\ log'[i] = entry
      <4>1. log[j].op = op /\ log[j].key = s.key /\ log[j].nonce = s.counter[op]
        BY <1>8, <2>2, <3>3
      <4> QED
        BY <1>17, <3>3, <4>1
    <3> QED
      BY <1>13, <3>1, <3>2, <3>3
  <2> QED
    BY <2>1, <2>2 DEF LogInv
<1>19. \A q \in Proc, g \in Fd : Owned(q, g)' => Owned(q, g) /\ state'[q][g].key = state[q][g].key
  BY <1>7, <1>9, <1>10 DEF Owned
<1>20. ASSUME NEW q \in Proc, NEW g \in Fd, Owned(q, g)' PROVE OwnedInv(q, g)'
  <2>1. Owned(q, g) /\ OwnedInv(q, g) /\ state'[q][g].key = state[q][g].key
    BY <1>19, <1>20 DEF ForkInv
  <2>2. ASSUME NEW i \in DOMAIN log', log'[i].key = state'[q][g].key
        PROVE  log'[i].nonce < state'[q][g].counter[log'[i].op]
    <3>1. CASE q = p /\ g = f
      <4>1. state'[q][g].counter = c /\ state[q][g].key = s.key
        BY <1>7, <1>10, <3>1
      <4>2. CASE i \in DOMAIN log /\ log'[i] = log[i]
        <5>1. log[i].nonce < s.counter[log[i].op]
          BY <1>9, <2>1, <2>2, <4>1, <4>2 DEF OwnedInv
        <5>2. log[i].op \in Op /\ log[i].nonce \in Nat
          BY <1>14, <4>2 DEF Entry
        <5>3. s.counter[log[i].op] \in Nat
          BY <1>2, <5>2, ForkAssumption, SMT
        <5>4. c[log[i].op] = s.counter[log[i].op] \/ c[log[i].op] = s.counter[log[i].op] + 1
          BY <1>4, <5>2
        <5>5. log[i].nonce < c[log[i].op]
          BY <5>1, <5>2, <5>3, <5>4, SMT
        <5> QED
          BY <4>1, <4>2, <5>5
      <4>3. CASE log'[i] = entry
        <5>1. log'[i].nonce = s.counter[op] /\ log'[i].op = op
          BY <1>8, <4>3
        <5> QED
          BY <1>3, <1>4, <4>1, <5>1, SMT
      <4> QED
        BY <1>13, <4>2, <4>3
    <3>2. CASE q # p \/ g # f
      <4>1. state'[q][g] = state[q][g]
        BY <1>10, <3>2
      <4>2. state[q][g].key # s.key
        <5>1. SUFFICES ASSUME state[q][g].key = s.key PROVE FALSE
          OBVIOUS
        <5>2. q = p
          BY <1>9, <2>1, <5>1 DEF OwnedInv
        <5>3. g = f
          BY <1>9, <2>1, <5>1, <5>2 DEF OwnedInv
        <5> QED
          BY <3>2, <5>2, <5>3
      <4>3. i \in DOMAIN log /\ log'[i] = log[i]
        BY <1>8, <1>13, <2>1, <2>2, <4>2
      <4> QED
        BY <2>1, <2>2, <4>1, <4>3 DEF OwnedInv
    <3> QED
      BY <3>1, <3>2
  <2>3. \A h \in Fd : Owned(q, h)' /\ state'[q][h].key = state'[q][g].key => h = g
    BY <1>19, <2>1 DEF OwnedInv
  <2> QED
    BY <2>1, <2>2, <2>3 DEF OwnedInv
<1> QED
  BY <1>15, <1>16, <1>18, <1>20 DEF ForkInv

-----------------------------------------------------------------------------
(* The theorems.                                                           *)

\* One process, no session.
LEMMA InitInv == Init => ForkInv
<1> SUFFICES ASSUME Init PROVE ForkInv
  OBVIOUS
<1>1. PICK n \in Pid : pid = [p \in Proc |-> IF p = Root THEN n ELSE NoPid] /\ used = {n}
  BY DEF Init
<1>2. n # NoPid /\ Root \in Proc
  BY ForkAssumption
<1>3. Untracked \in FdState /\ Untracked.phase = "Untracked"
  BY ForkAssumption, SMT DEF Untracked, FdState, Fresh
<1>4. /\ state \in [Proc -> [Fd -> FdState]]
      /\ \A p \in Proc, f \in Fd : state[p][f].phase = "Untracked"
  BY <1>3 DEF Init
<1>5. /\ live = {Root} /\ reused = FALSE /\ answered = {} /\ keys = 0 /\ maker = <<>> /\ log = <<>>
  BY DEF Init
<1>6. TypeOK
  <2>1. reused \in BOOLEAN
    BY <1>5
  <2>2. /\ live \subseteq Proc /\ pid \in [Proc -> Pid \cup {NoPid}] /\ used \subseteq Pid
        /\ answered \subseteq Nat /\ keys \in Nat
    BY <1>1, <1>2, <1>5
  <2>3. maker \in Seq(Proc) /\ Len(maker) = keys /\ log \in Seq(Entry)
    BY <1>5, SMT
  <2> QED
    BY <1>4, <2>1, <2>2, <2>3 DEF TypeOK
<1>7. PidInv
  BY <1>1, <1>2, <1>4, <1>5 DEF PidInv
<1>8. LogInv
  BY <1>5, SMT DEF LogInv
<1> QED
  BY <1>4, <1>6, <1>7, <1>8 DEF ForkInv, Owned

\* The invariant holds for as long as no pid has been given out twice.
GuardInv == ~reused => ForkInv

\* Every step preserves it: the step that reuses a pid makes it vacuous for good.
LEMMA NextInv == GuardInv /\ [Next]_vars => GuardInv'
<1> SUFFICES ASSUME GuardInv, [Next]_vars, ~reused' PROVE ForkInv'
  BY DEF GuardInv
<1>1. CASE UNCHANGED vars
  BY <1>1, SMT DEF vars, GuardInv, ForkInv, TypeOK, PidInv, LogInv, Owned, OwnedInv
<1>2. CASE Next
  <2>1. ~reused
    <3>1. ASSUME NEW p \in live, NEW f \in Fd, Track(p, f) \/ close(p, f) PROVE ~reused
      BY <3>1 DEF Track, close
    <3>2. ASSUME NEW p \in live, NEW f \in Fd, NEW op \in Op, overlay_io(op, p, f) PROVE ~reused
      BY <3>2 DEF overlay_io
    <3>3. ASSUME NEW p \in live, NEW q \in Proc \ live, fork(p, q) PROVE ~reused
      BY <3>3 DEF fork
    <3>4. ASSUME NEW p \in live, exit(p) PROVE ~reused
      BY <3>4 DEF exit
    <3> QED
      BY <1>2, <3>1, <3>2, <3>3, <3>4 DEF Next
  <2>2. ForkInv
    BY <2>1 DEF GuardInv
  <2>3. ASSUME NEW p \in live, NEW f \in Fd, NEW op \in Op, overlay_io(op, p, f) PROVE ForkInv'
    BY <2>2, <2>3, FailInv, RecordInv DEF overlay_io, Advance
  <2>4. ASSUME NEW p \in live, NEW q \in Proc \ live, fork(p, q) PROVE ForkInv'
    BY <2>2, <2>4, ForkStepInv
  <2> QED
    BY <1>2, <2>2, <2>3, <2>4, TrackInv, CloseInv, ExitInv DEF Next
<1> QED
  BY <1>1, <1>2

\* inherited_after_fork keeps every process but the maker of a session from
\* using it, for as long as the kernel has not given a pid out again.
THEOREM SessionsStayWithOwner == Spec => []OwnerOnly
<1>1. Init => GuardInv
  BY InitInv DEF GuardInv
<1>2. GuardInv => OwnerOnly
  BY DEF GuardInv, ForkInv, LogInv, OwnerOnly
<1> QED
  BY <1>1, <1>2, NextInv, PTL DEF Spec

\* For as long, no key ever seals two records with one nonce, however often a
\* process forks with an established session.
THEOREM NoncesUnique == Spec => []NonceUnique
<1>1. Init => GuardInv
  BY InitInv DEF GuardInv
<1>2. GuardInv => NonceUnique
  BY DEF GuardInv, ForkInv, LogInv, NonceUnique
<1> QED
  BY <1>1, <1>2, NextInv, PTL DEF Spec

=============================================================================
