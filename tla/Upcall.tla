------------------------------- MODULE Upcall -------------------------------
(***************************************************************************)
(* Kernel-native enforcement, default mode of the daemon: the sockops      *)
(* program (ebpf/src/main.rs) reports established connections through a    *)
(* ring of bounded size and counts what it does; a loader hands each event *)
(* to the daemon (bin/daemon.rs), which completes the upcall               *)
(* (kernel_native.rs): policy, descriptor, local handshake, kernel TLS.    *)
(*                                                                         *)
(* The program runs on every CPU at once and so do the daemon's jobs; a    *)
(* load, a store and a system call are steps.  The keys of an upcall are   *)
(* the daemon's own on both sides (run_local_handshake), so only whether   *)
(* there are any matters here.                                             *)
(***************************************************************************)
EXTENDS Integers, Sequences, FiniteSets

CONSTANTS
    Conn,          \* connections of the host
    Cpu,           \* CPUs the sockops program runs on
    Job,           \* requests the daemon works on at the same time
    Number,        \* descriptor numbers of the daemon
    RingCap,       \* events that fit into EVENTS
    MaxRepeats,    \* bound: upcalls a client sends again
    MaxKtlsFaults  \* bound: setsockopts that fail for want of kernel support

NoConn == "no connection"
NoNumber == "no number"

ASSUME UpcallAssumption ==
    /\ IsFiniteSet(Conn) /\ IsFiniteSet(Cpu) /\ IsFiniteSet(Job) /\ IsFiniteSet(Number)
    /\ NoConn \notin Conn /\ NoNumber \notin Number
    /\ RingCap \in Nat /\ MaxRepeats \in Nat /\ MaxKtlsFaults \in Nat

VARIABLES
    config,    \* which of policy and identity the daemon can resolve
    conn,      \* the connections
    cpu,       \* per CPU, where its run of the program is
    ring,      \* EVENTS
    counters,  \* KERNEL_COUNTERS: upcalls and failures
    events,    \* history: events submitted, and events the ring had no room for
    table,     \* the daemon's descriptors: number -> connection
    job,       \* the requests the daemon works on
    answers,   \* history: what the daemon answered about a connection
    strayed,   \* history: a job acted on a connection that is not its own
    repeats,   \* upcalls sent again
    kfaults

program == <<cpu, ring, counters, events>>
daemon == <<table, job, answers, strayed, kfaults>>
upcallVars == <<config, conn, program, daemon, repeats>>

\* ports: neither port is zero.
Connection ==
    [ports : BOOLEAN, life : {"new", "open", "shut"}, ulp : BOOLEAN, tx : BOOLEAN, rx : BOOLEAN]

UpcallInit ==
    /\ config \in SUBSET {"policy", "identity"}
    /\ conn \in [Conn -> {[ports |-> p, life |-> "new", ulp |-> FALSE, tx |-> FALSE, rx |-> FALSE] :
                             p \in BOOLEAN}]
    /\ cpu = [c \in Cpu |-> [pc |-> "idle", conn |-> NoConn, load |-> 0]]
    /\ ring = <<>>
    /\ counters = [upcalls |-> 0, failures |-> 0]
    /\ events = [upcalls |-> 0, failures |-> 0]
    /\ table = [n \in Number |-> NoConn]
    /\ job = [j \in Job |-> [pc |-> "idle", conn |-> NoConn, number |-> NoNumber]]
    /\ answers = [k \in Conn |-> {}]
    /\ strayed = FALSE
    /\ repeats = 0 /\ kfaults = 0

-----------------------------------------------------------------------------
(* The sockops program.                                                    *)

\* try_handle for one of the two ESTABLISHED callbacks; every other callback,
\* and a connection with a zero port, is none of its business.
Handle(c, k) ==
    /\ cpu[c].pc = "idle" /\ conn[k].life = "new"
    /\ conn' = [conn EXCEPT ![k].life = "open"]
    /\ IF conn[k].ports THEN cpu' = [cpu EXCEPT ![c].pc = "submit", ![c].conn = k]
                        ELSE UNCHANGED cpu
    /\ UNCHANGED <<config, ring, counters, events, daemon, repeats>>

\* Mutant of Submit: one event more than there is room for.
SubmitOver(c) ==
    LET counter == IF Len(ring) <= RingCap THEN "upcalls" ELSE "failures" IN
    /\ cpu[c].pc = "submit"
    /\ ring' = IF Len(ring) <= RingCap THEN Append(ring, cpu[c].conn) ELSE ring
    /\ events' = [events EXCEPT ![counter] = @ + 1]
    /\ cpu' = [cpu EXCEPT ![c].pc = counter]
    /\ UNCHANGED <<config, conn, counters, daemon, repeats>>

\* submit: reserve fails when the ring is full.
Submit(c) ==
    LET counter == IF Len(ring) < RingCap THEN "upcalls" ELSE "failures" IN
    /\ cpu[c].pc = "submit"
    /\ ring' = IF Len(ring) < RingCap THEN Append(ring, cpu[c].conn) ELSE ring
    /\ events' = [events EXCEPT ![counter] = @ + 1]
    /\ cpu' = [cpu EXCEPT ![c].pc = counter]
    /\ UNCHANGED <<config, conn, counters, daemon, repeats>>

Counter == {"upcalls", "failures"}

\* bump_upcalls and bump_failures: += 1 through a pointer is a load and a store.
BumpLoad(c) ==
    /\ cpu[c].pc \in Counter
    /\ cpu' = [cpu EXCEPT ![c].pc = IF @ = "upcalls" THEN "store upcalls" ELSE "store failures",
                          ![c].load = counters[cpu[c].pc]]
    /\ UNCHANGED <<config, conn, ring, counters, events, daemon, repeats>>

\* Mutant of BumpStore: failures are counted as upcalls.
BumpStoreOne(c) ==
    /\ cpu[c].pc \in {"store upcalls", "store failures"}
    /\ counters' = [counters EXCEPT !.upcalls = cpu[c].load + 1]
    /\ cpu' = [cpu EXCEPT ![c] = [pc |-> "idle", conn |-> NoConn, load |-> 0]]
    /\ UNCHANGED <<config, conn, ring, events, daemon, repeats>>

BumpStore(c) ==
    /\ \/ /\ cpu[c].pc = "store upcalls"
          /\ counters' = [counters EXCEPT !.upcalls = cpu[c].load + 1]
       \/ /\ cpu[c].pc = "store failures"
          /\ counters' = [counters EXCEPT !.failures = cpu[c].load + 1]
    /\ cpu' = [cpu EXCEPT ![c] = [pc |-> "idle", conn |-> NoConn, load |-> 0]]
    /\ UNCHANGED <<config, conn, ring, events, daemon, repeats>>

-----------------------------------------------------------------------------
(* What reaches the daemon.                                                *)

Idle(j) == job[j].pc = "idle"

Take(j, k, n) == job' = [job EXCEPT ![j] = [pc |-> "decide", conn |-> k, number |-> n]]

\* process_event_record: the record names no descriptor.
Event(j) ==
    /\ Idle(j) /\ ring # <<>>
    /\ Take(j, Head(ring), NoNumber)
    /\ ring' = Tail(ring)
    /\ UNCHANGED <<config, conn, cpu, counters, events, table, answers, strayed, kfaults, repeats>>

\* The loader turns an event into a JSON upcall and gives the daemon the socket.
Loaded(j, n) ==
    /\ Idle(j) /\ ring # <<>> /\ table[n] = NoConn
    /\ Take(j, Head(ring), n)
    /\ table' = [table EXCEPT ![n] = Head(ring)]
    /\ ring' = Tail(ring)
    /\ UNCHANGED <<config, conn, cpu, counters, events, answers, strayed, kfaults, repeats>>

\* A JSON upcall about a connection that has no event, or once more about one
\* whose answer the client did not see.
Ask(j, k) ==
    /\ Idle(j) /\ conn[k].life = "open" /\ ~conn[k].ports
    /\ answers[k] = {}
    /\ Take(j, k, NoNumber)
    /\ UNCHANGED <<config, conn, program, table, answers, strayed, kfaults, repeats>>

Repeat(j, k, n) ==
    /\ Idle(j) /\ repeats < MaxRepeats /\ repeats' = repeats + 1
    /\ table[n] = k
    /\ Take(j, k, n)
    /\ UNCHANGED <<config, conn, program, table, answers, strayed, kfaults>>

-----------------------------------------------------------------------------
(* complete_kernel_upcall.                                                 *)

Answer(j, status) ==
    /\ answers' = [answers EXCEPT ![job[j].conn] = @ \cup {status}]
    /\ job' = [job EXCEPT ![j] = [pc |-> "idle", conn |-> NoConn, number |-> NoNumber]]

\* Mutant of Decide: an upcall without a descriptor is not answered.
DecideSilent(j) ==
    /\ job[j].pc = "decide"
    /\ \/ ~conn[job[j].conn].ports /\ Answer(j, "ok")
       \/ /\ conn[job[j].conn].ports /\ job[j].number # NoNumber
          /\ job' = [job EXCEPT ![j].pc = "ulp"]
          /\ UNCHANGED answers
    /\ UNCHANGED <<config, conn, program, table, strayed, kfaults, repeats>>

\* classify_upcall, configured_suite, the descriptor, run_local_handshake.
Decide(j) ==
    /\ job[j].pc = "decide"
    /\ \/ ~conn[job[j].conn].ports /\ Answer(j, "ok")
       \/ /\ conn[job[j].conn].ports
          /\ "policy" \notin config \/ job[j].number = NoNumber \/ "identity" \notin config
          /\ Answer(j, "fail_closed")
       \/ /\ conn[job[j].conn].ports
          /\ config = {"policy", "identity"} /\ job[j].number # NoNumber
          /\ job' = [job EXCEPT ![j].pc = "ulp"]
          /\ UNCHANGED answers
    /\ UNCHANGED <<config, conn, program, table, strayed, kfaults, repeats>>

Target(j) == table[job[j].number]

Strays(j) == strayed' = (strayed \/ Target(j) \notin {NoConn, job[j].conn})

\* setsockopt: the ULP once and on a live connection, each key once and on top
\* of the ULP.
Admits(stage, k) ==
    /\ k # NoConn /\ conn[k].life = "open"
    /\ ~conn[k][stage]
    /\ stage # "ulp" => conn[k].ulp

After(stage) == CASE stage = "ulp" -> "tx" [] stage = "tx" -> "rx"

\* Mutant of Install: the last stage is not looked at.
InstallUnchecked(j, stage) ==
    /\ job[j].pc = stage
    /\ IF stage = "ulp" THEN job' = [job EXCEPT ![j].pc = "tx"] /\ UNCHANGED answers
                        ELSE Answer(j, "ok")
    /\ conn' = IF Admits(stage, Target(j)) THEN [conn EXCEPT ![Target(j)][stage] = TRUE] ELSE conn
    /\ Strays(j)
    /\ UNCHANGED <<config, program, table, kfaults, repeats>>

\* attach_tls_ulp, install_ktls_tx, install_ktls_rx.
Install(j, stage) ==
    /\ job[j].pc = stage
    /\ \/ /\ Admits(stage, Target(j))
          /\ conn' = [conn EXCEPT ![Target(j)][stage] = TRUE]
          /\ IF stage = "rx" THEN Answer(j, "ok")
                             ELSE job' = [job EXCEPT ![j].pc = After(stage)] /\ UNCHANGED answers
          /\ UNCHANGED kfaults
       \/ /\ \/ ~Admits(stage, Target(j)) /\ UNCHANGED kfaults
             \/ kfaults < MaxKtlsFaults /\ kfaults' = kfaults + 1
          /\ job' = [job EXCEPT ![j].pc = "shutdown"]
          /\ UNCHANGED <<conn, answers>>
    /\ Strays(j)
    /\ UNCHANGED <<config, program, table, repeats>>

\* Mutant of Shutdown: the descriptor is closed here as well, and so twice.
ShutdownCloses(j) ==
    /\ job[j].pc = "shutdown"
    /\ job' = [job EXCEPT ![j].pc = "close"]
    /\ conn' = IF Target(j) = NoConn THEN conn ELSE [conn EXCEPT ![Target(j)].life = "shut"]
    /\ table' = [table EXCEPT ![job[j].number] = NoConn]
    /\ Strays(j)
    /\ UNCHANGED <<config, program, answers, kfaults, repeats>>

\* fail_closed_shutdown: shutdown(SHUT_RDWR), then close.
Shutdown(j) ==
    /\ job[j].pc = "shutdown"
    /\ job' = [job EXCEPT ![j].pc = "close"]
    /\ conn' = IF Target(j) = NoConn THEN conn ELSE [conn EXCEPT ![Target(j)].life = "shut"]
    /\ Strays(j)
    /\ UNCHANGED <<config, program, table, answers, kfaults, repeats>>

Close(j) ==
    /\ job[j].pc = "close"
    /\ table' = [table EXCEPT ![job[j].number] = NoConn]
    /\ Answer(j, "fail_closed")
    /\ Strays(j)
    /\ UNCHANGED <<config, conn, program, kfaults, repeats>>

-----------------------------------------------------------------------------
Program(c) == Submit(c) \/ BumpLoad(c) \/ BumpStore(c)

Loader(j) == Event(j) \/ \E n \in Number : Loaded(j, n)

Work(j) ==
    \/ Decide(j) \/ Shutdown(j) \/ Close(j)
    \/ \E stage \in {"ulp", "tx", "rx"} : Install(j, stage)

UpcallNext ==
    \/ \E c \in Cpu : Program(c) \/ \E k \in Conn : Handle(c, k)
    \/ \E j \in Job : \/ Loader(j) \/ Work(j)
                      \/ \E k \in Conn : Ask(j, k) \/ \E n \in Number : Repeat(j, k, n)

UpcallSpec == UpcallInit /\ [][UpcallNext]_upcallVars

-----------------------------------------------------------------------------
\* Every variable has its type.
UpcallTypeOK ==
    /\ config \subseteq {"policy", "identity"} /\ conn \in [Conn -> Connection]
    /\ cpu \in [Cpu -> [pc : Counter \cup {"idle", "submit", "store upcalls", "store failures"},
                        conn : Conn \cup {NoConn}, load : Nat]]
    /\ ring \in Seq(Conn) /\ Len(ring) <= RingCap
    /\ counters \in [Counter -> Nat] /\ events \in [Counter -> Nat]
    /\ table \in [Number -> Conn \cup {NoConn}]
    /\ job \in [Job -> [pc : {"idle", "decide", "ulp", "tx", "rx", "shutdown", "close"},
                        conn : Conn \cup {NoConn}, number : Number \cup {NoNumber}]]
    /\ answers \in [Conn -> SUBSET {"ok", "fail_closed"}]
    /\ strayed \in BOOLEAN
    /\ repeats \in 0..MaxRepeats /\ kfaults \in 0..MaxKtlsFaults

\* The counters are no upper estimates, and a loss shows: whatever increments
\* the CPUs take from one another, once the ring has turned events away and the
\* program is at rest, failures is not zero.
LossShows ==
    /\ counters.upcalls <= events.upcalls /\ counters.failures <= events.failures
    /\ (\A c \in Cpu : cpu[c].pc = "idle") =>
          \A x \in Counter : events[x] > 0 => counters[x] > 0

\* As long as no upcall is sent twice, a job acts on the connection it is about
\* and on no other, although descriptor numbers are reused.
OwnSocketOnly == repeats = 0 => ~strayed

\* As long as no upcall is sent twice: the daemon says ok only of a connection
\* that is under kernel TLS in both directions, or that it is to ignore; and a
\* connection whose bridge it began is, once the answer is out, either that or
\* shut down.
OkMeansEnforced ==
    repeats = 0 =>
        \A k \in Conn : answers[k] # {} /\ conn[k].ports =>
            /\ "ok" \in answers[k] => conn[k].ulp /\ conn[k].tx /\ conn[k].rx
            /\ conn[k].ulp => conn[k].life = "shut" \/ (conn[k].tx /\ conn[k].rx)

\* Every connection the program reports is answered for.
EventsAnswered ==
    \A k \in Conn : (\E i \in DOMAIN ring : ring[i] = k) ~> (answers[k] # {})

\* The daemon's own account of an upcall: "on any failure tears the socket down".
FailClosed == \A k \in Conn : "fail_closed" \in answers[k] => conn[k].life = "shut"

=============================================================================
