------------------------------- MODULE Daemon -------------------------------
(***************************************************************************)
(* The daemon process (bin/daemon.rs): main runs one of three servers.  By *)
(* default it completes kernel upcalls (Upcall); otherwise it answers the  *)
(* over-socket handshake on connections it accepts itself, or on sockets   *)
(* that an injector passes to it as SCM_RIGHTS data (fd_passing.rs), and   *)
(* bridges them to kernel TLS (Bridge).                                    *)
(***************************************************************************)
EXTENDS Bridge, Upcall

CONSTANT MaxPassed  \* bound: descriptors in one message

ASSUME DaemonAssumption == MaxPassed \in Nat

VARIABLES
    mode,    \* the server main has chosen from the environment
    handed,  \* the responder's socket: "waiting" in the injector, "owned" by the
             \* daemon's task, or the channel was "aborted"
    passed,  \* history: descriptors in the injector's message
    open     \* descriptors of the responder's connection the daemon has open

handover == <<handed, passed, open>>
daemonVars == <<mode, handover, vars, upcallVars>>

Mode == {"upcall", "over_socket", "fd_passing"}

\* The servers that main does not run are left at some idle state.
DaemonInit ==
    /\ mode \in Mode
    /\ handed = IF mode = "fd_passing" THEN "waiting" ELSE "owned"
    /\ passed = 0
    /\ open = IF mode = "fd_passing" THEN 0 ELSE 1
    /\ Init /\ UpcallInit
    /\ mode = "upcall" => trusted /\ \A e \in End : suite[e] = NoSuite
    /\ mode # "upcall" => config = {} /\ \A k \in Conn : conn[k].ports

-----------------------------------------------------------------------------
\* The control buffer has room for two descriptors: CMSG_SPACE rounds the one
\* it asks for up to a multiple of eight bytes.
Room == 2

\* Mutant of recv_fd: the first of several descriptors is taken, the others stay.
recv_fd_first(n) == IF n > Room THEN [fd |-> FALSE, open |-> Room]
                                ELSE [fd |-> n > 0, open |-> n]

\* recv_fd for a message of n descriptors: what it returns, and how many of the
\* descriptors the kernel has installed are open then.
recv_fd(n) ==
    CASE n > Room -> [fd |-> FALSE, open |-> Room]
      [] n = 1    -> [fd |-> TRUE, open |-> 1]
      [] OTHER    -> [fd |-> FALSE, open |-> 0]

\* handle_passed_fd: the task owns the one descriptor it was passed, or gives up.
\* The injector has closed its own descriptor, so the connection ends with the
\* daemon's last one.
handle_passed_fd(n) ==
    /\ handed = "waiting"
    /\ handed' = IF recv_fd(n).fd THEN "owned" ELSE "aborted"
    /\ passed' = n /\ open' = recv_fd(n).open
    /\ \/ recv_fd(n).fd /\ UNCHANGED <<pc, fd, eof>>
       \/ ~recv_fd(n).fd /\ recv_fd(n).open = 0 /\ Dropped("responder")
       \/ /\ ~recv_fd(n).fd /\ recv_fd(n).open > 0
          /\ pc' = [pc EXCEPT !["responder"] = "failed"]
          /\ UNCHANGED <<fd, eof>>
    /\ UNCHANGED <<suite, trusted, keys, ulp, tx, rx, net, sent, delivered, faults, damaged>>

\* serve_over_socket and establish_and_bridge; what the task drops or shuts down
\* is the descriptor it was passed.
Serve(e) ==
    /\ e = "responder" => handed = "owned"
    /\ Task(e)
    /\ open' = IF e = "responder" /\ fd'[e] # "open" THEN 0 ELSE open
    /\ UNCHANGED <<handed, passed>>

Receive == \E n \in 0..MaxPassed : handle_passed_fd(n)

Serving == \E e \in End : Serve(e)

Around == ((\E e \in End : Kernel(e) \/ Damage(e)) \/ Cut) /\ UNCHANGED handover

OnSockets == mode # "upcall" /\ UNCHANGED <<mode, upcallVars>>

OnUpcalls == mode = "upcall" /\ UNCHANGED <<mode, handover, vars>>

DaemonNext ==
    \/ OnSockets /\ (Receive \/ Serving \/ Around)
    \/ OnUpcalls /\ UpcallNext

DaemonSpec == DaemonInit /\ [][DaemonNext]_daemonVars

\* The program, its loader and the daemon do not all stop while one of them can
\* go on: the runtime polls its tasks, system calls return, the sockops program
\* runs to its end, and an injector that has connected sends its message.
Progress ==
    \/ OnSockets /\ (Receive \/ Serving)
    \/ OnUpcalls /\ ((\E c \in Cpu : Program(c)) \/ \E j \in Job : Work(j) \/ Loader(j))

DaemonLiveSpec == DaemonSpec /\ WF_daemonVars(Progress)

-----------------------------------------------------------------------------
\* A message was cut short: recv_fd gave up without a look at its descriptors.
Truncated == passed > Room

\* Every variable has its type.
DaemonTypeOK ==
    /\ TypeOK /\ UpcallTypeOK
    /\ mode \in Mode
    /\ handed \in {"waiting", "owned", "aborted"}
    /\ passed \in 0..MaxPassed /\ open \in 0..Room

\* Unless a message was truncated, the daemon holds one descriptor of the
\* connection while its task is at work, and when the task is over the socket is
\* fully under kernel TLS or closed: no stage of receiving, handshake or bridge
\* that fails leaves a descriptor without an owner or half protected.
SocketAccounted ==
    ~Truncated =>
        /\ AllOrNothing
        /\ handed # "waiting" => (open = 1 <=> pc["responder"] # "failed")

\* Both tasks come to an end, whichever of them fails and when, and wherever the
\* connection breaks: unless bytes are altered (a reader that was told another
\* length waits for that many), or a message was truncated (the initiator waits
\* for an answer from a socket that nobody owns and nobody closes).
DaemonSettles ==
    \A e \in End : <>(mode = "upcall" \/ Truncated \/ damaged \/ pc[e] \in {"done", "failed"})

=============================================================================
