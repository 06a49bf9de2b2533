---------------------------- MODULE UpcallProofs ----------------------------
(***************************************************************************)
(* Proofs about Upcall, for any number of connections, CPUs, jobs and      *)
(* descriptor numbers and any size of the ring.                            *)
(***************************************************************************)
EXTENDS Upcall, FiniteSetTheorems, SequenceTheorems, TLAPS

\* The leaves are logic and sets: Zenon proves them unless one names SMT.
USE ZenonT(20)

Run == [pc : Counter \cup {"idle", "submit", "store upcalls", "store failures"},
        conn : Conn \cup {NoConn}, load : Nat]

Request == [pc : {"idle", "decide", "ulp", "tx", "rx", "shutdown", "close"},
            conn : Conn \cup {NoConn}, number : Number \cup {NoNumber}]

\* The types of what the sockops program writes.
ProgramType ==
    /\ cpu \in [Cpu -> Run]
    /\ ring \in Seq(Conn) /\ Len(ring) <= RingCap
    /\ counters \in [Counter -> Nat] /\ events \in [Counter -> Nat]

\* A run that has something to report knows the connection.
Reports == \A c \in Cpu : cpu[c].pc = "submit" => cpu[c].conn \in Conn

\* The program and its ring are empty at first.
LEMMA InitProgram == UpcallInit => ProgramType /\ Reports
<1> SUFFICES ASSUME UpcallInit PROVE ProgramType /\ Reports
  OBVIOUS
<1>1. cpu \in [Cpu -> Run] /\ Reports
  BY DEF UpcallInit, Run, Reports
<1>2. ring \in Seq(Conn) /\ Len(ring) <= RingCap
  BY EmptySeq, UpcallAssumption, SMT DEF UpcallInit
<1>3. counters \in [Counter -> Nat] /\ events \in [Counter -> Nat]
  BY SMT DEF UpcallInit, Counter
<1> QED
  BY <1>1, <1>2, <1>3 DEF ProgramType

\* The sockops program keeps its types, and the ring its capacity.
LEMMA ProgramKeeps ==
    ASSUME ProgramType, Reports, NEW c \in Cpu, Program(c) \/ \E k \in Conn : Handle(c, k)
    PROVE  ProgramType' /\ Reports'
<1>0. /\ cpu \in [Cpu -> Run] /\ ring \in Seq(Conn) /\ Len(ring) <= RingCap
      /\ counters \in [Counter -> Nat] /\ events \in [Counter -> Nat]
      /\ Len(ring) \in Nat /\ RingCap \in Nat
  BY LenProperties, UpcallAssumption DEF ProgramType
<1>1. CASE \E k \in Conn : Handle(c, k)
  <2>1. PICK k \in Conn : Handle(c, k)
    BY <1>1
  <2>2. UNCHANGED <<ring, counters, events>>
    BY <2>1 DEF Handle
  <2>3. cpu' = cpu \/ cpu' = [cpu EXCEPT ![c] = [@ EXCEPT !.pc = "submit", !.conn = k]]
    BY <1>0, <2>1 DEF Handle
  <2>4. [cpu[c] EXCEPT !.pc = "submit", !.conn = k] \in Run
    BY <1>0 DEF Run
  <2>5. cpu' \in [Cpu -> Run]
    BY <1>0, <2>3, <2>4
  <2>6. Reports'
    BY <1>0, <2>3 DEF Reports, Run
  <2> QED
    BY <1>0, <2>2, <2>5, <2>6 DEF ProgramType
<1>2. CASE Submit(c)
  <2> DEFINE counter == IF Len(ring) < RingCap THEN "upcalls" ELSE "failures"
  <2>1. counter \in Counter
    BY DEF Counter
  <2>2. /\ cpu[c].pc = "submit" /\ cpu' = [cpu EXCEPT ![c].pc = counter]
        /\ events' = [events EXCEPT ![counter] = @ + 1]
        /\ ring' = IF Len(ring) < RingCap THEN Append(ring, cpu[c].conn) ELSE ring
        /\ counters' = counters
    BY <1>2 DEF Submit
  <2>3. ring' \in Seq(Conn) /\ Len(ring') <= RingCap
    BY <1>0, <2>2, AppendProperties, SMT DEF Reports
  <2> HIDE DEF counter
  <2>4. cpu' \in [Cpu -> Run] /\ Reports'
    BY <1>0, <2>1, <2>2 DEF Run, Reports, Counter
  <2>5. events' \in [Counter -> Nat]
    BY <1>0, <2>1, <2>2, SMT
  <2> QED
    BY <1>0, <2>2, <2>3, <2>4, <2>5 DEF ProgramType
<1>3. CASE BumpLoad(c)
  <2> DEFINE p == IF cpu[c].pc = "upcalls" THEN "store upcalls" ELSE "store failures"
             x == [cpu[c] EXCEPT !.pc = p, !.load = counters[cpu[c].pc]]
  <2>1. x \in Run
    BY <1>0, <1>3 DEF BumpLoad, Run, Counter
  <2>2. cpu' = [cpu EXCEPT ![c] = x] /\ x.pc # "submit"
    BY <1>0, <1>3 DEF BumpLoad, Run
  <2> HIDE DEF x
  <2> QED
    BY <1>0, <1>3, <2>1, <2>2 DEF BumpLoad, ProgramType, Reports
<1>4. CASE BumpStore(c)
  <2>1. cpu[c].load \in Nat
    BY <1>0 DEF Run
  <2>2. counters' \in [Counter -> Nat]
    <3>1. \E x \in Counter : counters' = [counters EXCEPT ![x] = cpu[c].load + 1]
      BY <1>4 DEF BumpStore, Counter
    <3> QED
      BY <1>0, <2>1, <3>1, SMT
  <2> DEFINE x == [pc |-> "idle", conn |-> NoConn, load |-> 0]
  <2>3. x \in Run /\ x.pc # "submit"
    BY DEF Run
  <2>4. cpu' = [cpu EXCEPT ![c] = x] /\ UNCHANGED <<ring, events>>
    BY <1>4 DEF BumpStore
  <2> HIDE DEF x
  <2> QED
    BY <1>0, <2>2, <2>3, <2>4 DEF ProgramType, Reports
<1> QED
  BY <1>1, <1>2, <1>3, <1>4 DEF Program

\* What the daemon's side does to the ring: it takes the first event, or none.
LEMMA DaemonTakes ==
    ASSUME ProgramType, Reports,
           NEW j \in Job, \/ Loader(j) \/ Work(j)
                          \/ \E k \in Conn : Ask(j, k) \/ \E n \in Number : Repeat(j, k, n)
    PROVE  /\ UNCHANGED <<cpu, counters, events>>
           /\ UNCHANGED ring \/ (ring # <<>> /\ ring' = Tail(ring))
           /\ ProgramType' /\ Reports'
<1>1. /\ UNCHANGED <<cpu, counters, events>>
      /\ UNCHANGED ring \/ (ring # <<>> /\ ring' = Tail(ring))
  BY DEF Loader, Work, Event, Loaded, Ask, Repeat, Decide, Shutdown, Close, Install, program
<1>2. ring' \in Seq(Conn) /\ Len(ring') <= RingCap
  BY <1>1, HeadTailProperties, LenProperties, UpcallAssumption, SMT DEF ProgramType
<1> QED
  BY <1>1, <1>2 DEF ProgramType, Reports

-----------------------------------------------------------------------------
(* The counters.  A run whose event is in and whose increment is not yet   *)
(* stored is pending.  A store may undo others, but what it stores was     *)
(* loaded when it and all the runs pending now had no part in the counter. *)

Store(x) == IF x = "upcalls" THEN "store upcalls" ELSE "store failures"

Pending(x) == {c \in Cpu : cpu[c].pc \in {x, Store(x)}}

Counted(x) ==
    /\ counters[x] + Cardinality(Pending(x)) <= events[x]
    /\ \A c \in Cpu : cpu[c].pc = Store(x) => cpu[c].load + Cardinality(Pending(x)) <= events[x]
    /\ events[x] > 0 => counters[x] > 0 \/ Pending(x) # {}

LossInv == ProgramType /\ Reports /\ \A x \in Counter : Counted(x)

\* The labels of the program are told apart.
LEMMA StoreNames ==
    ASSUME NEW x \in Counter, NEW y \in Counter
    PROVE  /\ x \notin {"idle", "submit"} /\ Store(x) \notin {"idle", "submit", y}
           /\ Store(x) = Store(y) => x = y
BY DEF Counter, Store

\* Any set of CPUs is finite.
LEMMA PendingFinite ==
    ASSUME NEW S \in SUBSET Cpu
    PROVE  IsFiniteSet(S) /\ Cardinality(S) \in Nat
BY FS_Subset, FS_CardinalityType, UpcallAssumption

\* No run is pending at first.
LEMMA InitLoss == UpcallInit => LossInv
<1> SUFFICES ASSUME UpcallInit, NEW x \in Counter PROVE Counted(x)
  BY InitProgram DEF LossInv
<1>1. Pending(x) = {}
  BY DEF Pending, UpcallInit, Counter, Store
<1>2. counters[x] = 0 /\ events[x] = 0 /\ \A c \in Cpu : cpu[c].pc = "idle"
  BY SMT DEF UpcallInit, Counter
<1> QED
  BY <1>1, <1>2, FS_EmptySet, StoreNames, SMT DEF Counted

\* Counted depends on nothing but the counters and the runs that are pending.
LEMMA FrameCounted ==
    ASSUME NEW x \in Counter, Counted(x), Pending(x)' = Pending(x),
           counters'[x] = counters[x], events'[x] = events[x],
           \A c \in Cpu : cpu'[c].pc = Store(x)
                             => cpu'[c] = cpu[c] \/ cpu'[c].load = counters[x]
    PROVE  Counted(x)'
<1>1. Cardinality(Pending(x))' = Cardinality(Pending(x))
  OBVIOUS
<1> HIDE DEF Pending, Store
<1> QED
  BY <1>1 DEF Counted

\* The program keeps Counted.
LEMMA ProgramCounts ==
    ASSUME LossInv, NEW c \in Cpu, Program(c) \/ \E k \in Conn : Handle(c, k), NEW x \in Counter
    PROVE  Counted(x)'
<1>0. /\ cpu \in [Cpu -> Run] /\ Counted(x)
      /\ counters \in [Counter -> Nat] /\ events \in [Counter -> Nat]
  BY DEF LossInv, ProgramType
<1>1. IsFiniteSet(Pending(x)) /\ Cardinality(Pending(x)) \in Nat
  BY PendingFinite DEF Pending
<1>2. CASE \E k \in Conn : Handle(c, k)
  <2>1. /\ UNCHANGED <<counters, events>>
        /\ \A d \in Cpu : \/ cpu'[d] = cpu[d]
                          \/ cpu[d].pc = "idle" /\ cpu'[d].pc = "submit"
    <3>1. PICK k \in Conn : Handle(c, k)
      BY <1>2
    <3>2. UNCHANGED <<counters, events>> /\ cpu[c].pc = "idle"
      BY <3>1 DEF Handle
    <3>3. CASE cpu' = cpu
      BY <3>2, <3>3
    <3>4. CASE cpu' = [cpu EXCEPT ![c].pc = "submit", ![c].conn = k]
      BY <1>0, <3>2, <3>4 DEF Run
    <3> QED
      BY <3>1, <3>3, <3>4 DEF Handle
  <2>2. Pending(x)' = Pending(x)
    BY <2>1 DEF Pending, Store, Counter
  <2> QED
    BY <1>0, <2>1, <2>2, FrameCounted DEF Store
<1>3. CASE Submit(c)
  <2> DEFINE y == IF Len(ring) < RingCap THEN "upcalls" ELSE "failures"
  <2>1. /\ y \in Counter /\ cpu[c].pc = "submit" /\ cpu' = [cpu EXCEPT ![c].pc = y]
        /\ events' = [events EXCEPT ![y] = @ + 1] /\ counters' = counters
    BY <1>3 DEF Submit, Counter
  <2> HIDE DEF y
  <2>2. /\ y \in Counter /\ cpu[c].pc = "submit" /\ cpu'[c].pc = y
        /\ \A d \in Cpu : d # c => cpu'[d] = cpu[d]
    BY <1>0, <2>1 DEF Run
  <2>3. CASE x # y
    <3>1. Pending(x)' = Pending(x)
      BY <2>2, <2>3, StoreNames DEF Pending
    <3>2. \A d \in Cpu : cpu'[d].pc = Store(x) => cpu'[d] = cpu[d]
      BY <2>2, StoreNames
    <3>3. events'[x] = events[x]
      BY <1>0, <2>1, <2>3
    <3> QED
      BY <1>0, <2>1, <3>1, <3>2, <3>3, FrameCounted
  <2>4. CASE x = y
    <3>1. c \notin Pending(x) /\ Pending(x)' = Pending(x) \cup {c}
      BY <2>2, <2>4, StoreNames, SMT DEF Pending
    <3>2. Cardinality(Pending(x)') = Cardinality(Pending(x)) + 1
      BY <1>1, <3>1, FS_AddElement
    <3>3. events'[x] = events[x] + 1 /\ counters'[x] = counters[x]
      BY <1>0, <2>1, <2>4
    <3>4. \A d \in Cpu : cpu'[d].pc = Store(x) => cpu[d].pc = Store(x) /\ cpu'[d] = cpu[d]
      BY <2>2, <2>4, StoreNames
    <3>5. /\ counters[x] \in Nat /\ events[x] \in Nat
          /\ \A d \in Cpu : cpu[d].load \in Nat
      BY <1>0 DEF Run
    <3>6. Pending(x)' # {}
      BY <3>1
    <3> HIDE DEF Pending, Store
    <3> QED
      BY <1>0, <1>1, <3>2, <3>3, <3>4, <3>5, <3>6, SMT DEF Counted
  <2> QED
    BY <2>3, <2>4
<1>4. CASE BumpLoad(c)
  <2>1. /\ cpu[c].pc \in Counter /\ UNCHANGED <<counters, events>>
        /\ cpu'[c].pc = Store(cpu[c].pc) /\ cpu'[c].load = counters[cpu[c].pc]
        /\ \A d \in Cpu : d # c => cpu'[d] = cpu[d]
    BY <1>0, <1>4 DEF BumpLoad, Run, Store
  <2>2. Pending(x)' = Pending(x)
    BY <2>1 DEF Pending, Store, Counter
  <2>3. \A d \in Cpu : cpu'[d].pc = Store(x) => cpu'[d] = cpu[d] \/ cpu'[d].load = counters[x]
    BY <2>1 DEF Store, Counter
  <2> QED
    BY <1>0, <2>1, <2>2, <2>3, FrameCounted
<1>5. CASE BumpStore(c)
  <2>1. PICK y \in Counter : cpu[c].pc = Store(y) /\ counters' = [counters EXCEPT ![y] = cpu[c].load + 1]
    BY <1>5 DEF BumpStore, Store, Counter
  <2>2. /\ cpu'[c].pc = "idle" /\ events' = events
        /\ \A d \in Cpu : d # c => cpu'[d] = cpu[d]
    BY <1>0, <1>5 DEF BumpStore
  <2>3. CASE x # y
    <3>1. Pending(x)' = Pending(x)
      BY <2>1, <2>2, <2>3 DEF Pending, Store, Counter
    <3>2. \A d \in Cpu : cpu'[d].pc = Store(x) => cpu'[d] = cpu[d]
      BY <2>2 DEF Store
    <3>3. counters'[x] = counters[x]
      BY <1>0, <2>1, <2>3
    <3> QED
      BY <1>0, <2>2, <3>1, <3>2, <3>3, FrameCounted
  <2>4. CASE x = y
    <3>1. c \in Pending(x) /\ Pending(x)' = Pending(x) \ {c}
      BY <2>1, <2>2, <2>4 DEF Pending, Store, Counter
    <3>2. Cardinality(Pending(x)') = Cardinality(Pending(x)) - 1
      BY <1>1, <3>1, FS_RemoveElement
    <3>3. /\ counters'[x] = cpu[c].load + 1 /\ events'[x] = events[x]
          /\ cpu[c].pc = Store(x)
      BY <1>0, <2>1, <2>2, <2>4
    <3>4. \A d \in Cpu : cpu'[d].pc = Store(x) => cpu[d].pc = Store(x) /\ cpu'[d] = cpu[d]
      BY <2>2 DEF Store
    <3>5. /\ counters[x] \in Nat /\ events[x] \in Nat
          /\ \A d \in Cpu : cpu[d].load \in Nat
      BY <1>0 DEF Run
    <3> HIDE DEF Pending, Store
    <3> QED
      BY <1>0, <1>1, <3>2, <3>3, <3>4, <3>5, SMT DEF Counted
  <2> QED
    BY <2>3, <2>4
<1> QED
  BY <1>2, <1>3, <1>4, <1>5 DEF Program

JobStep(j) ==
    \/ Loader(j) \/ Work(j)
    \/ \E k \in Conn : Ask(j, k) \/ \E n \in Number : Repeat(j, k, n)

CpuStep(c) == Program(c) \/ \E k \in Conn : Handle(c, k)

\* Whatever increments the CPUs take from one another, for any number of them:
\* the counters never exceed the events, and a lost event shows.
THEOREM LossCorrect == UpcallSpec => []LossShows
<1>1. UpcallInit => LossInv
  BY InitLoss
<1>2. LossInv /\ [UpcallNext]_upcallVars => LossInv'
  <2> SUFFICES ASSUME LossInv, [UpcallNext]_upcallVars PROVE LossInv'
    OBVIOUS
  <2>1. ASSUME NEW c \in Cpu, CpuStep(c) PROVE LossInv'
    BY <2>1, ProgramKeeps, ProgramCounts DEF LossInv, CpuStep
  <2>2. CASE UNCHANGED <<cpu, counters, events>> /\ ProgramType' /\ Reports'
    BY <2>2 DEF LossInv, Counted, Pending
  <2>3. ASSUME NEW j \in Job, JobStep(j) PROVE LossInv'
    BY <2>2, <2>3, DaemonTakes DEF LossInv, JobStep
  <2>4. CASE UNCHANGED upcallVars
    BY <2>2, <2>4 DEF LossInv, ProgramType, Reports, upcallVars, program
  <2> QED
    BY <2>1, <2>3, <2>4 DEF UpcallNext, CpuStep, JobStep
<1>3. LossInv => LossShows
  <2> SUFFICES ASSUME LossInv PROVE LossShows
    OBVIOUS
  <2>1. ASSUME NEW x \in Counter
        PROVE  /\ counters[x] <= events[x]
               /\ (\A c \in Cpu : cpu[c].pc = "idle") => (events[x] > 0 => counters[x] > 0)
    <3>1. Cardinality(Pending(x)) \in Nat
      BY PendingFinite DEF Pending
    <3>2. counters[x] \in Nat /\ events[x] \in Nat /\ Counted(x)
      BY DEF LossInv, ProgramType
    <3>3. (\A c \in Cpu : cpu[c].pc = "idle") => Pending(x) = {}
      BY StoreNames DEF Pending
    <3> HIDE DEF Pending
    <3> QED
      BY <3>1, <3>2, <3>3, SMT DEF Counted
  <2> QED
    BY <2>1 DEF LossShows, Counter
<1> QED
  BY <1>1, <1>2, <1>3, PTL DEF UpcallSpec

-----------------------------------------------------------------------------
(* The daemon's side.                                                      *)

\* The types of what the daemon and its callers write; a job that is at work has
\* a connection, and once it has begun on the socket a descriptor number.
JobsType ==
    /\ config \subseteq {"policy", "identity"} /\ conn \in [Conn -> Connection]
    /\ table \in [Number -> Conn \cup {NoConn}]
    /\ job \in [Job -> Request]
    /\ answers \in [Conn -> SUBSET {"ok", "fail_closed"}]
    /\ strayed \in BOOLEAN
    /\ repeats \in 0..MaxRepeats /\ kfaults \in 0..MaxKtlsFaults

OnSocket == {"ulp", "tx", "rx", "shutdown", "close"}

JobsKnow ==
    \A j \in Job : /\ job[j].pc # "idle" => job[j].conn \in Conn
                   /\ job[j].pc \in OnSocket => job[j].number \in Number

\* No job is at work at first.
LEMMA InitJobs == UpcallInit => JobsType /\ JobsKnow
<1> SUFFICES ASSUME UpcallInit PROVE JobsType /\ JobsKnow
  OBVIOUS
<1>1. conn \in [Conn -> Connection]
  <2>1. ASSUME NEW p \in BOOLEAN
        PROVE  [ports |-> p, life |-> "new", ulp |-> FALSE, tx |-> FALSE, rx |-> FALSE] \in Connection
    BY DEF Connection
  <2> QED
    BY <2>1 DEF UpcallInit
<1>2. job \in [Job -> Request] /\ JobsKnow
  BY DEF UpcallInit, Request, JobsKnow, OnSocket
<1>3. strayed \in BOOLEAN
  BY DEF UpcallInit
<1>4. /\ config \subseteq {"policy", "identity"} /\ table \in [Number -> Conn \cup {NoConn}]
      /\ answers \in [Conn -> SUBSET {"ok", "fail_closed"}]
      /\ repeats \in 0..MaxRepeats /\ kfaults \in 0..MaxKtlsFaults
  BY UpcallAssumption, SMT DEF UpcallInit
<1> QED
  BY <1>1, <1>2, <1>3, <1>4 DEF JobsType

\* The program's side changes a connection from new to open and nothing else of
\* the daemon's.
LEMMA CpuJobs ==
    ASSUME JobsType, JobsKnow, NEW c \in Cpu, CpuStep(c)
    PROVE  /\ JobsType' /\ JobsKnow'
           /\ UNCHANGED <<config, table, job, answers, strayed, repeats, kfaults>>
           /\ \/ UNCHANGED conn
              \/ \E k \in Conn : conn[k].life = "new" /\ conn' = [conn EXCEPT ![k].life = "open"]
<1>1. UNCHANGED <<config, table, job, answers, strayed, repeats, kfaults>>
  BY DEF CpuStep, Program, Handle, Submit, BumpLoad, BumpStore, daemon
<1>2. \/ UNCHANGED conn
      \/ \E k \in Conn : conn[k].life = "new" /\ conn' = [conn EXCEPT ![k].life = "open"]
  BY DEF CpuStep, Program, Handle, Submit, BumpLoad, BumpStore
<1>3. conn' \in [Conn -> Connection]
  <2>1. ASSUME NEW k \in Conn PROVE [conn[k] EXCEPT !.life = "open"] \in Connection
    BY SMT DEF JobsType, Connection
  <2> QED
    BY <1>2, <2>1, SMT DEF JobsType
<1> QED
  BY <1>1, <1>2, <1>3 DEF JobsType, JobsKnow

\* Taking a request up makes a job that has its connection to decide about.
LEMMA TakeType ==
    ASSUME JobsType, JobsKnow, NEW j \in Job, NEW k \in Conn, NEW n \in Number \cup {NoNumber},
           Take(j, k, n)
    PROVE  /\ job' \in [Job -> Request] /\ JobsKnow'
           /\ job'[j] = [pc |-> "decide", conn |-> k, number |-> n]
           /\ \A i \in Job : i # j => job'[i] = job[i]
<1> DEFINE x == [pc |-> "decide", conn |-> k, number |-> n]
<1>1. x \in Request /\ x.conn \in Conn /\ x.pc \notin OnSocket
  BY DEF Request, OnSocket
<1>2. job' = [job EXCEPT ![j] = x]
  BY DEF Take
<1> HIDE DEF x
<1>3. /\ job' \in [Job -> Request] /\ job'[j] = x
      /\ \A i \in Job : i # j => job'[i] = job[i]
  BY <1>1, <1>2 DEF JobsType
<1>4. JobsKnow'
  BY <1>1, <1>3 DEF JobsKnow
<1> QED
  BY <1>3, <1>4 DEF x

\* Answering a request ends its job and adds to the answers about its connection.
LEMMA AnswerType ==
    ASSUME JobsType, JobsKnow, NEW j \in Job, job[j].pc # "idle",
           NEW status \in {"ok", "fail_closed"}, Answer(j, status)
    PROVE  /\ job' \in [Job -> Request] /\ JobsKnow'
           /\ answers' \in [Conn -> SUBSET {"ok", "fail_closed"}]
           /\ job'[j].pc = "idle"
           /\ \A i \in Job : i # j => job'[i] = job[i]
           /\ answers'[job[j].conn] = answers[job[j].conn] \cup {status}
           /\ \A k \in Conn : k # job[j].conn => answers'[k] = answers[k]
<1> DEFINE x == [pc |-> "idle", conn |-> NoConn, number |-> NoNumber]
<1>1. x \in Request /\ x.pc = "idle" /\ x.pc \notin OnSocket
  BY DEF Request, OnSocket
<1>2. /\ job' = [job EXCEPT ![j] = x] /\ job[j].conn \in Conn
      /\ answers' = [answers EXCEPT ![job[j].conn] = @ \cup {status}]
  BY DEF Answer, JobsKnow
<1> HIDE DEF x
<1>3. /\ job' \in [Job -> Request] /\ job'[j] = x
      /\ \A i \in Job : i # j => job'[i] = job[i]
  BY <1>1, <1>2 DEF JobsType
<1>4. JobsKnow'
  BY <1>1, <1>3 DEF JobsKnow
<1>5. answers[job[j].conn] \cup {status} \in SUBSET {"ok", "fail_closed"}
  BY <1>2 DEF JobsType
<1>6. /\ answers' \in [Conn -> SUBSET {"ok", "fail_closed"}]
      /\ answers'[job[j].conn] = answers[job[j].conn] \cup {status}
      /\ \A k \in Conn : k # job[j].conn => answers'[k] = answers[k]
  BY <1>2, <1>5 DEF JobsType
<1> QED
  BY <1>1, <1>3, <1>4, <1>6

\* Going on to another stage changes where the job is and nothing else.
LEMMA MoveType ==
    ASSUME JobsType, JobsKnow, NEW j \in Job, job[j].pc # "idle", job[j].number \in Number,
           NEW p \in OnSocket, job' = [job EXCEPT ![j].pc = p]
    PROVE  /\ job' \in [Job -> Request] /\ JobsKnow'
           /\ job'[j].pc = p /\ job'[j].conn = job[j].conn /\ job'[j].number = job[j].number
           /\ \A i \in Job : i # j => job'[i] = job[i]
<1> DEFINE x == [job[j] EXCEPT !.pc = p]
<1>1. x \in Request /\ x.pc = p /\ x.conn = job[j].conn /\ x.number = job[j].number
  BY SMT DEF Request, OnSocket, JobsType
<1>2. job' = [job EXCEPT ![j] = x]
  OBVIOUS
<1> HIDE DEF x
<1>3. /\ job' \in [Job -> Request] /\ job'[j] = x
      /\ \A i \in Job : i # j => job'[i] = job[i]
  BY <1>1, <1>2 DEF JobsType
<1>4. JobsKnow'
  BY <1>1, <1>3 DEF JobsKnow
<1> QED
  BY <1>1, <1>3, <1>4

\* A step on the socket notes whether it strays.
LEMMA StraysType ==
    ASSUME NEW j \in Job, Strays(j)
    PROVE  /\ strayed' \in BOOLEAN
           /\ strayed' => strayed \/ Target(j) \notin {NoConn, job[j].conn}
BY DEF Strays

\* The requests that come in are about connections and about numbers the daemon
\* has, or about none.
LEMMA ArrivalJobs ==
    ASSUME ProgramType, JobsType, JobsKnow, NEW j \in Job,
           \/ Loader(j)
           \/ \E k \in Conn : Ask(j, k) \/ \E n \in Number : Repeat(j, k, n)
    PROVE  JobsType' /\ JobsKnow'
<1>0. ring # <<>> => Head(ring) \in Conn
  BY HeadTailProperties DEF ProgramType
<1>1. CASE Event(j)
  <2>1. ring # <<>> /\ Take(j, Head(ring), NoNumber)
        /\ UNCHANGED <<config, conn, table, answers, strayed, kfaults, repeats>>
    BY <1>1 DEF Event
  <2> QED
    BY <1>0, <2>1, TakeType DEF JobsType
<1>2. ASSUME NEW n \in Number, Loaded(j, n) PROVE JobsType' /\ JobsKnow'
  <2>1. ring # <<>> /\ Take(j, Head(ring), n) /\ table' = [table EXCEPT ![n] = Head(ring)]
        /\ UNCHANGED <<config, conn, answers, strayed, kfaults, repeats>>
    BY <1>2 DEF Loaded
  <2>2. table' \in [Number -> Conn \cup {NoConn}]
    BY <1>0, <2>1 DEF JobsType
  <2> QED
    BY <1>0, <2>1, <2>2, TakeType DEF JobsType
<1>3. ASSUME NEW k \in Conn, Ask(j, k) PROVE JobsType' /\ JobsKnow'
  <2>1. Take(j, k, NoNumber) /\ UNCHANGED <<config, conn, table, answers, strayed, kfaults, repeats>>
    BY <1>3 DEF Ask
  <2> QED
    BY <2>1, TakeType DEF JobsType
<1>4. ASSUME NEW k \in Conn, NEW n \in Number, Repeat(j, k, n) PROVE JobsType' /\ JobsKnow'
  <2>1. Take(j, k, n) /\ UNCHANGED <<config, conn, table, answers, strayed, kfaults>>
    BY <1>4 DEF Repeat
  <2>2. repeats' \in 0..MaxRepeats
    BY <1>4, UpcallAssumption, SMT DEF Repeat, JobsType
  <2> QED
    BY <2>1, <2>2, TakeType DEF JobsType
<1> QED
  BY <1>1, <1>2, <1>3, <1>4 DEF Loader

\* What a step of complete_kernel_upcall does, in the terms of the proofs below:
\* it works on its own connection's answers and its own job, on the socket behind
\* its number, and strays only if that is not its connection's.
WorkShape(j) ==
    /\ job[j].pc # "idle" /\ UNCHANGED <<config, cpu, ring, repeats>>
    /\ \A i \in Job : i # j => job'[i] = job[i]
    /\ \/ job'[j].pc = "idle"
       \/ job'[j].conn = job[j].conn /\ job'[j].number = job[j].number /\ UNCHANGED table
    /\ \A k \in Conn : k # job[j].conn => answers'[k] = answers[k]
    /\ \A k \in Conn : k # Target(j) => conn'[k] = conn[k]
    /\ \A n \in Number : n # job[j].number => table'[n] = table[n]
    /\ strayed' => strayed \/ (job[j].number \in Number /\ Target(j) \notin {NoConn, job[j].conn})

\* Deciding touches no socket.
LEMMA DecideJobs ==
    ASSUME JobsType, JobsKnow, NEW j \in Job, Decide(j)
    PROVE  JobsType' /\ JobsKnow' /\ WorkShape(j)
<1>1. /\ job[j].pc = "decide" /\ job[j].pc # "idle"
      /\ UNCHANGED <<config, conn, cpu, ring, table, strayed, kfaults, repeats>>
  BY DEF Decide, program
<1>2. ASSUME NEW status \in {"ok", "fail_closed"}, Answer(j, status)
      PROVE  JobsType' /\ JobsKnow' /\ WorkShape(j)
  BY <1>1, <1>2, AnswerType, SMT DEF JobsType, WorkShape
<1>3. CASE job[j].number # NoNumber /\ job' = [job EXCEPT ![j].pc = "ulp"] /\ UNCHANGED answers
  <2>1. job[j].number \in Number
    BY <1>3 DEF JobsType, Request
  <2> QED
    BY <1>1, <1>3, <2>1, MoveType DEF JobsType, WorkShape, OnSocket
<1> QED
  BY <1>2, <1>3 DEF Decide

\* A setsockopt that succeeds sets its stage of the connection and no other field.
LEMMA StageType ==
    ASSUME JobsType, NEW k \in Conn, NEW stage \in {"ulp", "tx", "rx"},
           conn' = [conn EXCEPT ![k][stage] = TRUE]
    PROVE  /\ conn' \in [Conn -> Connection]
           /\ \A i \in Conn : i # k => conn'[i] = conn[i]
           /\ conn'[k].life = conn[k].life /\ conn'[k].ports = conn[k].ports
           /\ conn'[k][stage] = TRUE
           /\ \A t \in {"ulp", "tx", "rx"} : t # stage => conn'[k][t] = conn[k][t]
<1> DEFINE x == [conn[k] EXCEPT ![stage] = TRUE]
<1>0. conn[k] \in Connection
  BY DEF JobsType
<1>1. /\ x \in Connection /\ x.life = conn[k].life /\ x.ports = conn[k].ports
      /\ x[stage] = TRUE
      /\ \A t \in {"ulp", "tx", "rx"} : t # stage => x[t] = conn[k][t]
  <2>1. CASE stage = "ulp"
    BY <1>0, <2>1 DEF Connection
  <2>2. CASE stage = "tx"
    BY <1>0, <2>2 DEF Connection
  <2>3. CASE stage = "rx"
    BY <1>0, <2>3 DEF Connection
  <2> QED
    BY <2>1, <2>2, <2>3
<1>2. conn' = [conn EXCEPT ![k] = x]
  OBVIOUS
<1> HIDE DEF x
<1>3. conn' \in [Conn -> Connection] /\ conn'[k] = x /\ \A i \in Conn : i # k => conn'[i] = conn[i]
  BY <1>1, <1>2 DEF JobsType
<1> QED
  BY <1>1, <1>3

\* A stage of the bridge succeeds on a live connection, or fails and goes on to the
\* shutdown.
LEMMA InstallJobs ==
    ASSUME JobsType, JobsKnow, NEW j \in Job, NEW stage \in {"ulp", "tx", "rx"}, Install(j, stage)
    PROVE  /\ JobsType' /\ JobsKnow' /\ WorkShape(j)
           /\ job[j].pc = stage /\ UNCHANGED table
           /\ \/ /\ Admits(stage, Target(j)) /\ Target(j) \in Conn
                 /\ conn' = [conn EXCEPT ![Target(j)][stage] = TRUE]
                 /\ \/ /\ stage = "rx" /\ job'[j].pc = "idle"
                       /\ answers'[job[j].conn] = answers[job[j].conn] \cup {"ok"}
                    \/ /\ stage # "rx" /\ answers' = answers
                       /\ job'[j].pc = After(stage) /\ job'[j].conn = job[j].conn
              \/ /\ UNCHANGED <<conn, answers>>
                 /\ job'[j].pc = "shutdown" /\ job'[j].conn = job[j].conn
<1>1. /\ job[j].pc = stage /\ job[j].pc # "idle" /\ Strays(j)
      /\ UNCHANGED <<config, cpu, ring, table, repeats>>
  BY DEF Install, program
<1>2. job[j].number \in Number /\ Target(j) \in Conn \cup {NoConn}
  BY <1>1 DEF JobsKnow, OnSocket, JobsType, Target
<1>3. kfaults' \in 0..MaxKtlsFaults
  <2>1. kfaults' = kfaults \/ (kfaults < MaxKtlsFaults /\ kfaults' = kfaults + 1)
    BY DEF Install
  <2> QED
    BY <2>1, UpcallAssumption, SMT DEF JobsType
<1>4. /\ strayed' \in BOOLEAN
      /\ strayed' => strayed \/ Target(j) \notin {NoConn, job[j].conn}
  BY <1>1, StraysType
<1>5. CASE /\ Admits(stage, Target(j)) /\ conn' = [conn EXCEPT ![Target(j)][stage] = TRUE]
           /\ stage = "rx" /\ Answer(j, "ok")
  <2>1. Target(j) \in Conn
    BY <1>2, <1>5 DEF Admits
  <2>2. conn' \in [Conn -> Connection] /\ \A k \in Conn : k # Target(j) => conn'[k] = conn[k]
    BY <1>5, <2>1, StageType
  <2>3. JobsType' /\ JobsKnow'
    BY <1>1, <1>3, <1>4, <1>5, <2>2, AnswerType DEF JobsType
  <2>4. WorkShape(j)
    BY <1>1, <1>2, <1>4, <1>5, <2>2, AnswerType, SMT DEF WorkShape
  <2> QED
    BY <1>1, <1>5, <2>1, <2>3, <2>4, AnswerType
<1>6. CASE /\ Admits(stage, Target(j)) /\ conn' = [conn EXCEPT ![Target(j)][stage] = TRUE]
           /\ stage # "rx" /\ job' = [job EXCEPT ![j].pc = After(stage)] /\ UNCHANGED answers
  <2>1. Target(j) \in Conn /\ After(stage) \in OnSocket
    BY <1>2, <1>6 DEF Admits, After, OnSocket
  <2>2. conn' \in [Conn -> Connection] /\ \A k \in Conn : k # Target(j) => conn'[k] = conn[k]
    BY <1>6, <2>1, StageType
  <2>3. JobsType' /\ JobsKnow'
    BY <1>1, <1>2, <1>3, <1>4, <1>6, <2>1, <2>2, MoveType DEF JobsType
  <2>4. WorkShape(j)
    BY <1>1, <1>2, <1>4, <1>6, <2>1, <2>2, MoveType, SMT DEF WorkShape
  <2> QED
    BY <1>1, <1>2, <1>6, <2>1, <2>3, <2>4, MoveType
<1>7. CASE job' = [job EXCEPT ![j].pc = "shutdown"] /\ UNCHANGED <<conn, answers>>
  <2>1. JobsType' /\ JobsKnow'
    BY <1>1, <1>2, <1>3, <1>4, <1>7, MoveType DEF JobsType, OnSocket
  <2>2. WorkShape(j)
    BY <1>1, <1>2, <1>4, <1>7, MoveType DEF WorkShape, OnSocket
  <2> QED
    BY <1>1, <1>2, <1>7, <2>1, <2>2, MoveType DEF OnSocket
<1> QED
  BY <1>5, <1>6, <1>7 DEF Install

\* The shutdown of the socket behind the number.
LEMMA ShutdownJobs ==
    ASSUME JobsType, JobsKnow, NEW j \in Job, Shutdown(j)
    PROVE  /\ JobsType' /\ JobsKnow' /\ WorkShape(j)
           /\ job[j].pc = "shutdown" /\ UNCHANGED <<table, answers>>
           /\ job'[j].pc = "close" /\ job'[j].conn = job[j].conn
           /\ \A k \in Conn : /\ conn'[k] = [conn[k] EXCEPT !.life = "shut"] \/ conn'[k] = conn[k]
                              /\ k = Target(j) => conn'[k].life = "shut"
<1>1. /\ job[j].pc = "shutdown" /\ job[j].pc # "idle" /\ Strays(j)
      /\ job' = [job EXCEPT ![j].pc = "close"]
      /\ UNCHANGED <<config, cpu, ring, table, answers, kfaults, repeats>>
  BY DEF Shutdown, program
<1>2. job[j].number \in Number /\ Target(j) \in Conn \cup {NoConn}
  BY <1>1 DEF JobsKnow, OnSocket, JobsType, Target
<1>3. /\ strayed' \in BOOLEAN
      /\ strayed' => strayed \/ Target(j) \notin {NoConn, job[j].conn}
  BY <1>1, StraysType
<1>4. /\ conn' \in [Conn -> Connection]
      /\ \A k \in Conn : /\ conn'[k] = [conn[k] EXCEPT !.life = "shut"] \/ conn'[k] = conn[k]
                         /\ k = Target(j) => conn'[k].life = "shut"
                         /\ k # Target(j) => conn'[k] = conn[k]
  <2>1. CASE Target(j) = NoConn
    <3>1. conn' = conn
      BY <2>1 DEF Shutdown
    <3>2. NoConn \notin Conn
      BY UpcallAssumption
    <3> QED
      BY <2>1, <3>1, <3>2 DEF JobsType
  <2>2. CASE Target(j) # NoConn
    <3> DEFINE t == Target(j)
               x == [conn[t] EXCEPT !.life = "shut"]
    <3>1. t \in Conn /\ conn' = [conn EXCEPT ![t] = x]
      BY <1>2, <2>2 DEF Shutdown
    <3>2. x \in Connection /\ x.life = "shut"
      BY <3>1, SMT DEF JobsType, Connection
    <3> QED
      BY <3>1, <3>2 DEF JobsType
  <2> QED
    BY <2>1, <2>2
<1>5. JobsType' /\ JobsKnow'
  BY <1>1, <1>2, <1>3, <1>4, MoveType DEF JobsType, OnSocket
<1>6. WorkShape(j)
  BY <1>1, <1>2, <1>3, <1>4, MoveType DEF WorkShape, OnSocket
<1> QED
  BY <1>1, <1>2, <1>4, <1>5, <1>6, MoveType DEF OnSocket

\* The close of the number, and the answer.
LEMMA CloseJobs ==
    ASSUME JobsType, JobsKnow, NEW j \in Job, Close(j)
    PROVE  /\ JobsType' /\ JobsKnow' /\ WorkShape(j)
           /\ job[j].pc = "close" /\ UNCHANGED conn /\ job'[j].pc = "idle"
           /\ answers'[job[j].conn] = answers[job[j].conn] \cup {"fail_closed"}
<1>1. /\ job[j].pc = "close" /\ job[j].pc # "idle" /\ Strays(j) /\ Answer(j, "fail_closed")
      /\ table' = [table EXCEPT ![job[j].number] = NoConn]
      /\ UNCHANGED <<config, conn, cpu, ring, kfaults, repeats>>
  BY DEF Close, program
<1>2. /\ strayed' \in BOOLEAN /\ job[j].number \in Number
      /\ strayed' => strayed \/ Target(j) \notin {NoConn, job[j].conn}
  BY <1>1, StraysType DEF JobsKnow, OnSocket
<1>3. /\ table' \in [Number -> Conn \cup {NoConn}]
      /\ \A n \in Number : n # job[j].number => table'[n] = table[n]
  BY <1>1 DEF JobsType
<1>4. JobsType' /\ JobsKnow'
  BY <1>1, <1>2, <1>3, AnswerType DEF JobsType
<1>5. WorkShape(j)
  BY <1>1, <1>2, <1>3, AnswerType DEF WorkShape
<1> QED
  BY <1>1, <1>4, <1>5, AnswerType

\* All types together.
UpcallTypes == ProgramType /\ Reports /\ JobsType /\ JobsKnow

\* Every step keeps the types.
LEMMA StepTypes == UpcallTypes /\ [UpcallNext]_upcallVars => UpcallTypes'
<1> SUFFICES ASSUME UpcallTypes, [UpcallNext]_upcallVars PROVE UpcallTypes'
  OBVIOUS
<1>1. ASSUME NEW c \in Cpu, CpuStep(c) PROVE UpcallTypes'
  BY <1>1, ProgramKeeps, CpuJobs DEF UpcallTypes, CpuStep
<1>2. ASSUME NEW j \in Job, JobStep(j) PROVE UpcallTypes'
  <2>1. ProgramType' /\ Reports'
    BY <1>2, DaemonTakes DEF UpcallTypes, JobStep
  <2>2. JobsType' /\ JobsKnow'
    BY <1>2, ArrivalJobs, DecideJobs, InstallJobs, ShutdownJobs, CloseJobs
       DEF UpcallTypes, JobStep, Work
  <2> QED
    BY <2>1, <2>2 DEF UpcallTypes
<1>3. CASE UNCHANGED upcallVars
  BY <1>3 DEF UpcallTypes, ProgramType, Reports, JobsType, JobsKnow, upcallVars, program, daemon
<1> QED
  BY <1>1, <1>2, <1>3 DEF UpcallNext, CpuStep, JobStep

\* For any number of connections, CPUs, jobs and numbers: every variable has its
\* type, and the ring never holds more events than fit.
THEOREM UpcallTypeCorrect == UpcallSpec => [](UpcallTypeOK /\ UpcallTypes)
<1>1. UpcallInit => UpcallTypes
  BY InitProgram, InitJobs DEF UpcallTypes
<1>2. UpcallTypes /\ [UpcallNext]_upcallVars => UpcallTypes'
  BY StepTypes
<1>3. UpcallTypes => UpcallTypeOK
  BY DEF UpcallTypes, UpcallTypeOK, ProgramType, JobsType, Run, Request
<1> QED
  BY <1>1, <1>2, <1>3, PTL DEF UpcallSpec

-----------------------------------------------------------------------------
(* Whose socket.  Numbers are reused, but the number a job has is open as  *)
(* long as the job is at work, so the daemon gets it for no other.         *)

Numbered(j) == job[j].pc # "idle" /\ job[j].number \in Number

Owns ==
    repeats = 0 =>
        /\ ~strayed
        /\ \A j \in Job : Numbered(j) => table[job[j].number] = job[j].conn
        /\ \A i, j \in Job : i # j /\ Numbered(i) /\ Numbered(j) => job[i].number # job[j].number

OwnInv == UpcallTypes /\ Owns

\* A request that comes in has no number, or one that was free.
LEMMA ArrivalOwns ==
    ASSUME OwnInv, NEW j \in Job,
           \/ Loader(j)
           \/ \E k \in Conn : Ask(j, k) \/ \E n \in Number : Repeat(j, k, n)
    PROVE  Owns'
<1>0. /\ JobsType /\ JobsKnow /\ ProgramType /\ Owns
      /\ NoNumber \notin Number /\ NoConn \notin Conn /\ repeats \in Nat
      /\ ring # <<>> => Head(ring) \in Conn
  BY UpcallAssumption, HeadTailProperties, SMT DEF OwnInv, UpcallTypes, ProgramType, JobsType
<1>1. ASSUME NEW k \in Conn, Take(j, k, NoNumber), UNCHANGED <<table, strayed, repeats>>
      PROVE  Owns'
  <2>1. job'[j].number = NoNumber /\ \A i \in Job : i # j => job'[i] = job[i]
    <3>1. NoNumber \in Number \cup {NoNumber}
      OBVIOUS
    <3>2. /\ job'[j] = [pc |-> "decide", conn |-> k, number |-> NoNumber]
          /\ \A i \in Job : i # j => job'[i] = job[i]
      BY <1>0, <1>1, <3>1, TakeType
    <3> QED
      BY <3>2, SMT
  <2>2. \A i \in Job : Numbered(i)' => i # j /\ Numbered(i) /\ job'[i] = job[i]
    BY <1>0, <2>1 DEF Numbered
  <2> QED
    BY <1>0, <1>1, <2>2 DEF Owns
<1>2. ASSUME NEW n \in Number, Loaded(j, n) PROVE Owns'
  <2>1. /\ ring # <<>> /\ table[n] = NoConn /\ Take(j, Head(ring), n)
        /\ table' = [table EXCEPT ![n] = Head(ring)] /\ UNCHANGED <<strayed, repeats>>
    BY <1>2 DEF Loaded
  <2>2. /\ job'[j].number = n /\ job'[j].conn = Head(ring)
        /\ \A i \in Job : i # j => job'[i] = job[i]
    <3>1. /\ job'[j] = [pc |-> "decide", conn |-> Head(ring), number |-> n]
          /\ \A i \in Job : i # j => job'[i] = job[i]
      BY <1>0, <2>1, TakeType
    <3> QED
      BY <3>1, SMT
  <2>3. table'[n] = Head(ring) /\ \A m \in Number : m # n => table'[m] = table[m]
    BY <1>0, <2>1 DEF JobsType
  <2>4. \A i \in Job : i # j /\ Numbered(i)' => Numbered(i) /\ job'[i] = job[i]
    BY <2>2 DEF Numbered
  <2>5. repeats = 0 => \A i \in Job : Numbered(i) => job[i].number # n
    BY <1>0, <2>1 DEF Owns, Numbered, JobsKnow
  <2>6. \A i \in Job : Numbered(i) => job[i].number \in Number
    BY DEF Numbered
  <2> HIDE DEF Numbered
  <2> QED
    BY <1>0, <2>1, <2>2, <2>3, <2>4, <2>5, <2>6, SMT DEF Owns
<1>3. ASSUME NEW k \in Conn, NEW n \in Number, Repeat(j, k, n) PROVE Owns'
  BY <1>0, <1>3, SMT DEF Repeat, Owns
<1> QED
  BY <1>0, <1>1, <1>2, <1>3 DEF Loader, Event, Ask

\* A job at work keeps its number or ends.
LEMMA WorkOwns ==
    ASSUME OwnInv, NEW j \in Job, WorkShape(j)
    PROVE  Owns' /\ (repeats = 0 /\ Numbered(j) => Target(j) = job[j].conn)
<1>0. Owns
  BY DEF OwnInv
<1>1. repeats = 0 /\ Numbered(j) => Target(j) = job[j].conn
  BY <1>0 DEF Owns, Target
<1>2. \A i \in Job : Numbered(i)' => /\ Numbered(i)
                                     /\ job'[i].number = job[i].number /\ job'[i].conn = job[i].conn
  BY DEF WorkShape, Numbered
<1>3. repeats' = 0 => ~strayed'
  BY <1>0, <1>1 DEF Owns, WorkShape, Numbered
<1>4. /\ \A n \in Number : n # job[j].number => table'[n] = table[n]
      /\ Numbered(j)' => UNCHANGED table
      /\ repeats' = repeats
      /\ \A i \in Job : Numbered(i) => job[i].number \in Number
  BY DEF WorkShape, Numbered
<1> HIDE DEF Numbered
<1>5. ASSUME repeats = 0, NEW i \in Job, Numbered(i)'
      PROVE  table'[job'[i].number] = job'[i].conn
  <2>1. CASE i = j
    BY <1>0, <1>2, <1>4, <1>5, <2>1 DEF Owns
  <2>2. CASE ~Numbered(j)
    <3>1. CASE job[j].number \in Number
      BY <3>1, <2>2 DEF Numbered, WorkShape
    <3> QED
      BY <1>0, <1>2, <1>4, <1>5, <2>2, <3>1, SMT DEF Owns
  <2>3. CASE i # j /\ Numbered(j)
    BY <1>0, <1>2, <1>4, <1>5, <2>3, SMT DEF Owns
  <2> QED
    BY <2>1, <2>2, <2>3
<1> QED
  BY <1>0, <1>1, <1>2, <1>3, <1>4, <1>5, SMT DEF Owns

\* A step of the daemon's side is an arrival or work.
LEMMA WorkShapes ==
    ASSUME JobsType, JobsKnow, NEW j \in Job, Work(j)
    PROVE  WorkShape(j)
BY DecideJobs, InstallJobs, ShutdownJobs, CloseJobs DEF Work

\* Every step keeps the sockets with their jobs.
LEMMA StepOwns == OwnInv /\ [UpcallNext]_upcallVars => OwnInv'
<1> SUFFICES ASSUME OwnInv, [UpcallNext]_upcallVars PROVE Owns'
  BY StepTypes DEF OwnInv
<1>1. ASSUME NEW c \in Cpu, CpuStep(c) PROVE Owns'
  <2>1. UNCHANGED <<table, job, strayed, repeats>>
    BY <1>1, CpuJobs DEF OwnInv, UpcallTypes
  <2> QED
    BY <2>1 DEF OwnInv, Owns, Numbered
<1>2. ASSUME NEW j \in Job, JobStep(j) PROVE Owns'
  BY <1>2, ArrivalOwns, WorkShapes, WorkOwns DEF JobStep, OwnInv, UpcallTypes
<1>3. CASE UNCHANGED upcallVars
  BY <1>3 DEF OwnInv, Owns, Numbered, upcallVars, daemon
<1> QED
  BY <1>1, <1>2, <1>3 DEF UpcallNext, CpuStep, JobStep

\* Nothing is numbered at first.
LEMMA InitOwns == UpcallInit => OwnInv
<1> SUFFICES ASSUME UpcallInit PROVE Owns
  BY InitProgram, InitJobs DEF OwnInv, UpcallTypes
<1>1. ~strayed
  BY DEF UpcallInit
<1>2. \A j \in Job : ~Numbered(j)
  BY DEF UpcallInit, Numbered
<1> QED
  BY <1>1, <1>2 DEF Owns

\* For any number of jobs and descriptor numbers: as long as no upcall is sent
\* twice, no job acts on another connection's socket.
THEOREM OwnSocketCorrect == UpcallSpec => []OwnSocketOnly
<1>1. OwnInv => OwnSocketOnly
  BY DEF OwnInv, Owns, OwnSocketOnly
<1> QED
  BY <1>1, InitOwns, StepOwns, PTL DEF UpcallSpec

-----------------------------------------------------------------------------
(* What an answer means.  As long as no upcall is sent twice, a connection *)
(* with ports is in one place at a time: not yet established, with a run   *)
(* of the program, in the ring, with one job, answered for.  So the job    *)
(* that has it finds it as the program has left it, and nobody works on it *)
(* behind the answer.                                                      *)

Reporting(c, k) == cpu[c].pc = "submit" /\ cpu[c].conn = k

Queued(k) == \E i \in 1..Len(ring) : ring[i] = k

Has(j, k) == job[j].pc # "idle" /\ job[j].conn = k

InRingOnce(k) == \A i, j \in 1..Len(ring) : ring[i] = k /\ ring[j] = k => i = j

Once(k) ==
    /\ InRingOnce(k)
    /\ \A c, d \in Cpu : Reporting(c, k) /\ Reporting(d, k) => c = d
    /\ \A i, j \in Job : Has(i, k) /\ Has(j, k) => i = j
    /\ \A c \in Cpu : Reporting(c, k) => conn[k].life # "new" /\ answers[k] = {} /\ ~Queued(k)
    /\ \A c \in Cpu, j \in Job : ~(Reporting(c, k) /\ Has(j, k))
    /\ \A j \in Job : ~(Queued(k) /\ Has(j, k))
    /\ Queued(k) => conn[k].life # "new" /\ answers[k] = {}
    /\ \A j \in Job : Has(j, k) => conn[k].life # "new" /\ answers[k] = {}
    /\ conn[k].life = "new" => answers[k] = {}

Enforced(k) ==
    /\ \A j \in Job : Has(j, k) =>
          /\ job[j].pc \in {"decide", "ulp"} => ~conn[k].ulp
          /\ job[j].pc = "tx" => conn[k].ulp
          /\ job[j].pc = "rx" => conn[k].ulp /\ conn[k].tx
          /\ job[j].pc = "close" => conn[k].life = "shut"
    /\ answers[k] = {} /\ (\A j \in Job : ~Has(j, k)) => ~conn[k].ulp
    /\ "ok" \in answers[k] => conn[k].ulp /\ conn[k].tx /\ conn[k].rx
    /\ answers[k] # {} /\ conn[k].ulp => conn[k].life = "shut" \/ (conn[k].tx /\ conn[k].rx)

Clear(k) == Once(k) /\ Enforced(k)

EnfInv == OwnInv /\ (repeats = 0 => \A k \in Conn : conn[k].ports => Clear(k))

\* A step that leaves a connection and those who have it alone keeps it clear.
LEMMA FrameClear ==
    ASSUME NEW k \in Conn, Clear(k), conn'[k] = conn[k], answers'[k] = answers[k],
           \A c \in Cpu : Reporting(c, k)' => Reporting(c, k),
           Queued(k)' => Queued(k), InRingOnce(k)',
           \A j \in Job : /\ Has(j, k)' <=> Has(j, k)
                          /\ Has(j, k) => job'[j] = job[j]
    PROVE  Clear(k)'
<1>1. Once(k)'
  BY DEF Clear, Once
<1>2. Enforced(k)'
  <2>1. ASSUME NEW j \in Job, Has(j, k)'
        PROVE  /\ job'[j].pc \in {"decide", "ulp"} => ~conn'[k].ulp
               /\ job'[j].pc = "tx" => conn'[k].ulp
               /\ job'[j].pc = "rx" => conn'[k].ulp /\ conn'[k].tx
               /\ job'[j].pc = "close" => conn'[k].life = "shut"
    BY <2>1 DEF Clear, Enforced
  <2>2. answers'[k] = {} /\ (\A j \in Job : ~Has(j, k)') => ~conn'[k].ulp
    BY DEF Clear, Enforced
  <2>3. /\ "ok" \in answers'[k] => conn'[k].ulp /\ conn'[k].tx /\ conn'[k].rx
        /\ answers'[k] # {} /\ conn'[k].ulp => conn'[k].life = "shut" \/ (conn'[k].tx /\ conn'[k].rx)
    BY DEF Clear, Enforced
  <2> HIDE DEF Has
  <2> QED
    BY <2>1, <2>2, <2>3 DEF Enforced
<1> QED
  BY <1>1, <1>2 DEF Clear

\* Nothing is anywhere at first.
LEMMA InitEnf == UpcallInit => EnfInv
<1> SUFFICES ASSUME UpcallInit, NEW k \in Conn PROVE Clear(k)
  BY InitOwns DEF EnfInv
<1>1. /\ \A c \in Cpu : ~Reporting(c, k)
      /\ \A j \in Job : ~Has(j, k)
      /\ answers[k] = {}
  BY DEF UpcallInit, Reporting, Has
<1>2. ~Queued(k) /\ InRingOnce(k)
  BY SMT DEF UpcallInit, Queued, InRingOnce
<1>3. ~conn[k].ulp
  BY SMT DEF UpcallInit
<1> QED
  BY <1>1, <1>2, <1>3 DEF Clear, Once, Enforced

\* The program takes a new connection up, and brings it into the ring or drops it.
LEMMA CpuClear ==
    ASSUME UpcallTypes, NEW c \in Cpu, CpuStep(c), NEW k \in Conn, Clear(k), conn[k].ports
    PROVE  Clear(k)'
<1>0. /\ cpu \in [Cpu -> Run] /\ ring \in Seq(Conn) /\ Len(ring) \in Nat
      /\ conn \in [Conn -> Connection] /\ UNCHANGED <<job, answers>>
  BY LenProperties, CpuJobs DEF UpcallTypes, ProgramType, JobsType
<1>1. \A j \in Job : (Has(j, k)' <=> Has(j, k)) /\ job'[j] = job[j]
  BY <1>0 DEF Has
<1>2. ASSUME NEW h \in Conn, Handle(c, h) PROVE Clear(k)'
  <2>1. /\ cpu[c].pc = "idle" /\ conn[h].life = "new" /\ UNCHANGED ring
        /\ conn' = [conn EXCEPT ![h].life = "open"]
    BY <1>2 DEF Handle
  <2>2. (Queued(k)' <=> Queued(k)) /\ (InRingOnce(k)' <=> InRingOnce(k))
    BY <2>1 DEF Queued, InRingOnce
  <2>3. \A d \in Cpu : Reporting(d, k)' => Reporting(d, k) \/ (d = c /\ h = k)
    <3>1. cpu' = cpu \/ cpu' = [cpu EXCEPT ![c].pc = "submit", ![c].conn = h]
      BY <1>2 DEF Handle
    <3>2. CASE cpu' = cpu
      BY <3>2 DEF Reporting
    <3>3. CASE cpu' = [cpu EXCEPT ![c].pc = "submit", ![c].conn = h]
      <4>1. cpu'[c].conn = h /\ \A d \in Cpu : d # c => cpu'[d] = cpu[d]
        BY <1>0, <3>3 DEF Run
      <4> QED
        BY <4>1 DEF Reporting
    <3> QED
      BY <3>1, <3>2, <3>3
  <2>4. CASE h # k
    <3>1. conn'[k] = conn[k]
      BY <1>0, <2>1, <2>4
    <3>2. InRingOnce(k)'
      BY <2>2 DEF Clear, Once
    <3> QED
      BY <1>0, <1>1, <2>2, <2>3, <2>4, <3>1, <3>2, FrameClear, SMT
  <2>5. CASE h = k
    <3>1. /\ conn'[k].life = "open" /\ conn'[k].ulp = conn[k].ulp
          /\ conn'[k].tx = conn[k].tx /\ conn'[k].rx = conn[k].rx
      BY <1>0, <2>1, <2>5 DEF Connection
    <3>2. /\ answers[k] = {} /\ ~Queued(k) /\ InRingOnce(k)
          /\ \A d \in Cpu : ~Reporting(d, k)
          /\ \A j \in Job : ~Has(j, k)
      BY <2>1, <2>5 DEF Clear, Once
    <3>3. Once(k)'
      BY <1>0, <1>1, <2>2, <2>3, <3>1, <3>2, SMT DEF Once
    <3>4. ~conn[k].ulp
      BY <3>2 DEF Clear, Enforced
    <3>5. Enforced(k)'
      BY <1>0, <1>1, <3>1, <3>2, <3>4, SMT DEF Enforced
    <3> QED
      BY <3>3, <3>5 DEF Clear
  <2> QED
    BY <2>4, <2>5
<1>3. CASE Submit(c)
  <2>1. /\ cpu[c].pc = "submit" /\ UNCHANGED conn
        /\ ring' = ring \/ ring' = Append(ring, cpu[c].conn)
    BY <1>3 DEF Submit
  <2>2. \A d \in Cpu : Reporting(d, k)' => d # c /\ Reporting(d, k)
    <3>1. cpu'[c].pc # "submit" /\ \A d \in Cpu : d # c => cpu'[d] = cpu[d]
      BY <1>0, <1>3 DEF Submit, Run
    <3> QED
      BY <3>1 DEF Reporting
  <2>3. cpu[c].conn \in Conn
    BY <2>1 DEF UpcallTypes, Reports
  <2>4. CASE cpu[c].conn # k \/ ring' = ring
    <3>1. (Queued(k)' => Queued(k)) /\ InRingOnce(k)'
      <4>1. CASE ring' = ring
        BY <4>1 DEF Queued, InRingOnce, Clear, Once
      <4>2. CASE cpu[c].conn # k /\ ring' = Append(ring, cpu[c].conn)
        <5>1. /\ Len(ring') = Len(ring) + 1 /\ ring'[Len(ring) + 1] = cpu[c].conn
              /\ \A i \in 1..Len(ring) : ring'[i] = ring[i]
          BY <1>0, <2>3, <4>2, AppendProperties, SMT
        <5>2. \A i \in 1..Len(ring') : ring'[i] = k => i \in 1..Len(ring) /\ ring[i] = k
          BY <1>0, <4>2, <5>1, SMT
        <5> QED
          BY <5>2 DEF Queued, InRingOnce, Clear, Once
      <4> QED
        BY <2>1, <2>4, <4>1, <4>2
    <3> QED
      BY <1>0, <1>1, <2>1, <2>2, <3>1, FrameClear
  <2>5. CASE cpu[c].conn = k /\ ring' = Append(ring, cpu[c].conn)
    <3>1. Reporting(c, k)
      BY <2>1, <2>5 DEF Reporting
    <3>2. /\ ~Queued(k) /\ conn[k].life # "new" /\ answers[k] = {}
          /\ \A d \in Cpu : ~Reporting(d, k)'
          /\ \A j \in Job : ~Has(j, k)'
      BY <1>1, <2>2, <3>1 DEF Clear, Once
    <3>3. InRingOnce(k)'
      <4>1. /\ Len(ring') = Len(ring) + 1
            /\ \A i \in 1..Len(ring) : ring'[i] = ring[i]
        BY <1>0, <2>3, <2>5, AppendProperties, SMT
      <4>2. \A i \in 1..Len(ring') : ring'[i] = k => i = Len(ring) + 1
        BY <1>0, <3>2, <4>1, SMT DEF Queued
      <4> QED
        BY <4>2 DEF InRingOnce
    <3>4. Once(k)'
      BY <1>0, <2>1, <3>2, <3>3 DEF Once
    <3>5. Enforced(k)'
      BY <1>0, <1>1, <2>1, <3>2 DEF Clear, Enforced
    <3> QED
      BY <3>4, <3>5 DEF Clear
  <2> QED
    BY <2>1, <2>4, <2>5
<1>4. CASE BumpLoad(c) \/ BumpStore(c)
  <2>1. UNCHANGED <<ring, conn>>
    BY <1>4 DEF BumpLoad, BumpStore
  <2>2. cpu'[c].pc # "submit" /\ \A d \in Cpu : d # c => cpu'[d] = cpu[d]
    <3>1. CASE BumpLoad(c)
      BY <1>0, <3>1 DEF BumpLoad, Run
    <3>2. CASE BumpStore(c)
      BY <1>0, <3>2 DEF BumpStore
    <3> QED
      BY <1>4, <3>1, <3>2
  <2>3. /\ \A d \in Cpu : Reporting(d, k)' => Reporting(d, k)
        /\ Queued(k)' => Queued(k)
        /\ InRingOnce(k)'
    BY <2>1, <2>2 DEF Reporting, Queued, InRingOnce, Clear, Once
  <2> QED
    BY <1>0, <1>1, <2>1, <2>3, FrameClear
<1> QED
  BY <1>2, <1>3, <1>4 DEF CpuStep, Program

\* A request that comes in: the connection of the first event leaves the ring for
\* a job, or one without ports is asked about.
LEMMA ArrivalClear ==
    ASSUME UpcallTypes, NEW j \in Job, NEW k \in Conn, Clear(k), conn[k].ports, repeats \in Nat,
           \/ Loader(j)
           \/ \E h \in Conn : Ask(j, h) \/ \E n \in Number : Repeat(j, h, n)
    PROVE  UNCHANGED conn /\ (Clear(k)' \/ repeats' # 0)
<1>0. /\ ring \in Seq(Conn) /\ Len(ring) \in Nat /\ JobsType /\ JobsKnow
      /\ UNCHANGED <<conn, answers>> /\ job[j].pc = "idle"
  BY LenProperties DEF UpcallTypes, ProgramType, Loader, Event, Loaded, Ask, Repeat, Idle
<1>1. UNCHANGED cpu
  BY DaemonTakes DEF UpcallTypes
<1>2. \A c \in Cpu : Reporting(c, k)' <=> Reporting(c, k)
  BY <1>1 DEF Reporting
<1>3. ASSUME NEW h \in Conn, NEW n \in Number \cup {NoNumber}, Take(j, h, n)
      PROVE  /\ job'[j].pc = "decide" /\ job'[j].conn = h
             /\ \A i \in Job : i # j => job'[i] = job[i]
             /\ \A i \in Job : Has(i, k)' <=> (Has(i, k) \/ (i = j /\ h = k))
             /\ ~Has(j, k)
  <2>1. /\ job'[j] = [pc |-> "decide", conn |-> h, number |-> n]
        /\ \A i \in Job : i # j => job'[i] = job[i]
    BY <1>0, <1>3, TakeType
  <2>2. job'[j].pc = "decide" /\ job'[j].conn = h
    BY <2>1, SMT
  <2> QED
    BY <1>0, <2>1, <2>2 DEF Has
<1>4. ASSUME ring # <<>>, NEW n \in Number \cup {NoNumber}, Take(j, Head(ring), n), ring' = Tail(ring)
      PROVE  Clear(k)'
  <2>1. /\ Head(ring) \in Conn /\ Head(ring) = ring[1] /\ Len(ring) >= 1
        /\ Len(ring') = Len(ring) - 1
        /\ \A i \in 1..Len(ring') : ring'[i] = ring[i + 1]
    BY <1>0, <1>4, HeadTailProperties, EmptySeq, SMT
  <2>2. \A i \in 1..Len(ring') : ring'[i] = k => i + 1 \in 1..Len(ring) /\ ring[i + 1] = k
    BY <1>0, <2>1, SMT
  <2>3. (Queued(k)' => Queued(k)) /\ InRingOnce(k)'
    <3>1. Queued(k)' => Queued(k)
      BY <2>2 DEF Queued
    <3>2. InRingOnce(k)'
      <4> SUFFICES ASSUME NEW a \in 1..Len(ring'), NEW b \in 1..Len(ring'), ring'[a] = k, ring'[b] = k
                   PROVE  a = b
        BY DEF InRingOnce
      <4>1. a + 1 = b + 1
        BY <2>2 DEF InRingOnce, Clear, Once
      <4> QED
        BY <1>0, <2>1, <4>1, SMT
    <3> QED
      BY <3>1, <3>2
  <2>4. CASE Head(ring) # k
    BY <1>0, <1>2, <1>3, <1>4, <2>1, <2>3, <2>4, FrameClear, SMT
  <2>5. CASE Head(ring) = k
    <3>1. Queued(k) /\ ~Queued(k)'
      <4>1. 1 \in 1..Len(ring) /\ ring[1] = k
        BY <1>0, <2>1, <2>5, SMT
      <4>2. \A i \in 1..Len(ring') : ring'[i] # k
        <5> SUFFICES ASSUME NEW a \in 1..Len(ring'), ring'[a] = k PROVE FALSE
          OBVIOUS
        <5>1. a + 1 = 1
          BY <2>2, <4>1 DEF InRingOnce, Clear, Once
        <5> QED
          BY <1>0, <2>1, <5>1, SMT
      <4> QED
        BY <4>1, <4>2 DEF Queued
    <3>2. /\ conn[k].life # "new" /\ answers[k] = {}
          /\ \A c \in Cpu : ~Reporting(c, k)'
          /\ \A i \in Job : ~Has(i, k)
      BY <1>2, <3>1 DEF Clear, Once
    <3>3. \A i \in Job : Has(i, k)' => i = j
      BY <1>3, <1>4, <2>1, <3>2
    <3>4. Once(k)'
      BY <1>0, <2>3, <3>1, <3>2, <3>3, SMT DEF Once
    <3>5. ~conn[k].ulp /\ job'[j].pc = "decide"
      BY <1>3, <1>4, <2>1, <3>2 DEF Clear, Enforced
    <3>6. Enforced(k)'
      BY <1>0, <3>2, <3>3, <3>5 DEF Enforced
    <3> QED
      BY <3>4, <3>6 DEF Clear
  <2> QED
    BY <2>4, <2>5
<1>5. ASSUME NEW h \in Conn, Ask(j, h) PROVE Clear(k)'
  <2>1. h # k /\ UNCHANGED ring /\ Take(j, h, NoNumber)
    BY <1>5 DEF Ask, program
  <2>2. (Queued(k)' => Queued(k)) /\ InRingOnce(k)'
    BY <2>1 DEF Queued, InRingOnce, Clear, Once
  <2> QED
    BY <1>0, <1>2, <1>3, <2>1, <2>2, FrameClear
<1>6. ASSUME NEW h \in Conn, NEW n \in Number, Repeat(j, h, n) PROVE repeats' # 0
  BY <1>6, SMT DEF Repeat
<1> QED
  BY <1>0, <1>4, <1>5, <1>6 DEF Loader, Event, Loaded

\* A job's step keeps its connection in one place.
LEMMA WorkOnce ==
    ASSUME NEW j \in Job, NEW k \in Conn, Once(k), Has(j, k), WorkShape(j),
           conn'[k].life # "new", job'[j].pc # "idle" => answers'[k] = {}
    PROVE  /\ Once(k)'
           /\ \A i \in Job : Has(i, k)' => i = j /\ job'[j].pc # "idle"
           /\ answers[k] = {}
<1>1. /\ answers[k] = {} /\ ~Queued(k) /\ InRingOnce(k)
      /\ \A c \in Cpu : ~Reporting(c, k)
      /\ \A i \in Job : Has(i, k) => i = j
  BY DEF Once
<1>2. /\ ~Queued(k)' /\ InRingOnce(k)'
      /\ \A c \in Cpu : ~Reporting(c, k)'
  BY <1>1 DEF WorkShape, Queued, InRingOnce, Reporting
<1>3. \A i \in Job : Has(i, k)' => i = j /\ job'[j].pc # "idle"
  BY <1>1, SMT DEF WorkShape, Has
<1> QED
  BY <1>1, <1>2, <1>3 DEF Once

\* A job's step on its own connection.
LEMMA OwnWorkClear ==
    ASSUME UpcallTypes, Owns, repeats = 0, NEW j \in Job, Work(j),
           NEW k \in Conn, Clear(k), conn[k].ports, Has(j, k)
    PROVE  Clear(k)'
<1>0. /\ JobsType /\ JobsKnow /\ WorkShape(j) /\ Once(k) /\ Enforced(k) /\ job[j].conn = k
      /\ conn[k].life # "new" /\ answers[k] = {} /\ conn[k] \in Connection
  BY WorkShapes DEF UpcallTypes, Clear, Once, Has, JobsType
<1>1. job[j].pc \in OnSocket => Target(j) = k
  BY <1>0, WorkOwns DEF OwnInv, Numbered, JobsKnow, OnSocket
<1>2. CASE Decide(j)
  <2>1. UNCHANGED conn /\ job[j].pc = "decide" /\ ~conn[k].ulp
    BY <1>0, <1>2 DEF Decide, Enforced, Clear
  <2>2. CASE Answer(j, "fail_closed")
    <3>1. answers'[k] = {"fail_closed"} /\ job'[j].pc = "idle"
      BY <1>0, <2>1, <2>2, AnswerType
    <3>2. Once(k)' /\ \A i \in Job : ~Has(i, k)'
      BY <1>0, <2>1, <3>1, WorkOnce
    <3>3. Enforced(k)'
      BY <2>1, <3>1, <3>2 DEF Enforced
    <3> QED
      BY <3>2, <3>3 DEF Clear
  <2>3. CASE job[j].number # NoNumber /\ job' = [job EXCEPT ![j].pc = "ulp"] /\ UNCHANGED answers
    <3>1. job[j].number \in Number
      BY <1>0, <2>3 DEF JobsType, Request
    <3>2. job'[j].pc = "ulp"
      BY <1>0, <2>1, <2>3, <3>1, MoveType DEF OnSocket
    <3>3. Once(k)' /\ \A i \in Job : Has(i, k)' => i = j
      BY <1>0, <2>1, <2>3, <3>2, WorkOnce, SMT
    <3>4. Enforced(k)'
      BY <1>0, <2>1, <2>3, <3>2, <3>3 DEF Enforced
    <3> QED
      BY <3>3, <3>4 DEF Clear
  <2> QED
    BY <1>0, <1>2, <2>2, <2>3 DEF Decide
<1>3. ASSUME NEW stage \in {"ulp", "tx", "rx"}, Install(j, stage) PROVE Clear(k)'
  <2>1. job[j].pc = stage /\ Target(j) = k
    BY <1>0, <1>1, <1>3, InstallJobs DEF OnSocket
  <2>2. CASE /\ conn' = [conn EXCEPT ![k][stage] = TRUE]
             /\ \/ /\ stage = "rx" /\ job'[j].pc = "idle" /\ answers'[k] = answers[k] \cup {"ok"}
                \/ stage # "rx" /\ answers' = answers /\ job'[j].pc = After(stage)
    <3>1. /\ conn'[k].life = conn[k].life /\ conn'[k][stage] = TRUE
          /\ \A t \in {"ulp", "tx", "rx"} : t # stage => conn'[k][t] = conn[k][t]
      <4>1. conn' = [conn EXCEPT ![k][stage] = TRUE]
        BY <2>2
      <4>2. conn'[k].life = conn[k].life
        BY <1>0, <4>1, StageType
      <4>3. conn'[k][stage] = TRUE
        <5>1. JobsType
          BY <1>0
        <5> QED
          BY <4>1, <5>1, StageType
      <4>4. \A t \in {"ulp", "tx", "rx"} : t # stage => conn'[k][t] = conn[k][t]
        BY <1>0, <4>1, StageType, SMT
      <4> QED
        BY <4>2, <4>3, <4>4
    <3>2. Once(k)' /\ \A i \in Job : Has(i, k)' => i = j /\ job'[j].pc # "idle"
      BY <1>0, <2>2, <3>1, WorkOnce
    <3>3. CASE stage = "ulp"
      <4>1. conn'[k].ulp /\ job'[j].pc = "tx" /\ answers'[k] = {} /\ job'[j].conn = k
        BY <1>0, <2>2, <3>1, <3>3 DEF After, WorkShape
      <4>2. Has(j, k)'
        BY <4>1 DEF Has
      <4> QED
        BY <3>2, <4>1, <4>2 DEF Enforced, Clear
    <3>4. CASE stage = "tx"
      <4>1. conn'[k].tx /\ job'[j].pc = "rx" /\ answers'[k] = {} /\ job'[j].conn = k
        BY <1>0, <2>2, <3>1, <3>4 DEF After, WorkShape
      <4>2. conn'[k].ulp
        BY <1>0, <2>1, <3>1, <3>4 DEF Enforced
      <4>3. Has(j, k)'
        BY <4>1 DEF Has
      <4> QED
        BY <3>2, <4>1, <4>2, <4>3 DEF Enforced, Clear
    <3>5. CASE stage = "rx"
      <4>1. conn'[k].rx /\ answers'[k] = {"ok"} /\ \A i \in Job : ~Has(i, k)'
        BY <1>0, <2>2, <3>1, <3>2, <3>5, SMT
      <4>2. conn'[k].ulp /\ conn'[k].tx
        BY <1>0, <2>1, <3>1, <3>5 DEF Enforced
      <4> QED
        BY <3>2, <4>1, <4>2 DEF Enforced, Clear
    <3> QED
      BY <3>3, <3>4, <3>5
  <2>3. CASE UNCHANGED <<conn, answers>> /\ job'[j].pc = "shutdown" /\ job'[j].conn = k
    <3>1. Once(k)' /\ \A i \in Job : Has(i, k)' => i = j
      BY <1>0, <2>3, WorkOnce
    <3>2. Has(j, k)' /\ "ok" \notin answers'[k]
      BY <1>0, <2>3 DEF Has
    <3>3. Enforced(k)'
      BY <1>0, <2>3, <3>1, <3>2 DEF Enforced
    <3> QED
      BY <3>1, <3>3 DEF Clear
  <2> QED
    BY <1>0, <1>3, <2>1, <2>2, <2>3, InstallJobs, SMT
<1>4. CASE Shutdown(j)
  <2>1. /\ job'[j].pc = "close" /\ job'[j].conn = k /\ UNCHANGED answers
        /\ conn'[k].life = "shut"
    BY <1>0, <1>1, <1>4, ShutdownJobs DEF OnSocket
  <2>2. Once(k)' /\ \A i \in Job : Has(i, k)' => i = j
    BY <1>0, <2>1, WorkOnce
  <2>3. Has(j, k)' /\ answers'[k] = {}
    BY <1>0, <2>1 DEF Has
  <2> QED
    BY <2>1, <2>2, <2>3 DEF Enforced, Clear
<1>5. CASE Close(j)
  <2>1. /\ job[j].pc = "close" /\ UNCHANGED conn /\ job'[j].pc = "idle"
        /\ answers'[k] = {"fail_closed"}
    BY <1>0, <1>5, CloseJobs
  <2>2. conn'[k].life = "shut"
    BY <1>0, <2>1 DEF Enforced
  <2>3. Once(k)' /\ \A i \in Job : ~Has(i, k)'
    BY <1>0, <2>1, WorkOnce
  <2> QED
    BY <2>1, <2>2, <2>3 DEF Enforced, Clear
<1> QED
  BY <1>2, <1>3, <1>4, <1>5 DEF Work

\* A job's step on another connection does not touch this one.
LEMMA OtherWorkClear ==
    ASSUME UpcallTypes, Owns, repeats = 0, NEW j \in Job, Work(j),
           NEW k \in Conn, Clear(k), job[j].conn # k
    PROVE  Clear(k)'
<1>0. JobsType /\ JobsKnow /\ WorkShape(j) /\ InRingOnce(k)
  BY WorkShapes DEF UpcallTypes, Clear, Once
<1>1. conn'[k] = conn[k]
  <2>1. CASE Decide(j)
    BY <2>1 DEF Decide
  <2>2. CASE job[j].pc \in OnSocket
    <3>1. Target(j) = job[j].conn
      BY <1>0, <2>2, WorkOwns DEF OwnInv, Numbered, JobsKnow, OnSocket
    <3> QED
      BY <1>0, <3>1 DEF WorkShape
  <2> QED
    BY <2>1, <2>2 DEF Work, Install, Shutdown, Close, OnSocket
<1>2. /\ answers'[k] = answers[k] /\ UNCHANGED <<cpu, ring>>
      /\ \A i \in Job : i # j => job'[i] = job[i]
      /\ job'[j].pc = "idle" \/ job'[j].conn # k
  BY <1>0 DEF WorkShape
<1>3. /\ \A c \in Cpu : Reporting(c, k)' => Reporting(c, k)
      /\ Queued(k)' => Queued(k)
      /\ InRingOnce(k)'
  BY <1>0, <1>2 DEF Reporting, Queued, InRingOnce
<1>4. \A i \in Job : (Has(i, k)' <=> Has(i, k)) /\ (Has(i, k) => job'[i] = job[i])
  BY <1>2 DEF Has
<1> QED
  BY <1>1, <1>2, <1>3, <1>4, FrameClear, SMT

\* No step gives a connection other ports.
LEMMA PortsStay ==
    ASSUME UpcallTypes, [UpcallNext]_upcallVars, NEW k \in Conn
    PROVE  conn'[k].ports = conn[k].ports
<1>0. JobsType /\ JobsKnow /\ conn \in [Conn -> Connection]
  BY DEF UpcallTypes, JobsType
<1>1. ASSUME NEW c \in Cpu, CpuStep(c) PROVE conn'[k].ports = conn[k].ports
  <2>1. \/ UNCHANGED conn
        \/ \E h \in Conn : conn[h].life = "new" /\ conn' = [conn EXCEPT ![h].life = "open"]
    BY <1>0, <1>1, CpuJobs
  <2> QED
    BY <1>0, <2>1, SMT DEF Connection
<1>2. ASSUME NEW j \in Job, NEW stage \in {"ulp", "tx", "rx"}, Install(j, stage)
      PROVE  conn'[k].ports = conn[k].ports
  <2>1. \/ UNCHANGED conn
        \/ Target(j) \in Conn /\ conn' = [conn EXCEPT ![Target(j)][stage] = TRUE]
    BY <1>0, <1>2, InstallJobs
  <2> QED
    BY <1>0, <2>1, StageType
<1>3. ASSUME NEW j \in Job, Shutdown(j) PROVE conn'[k].ports = conn[k].ports
  <2>1. conn'[k] = [conn[k] EXCEPT !.life = "shut"] \/ conn'[k] = conn[k]
    BY <1>0, <1>3, ShutdownJobs
  <2> QED
    BY <1>0, <2>1 DEF Connection
<1>4. CASE UNCHANGED conn
  BY <1>4
<1>5. ASSUME NEW j \in Job, JobStep(j) PROVE conn'[k].ports = conn[k].ports
  BY <1>2, <1>3, <1>4, <1>5 DEF JobStep, Loader, Event, Loaded, Ask, Repeat, Work, Decide, Close
<1> QED
  BY <1>1, <1>4, <1>5, SMT DEF UpcallNext, CpuStep, JobStep, upcallVars

\* Every step keeps the connections clear.
LEMMA StepEnf == EnfInv /\ [UpcallNext]_upcallVars => EnfInv'
<1> SUFFICES ASSUME EnfInv, [UpcallNext]_upcallVars, repeats' = 0,
                    NEW k \in Conn, conn'[k].ports
             PROVE  Clear(k)'
  BY StepOwns DEF EnfInv
<1>0. UpcallTypes /\ Owns /\ repeats \in Nat /\ conn[k].ports
  <2>1. UpcallTypes /\ Owns
    BY DEF EnfInv, OwnInv
  <2>2. repeats \in Nat
    BY <2>1, SMT DEF UpcallTypes, JobsType
  <2>3. conn'[k].ports = conn[k].ports
    BY <2>1, PortsStay
  <2> QED
    BY <2>1, <2>2, <2>3
<1>1. repeats = 0
  <2>1. UNCHANGED repeats \/ repeats' = repeats + 1
    BY DEF UpcallNext, upcallVars, Program, Handle, Submit, BumpLoad, BumpStore, Loader, Event,
       Loaded, Ask, Repeat, Work, Decide, Install, Shutdown, Close
  <2> QED
    BY <1>0, <2>1, SMT
<1>2. Clear(k)
  BY <1>0, <1>1 DEF EnfInv
<1>3. ASSUME NEW c \in Cpu, CpuStep(c) PROVE Clear(k)'
  BY <1>0, <1>2, <1>3, CpuClear
<1>4. ASSUME NEW j \in Job, Work(j) PROVE Clear(k)'
  <2>1. job[j].pc # "idle"
    BY <1>0, <1>4, WorkShapes DEF WorkShape, UpcallTypes
  <2>2. CASE job[j].conn = k
    BY <1>0, <1>1, <1>2, <1>4, <2>1, <2>2, OwnWorkClear, SMT DEF Has
  <2>3. CASE job[j].conn # k
    BY <1>0, <1>1, <1>2, <1>4, <2>3, OtherWorkClear, SMT
  <2> QED
    BY <2>2, <2>3
<1>5. ASSUME NEW j \in Job, JobStep(j) PROVE Clear(k)'
  BY <1>0, <1>2, <1>4, <1>5, ArrivalClear, SMT DEF JobStep
<1>6. CASE UNCHANGED upcallVars
  <2>1. UNCHANGED <<conn, answers, cpu, ring, job>>
    BY <1>6 DEF upcallVars, program, daemon
  <2>2. /\ \A c \in Cpu : Reporting(c, k)' <=> Reporting(c, k)
        /\ \A j \in Job : Has(j, k)' <=> Has(j, k)
        /\ (Queued(k)' <=> Queued(k)) /\ InRingOnce(k)'
    BY <1>2, <2>1 DEF Reporting, Has, Queued, InRingOnce, Clear, Once
  <2> QED
    BY <1>2, <2>1, <2>2, FrameClear
<1> QED
  BY <1>3, <1>5, <1>6 DEF UpcallNext, CpuStep, JobStep

\* For any number of connections, CPUs, jobs and numbers: as long as no upcall is
\* sent twice, ok is said only of a connection under kernel TLS in both
\* directions, and an answer leaves no half-bridged connection alive.
THEOREM OkCorrect == UpcallSpec => []OkMeansEnforced
<1>1. EnfInv => OkMeansEnforced
  BY DEF EnfInv, Clear, Enforced, OkMeansEnforced
<1> QED
  BY <1>1, InitEnf, StepEnf, PTL DEF UpcallSpec

=============================================================================
