---------------------------- MODULE ConfigReload ----------------------------
(***************************************************************************)
(* Hot reload of /etc/syntriass: the operator rewrites policy.toml and     *)
(* identity.toml, the reloader thread turns inotify events into a new      *)
(* RUNTIME_CONFIG and a new CONFIG_EPOCH and retires the idle sessions of  *)
(* older epochs, while application threads build sessions and use them.    *)
(*                                                                         *)
(* A descriptor has one application thread.  Of a session's buffers only   *)
(* whether one of them holds bytes (busy) matters here.                    *)
(***************************************************************************)
EXTENDS Integers

CONSTANTS
    Fd,           \* descriptors
    Suite,        \* suites a policy can name
    Default,      \* NistStandard768, used when no policy names a suite
    Identity,     \* well-formed identity files
    MaxWrites     \* bound: changes to the files

Bad == "bad"       \* a file that does not parse, and the error it reads as
Missing == "missing"  \* no file, or one that is truncated or all comments

ASSUME ReloadAssumption ==
    /\ Default \in Suite /\ Bad \notin Suite \cup Identity /\ Missing \notin Suite \cup Identity
    /\ MaxWrites \in Nat

VARIABLES
    files,     \* what /etc/syntriass holds
    writes,    \* changes made so far
    watched,   \* inotify_add_watch has succeeded
    events,    \* relevant inotify events not yet read
    unseen,    \* history: changes since the last event read that gave none
    config,    \* RUNTIME_CONFIG
    epoch,     \* CONFIG_EPOCH
    rl,        \* the reloader: where it is, the config it has read, whom to visit
    sess,      \* per descriptor, the FdState in the registry
    building,  \* per descriptor, the FdState its thread is building
    tpc,       \* per descriptor, where its thread is
    reglock    \* the thread that holds the registry lock across steps

disk == <<files, writes, events, unseen>>
reload == <<watched, config, epoch, rl>>
threads == <<sess, building, tpc, reglock>>
vars == <<disk, reload, threads>>

NoFd == "none"

Policy == Suite \cup {Bad}

Files == [policy : Policy \cup {Missing}, identity : Identity \cup {Bad, Missing}]

RuntimeConfig == [policy : Policy, identity : Identity \cup {Bad}]

Phase == {"untracked", "handshaking", "active", "failed"}

\* straddles, a history: a reload was published while the state was being built.
FdState == [phase : Phase, suite : Policy, epoch : Nat, busy : BOOLEAN, straddles : BOOLEAN]

Untracked ==
    [phase |-> "untracked", suite |-> Bad, epoch |-> 0, busy |-> FALSE, straddles |-> FALSE]

\* Mutant of read_policy: no default for a policy that names no suite.
read_policy_raw(p) == p

\* read_policy_from_sources and read_identity_config_from_sources.
read_policy(p) == IF p = Missing THEN Default ELSE p

read_identity(i) == IF i = Missing THEN Bad ELSE i

OnDisk == [policy |-> read_policy(files.policy), identity |-> read_identity(files.identity)]

Init ==
    /\ files \in [policy : Suite, identity : Identity]
    /\ writes = 0 /\ events = 0 /\ unseen = {}
    /\ watched = FALSE
    /\ config = OnDisk
    /\ epoch = 1
    /\ rl = [at |-> "wait", next |-> config, visit |-> {}]
    /\ sess = [f \in Fd |-> Untracked]
    /\ building = [f \in Fd |-> Untracked]
    /\ tpc = [f \in Fd |-> "idle"]
    /\ reglock = NoFd

-----------------------------------------------------------------------------
(* The operator and the kernel.                                            *)

Changed == writes < MaxWrites /\ writes' = writes + 1

\* A file is replaced, truncated or written to; the kernel queues an event if
\* the directory is watched.
Write ==
    /\ Changed
    /\ \/ \E p \in Policy \cup {Missing} : p # files.policy /\ files' = [files EXCEPT !.policy = p]
       \/ \E i \in Identity \cup {Bad, Missing} :
             i # files.identity /\ files' = [files EXCEPT !.identity = i]
    /\ IF watched THEN events' = events + 1 /\ UNCHANGED unseen
                  ELSE unseen' = unseen \cup {"unwatched"} /\ UNCHANGED events
    /\ UNCHANGED <<reload, threads>>

\* A change that makes no event is_relevant_config_event accepts: a file is
\* deleted or renamed away, or both are switched by a rename of the symbolic link
\* they are reached through, as the kubelet does with the Secret that
\* deploy/kubernetes/daemonset.yaml mounts there.
SilentChange ==
    /\ Changed
    /\ \E new \in Files : new # files /\ files' = new
    /\ unseen' = unseen \cup {"silent"}
    /\ UNCHANGED <<events, reload, threads>>

-----------------------------------------------------------------------------
(* The reloader thread.                                                    *)

Reloader(from, to) == rl.at = from /\ rl' = [rl EXCEPT !.at = to]

\* watch_config_dir_once, at thread start or after CONFIG_RELOAD_RETRY.
watch_config_dir ==
    /\ ~watched
    /\ watched' = TRUE
    /\ UNCHANGED <<disk, config, epoch, rl, threads>>

\* watch_config_dir_fd reads an event that is_relevant_config_event accepts.
TakeEvent ==
    /\ watched /\ events > 0
    /\ Reloader("wait", "identity")
    /\ events' = events - 1 /\ unseen' = {}
    /\ UNCHANGED <<files, writes, watched, config, epoch, threads>>

\* load_runtime_config reads identity.toml, then policy.toml.
LoadIdentity ==
    /\ rl.at = "identity"
    /\ rl' = [rl EXCEPT !.at = "policy", !.next.identity = OnDisk.identity]
    /\ UNCHANGED <<disk, watched, config, epoch, threads>>

LoadPolicy ==
    /\ rl.at = "policy"
    /\ rl' = [rl EXCEPT !.at = "publish", !.next.policy = OnDisk.policy]
    /\ UNCHANGED <<disk, watched, config, epoch, threads>>

Straddle(f) ==
    [building[f] EXCEPT !.straddles = @ \/ tpc[f] \in {"identity", "epoch", "insert", "track"}]

\* The end of reload_runtime_config.
Publish ==
    /\ Reloader("publish", "advance")
    /\ config' = rl.next
    /\ building' = [f \in Fd |-> Straddle(f)]
    /\ UNCHANGED <<disk, watched, epoch, sess, tpc, reglock>>

\* Mutant of advance_config_epoch: the epoch stays what it was.
advance_nothing ==
    /\ Reloader("advance", "collect")
    /\ UNCHANGED <<disk, watched, config, epoch, threads>>

advance_config_epoch ==
    /\ Reloader("advance", "collect")
    /\ epoch' = epoch + 1
    /\ UNCHANGED <<disk, watched, config, threads>>

\* retire_idle_sessions_for_new_config: the registry is copied under its lock.
Collect ==
    /\ reglock = NoFd
    /\ rl.at = "collect"
    /\ rl' = [rl EXCEPT !.at = "retire", !.visit = {f \in Fd : sess[f].phase # "untracked"}]
    /\ UNCHANGED <<disk, watched, config, epoch, threads>>

\* Mutant of Stale: buffered bytes do not count.
StaleEvenBusy(f) == sess[f].epoch # epoch

Stale(f) == sess[f].epoch # epoch /\ ~sess[f].busy

fail_closed(f) ==
    sess' = [sess EXCEPT ![f].phase = "failed", ![f].busy = FALSE, ![f].epoch = epoch]

\* Each state is visited; try_lock skips one that a call is using.
Retire(f) ==
    /\ rl.at = "retire" /\ f \in rl.visit
    /\ rl' = [rl EXCEPT !.visit = @ \ {f}]
    /\ IF tpc[f] # "call" /\ sess[f].phase # "untracked" /\ Stale(f)
       THEN fail_closed(f) ELSE UNCHANGED sess
    /\ UNCHANGED <<disk, watched, config, epoch, building, tpc, reglock>>


RetireDone ==
    /\ rl.visit = {}
    /\ Reloader("retire", "wait")
    /\ UNCHANGED <<disk, watched, config, epoch, threads>>

-----------------------------------------------------------------------------
(* The application threads.                                                *)

Goto(f, label) == tpc' = [tpc EXCEPT ![f] = label]

\* install_initiator_state reads the policy, then the identity, then builds
\* the state, whose constructor reads the epoch, then inserts it.
InstallPolicy(f) ==
    /\ tpc[f] = "idle" /\ sess[f].phase = "untracked"
    /\ building' = [building EXCEPT ![f] = [Untracked EXCEPT !.suite = config.policy]]
    /\ Goto(f, "identity")
    /\ UNCHANGED <<disk, reload, sess, reglock>>

InstallIdentity(f) ==
    /\ tpc[f] = "identity"
    /\ building' = [building EXCEPT ![f].phase =
           IF building[f].suite = Bad \/ config.identity = Bad THEN "failed" ELSE "handshaking"]
    /\ Goto(f, "epoch")
    /\ UNCHANGED <<disk, reload, sess, reglock>>

InstallEpoch(f) ==
    /\ tpc[f] = "epoch"
    /\ building' = [building EXCEPT ![f].epoch = epoch, ![f].busy = building[f].phase # "failed"]
    /\ Goto(f, "insert")
    /\ UNCHANGED <<disk, reload, sess, reglock>>

InstallInsert(f) ==
    /\ tpc[f] = "insert" /\ reglock = NoFd
    /\ sess' = [sess EXCEPT ![f] = building[f]]
    /\ building' = [building EXCEPT ![f] = Untracked]
    /\ Goto(f, "idle")
    /\ UNCHANGED <<disk, reload, reglock>>

\* ensure_tracked reads the policy and the epoch under the registry lock.
TrackPolicy(f) ==
    /\ tpc[f] = "idle" /\ sess[f].phase = "untracked" /\ reglock = NoFd
    /\ building' = [building EXCEPT ![f] = [Untracked EXCEPT !.suite = config.policy]]
    /\ reglock' = f
    /\ Goto(f, "track")
    /\ UNCHANGED <<disk, reload, sess>>

TrackInsert(f) ==
    /\ tpc[f] = "track"
    /\ sess' = [sess EXCEPT ![f] =
           [building[f] EXCEPT !.phase = IF building[f].suite = Bad THEN "failed" ELSE "handshaking",
                               !.epoch = epoch]]
    /\ building' = [building EXCEPT ![f] = Untracked]
    /\ reglock' = NoFd
    /\ Goto(f, "idle")
    /\ UNCHANGED <<disk, reload>>

\* Mutant of CallBegin: the epoch is not looked at.
CallBeginUnchecked(f) ==
    /\ tpc[f] = "idle" /\ sess[f].phase # "untracked"
    /\ Goto(f, "call")
    /\ UNCHANGED <<disk, reload, sess, building, reglock>>

\* overlay_send and overlay_recv: fail_if_stale_idle_config under the per-fd
\* lock, then the call proper, which keeps the lock until it returns.
CallBegin(f) ==
    /\ tpc[f] = "idle" /\ sess[f].phase # "untracked"
    /\ IF Stale(f) THEN fail_closed(f) /\ UNCHANGED tpc
                   ELSE Goto(f, "call") /\ UNCHANGED sess
    /\ UNCHANGED <<disk, reload, building, reglock>>

\* What a call leaves behind: a handshake may complete, which takes the
\* identity of the moment, or the session may fail.
CallEnd(f, busy) ==
    /\ tpc[f] = "call"
    /\ \/ /\ sess[f].phase \in {"handshaking", "active"}
          /\ sess' = [sess EXCEPT ![f].busy = busy]
       \/ /\ sess[f].phase = "handshaking" /\ config.identity # Bad
          /\ sess' = [sess EXCEPT ![f].phase = "active", ![f].busy = busy]
       \/ sess' = [sess EXCEPT ![f].phase = "failed", ![f].busy = FALSE]
    /\ Goto(f, "idle")
    /\ UNCHANGED <<disk, reload, building, reglock>>

close(f) ==
    /\ tpc[f] = "idle" /\ sess[f].phase # "untracked"
    /\ sess' = [sess EXCEPT ![f] = Untracked]
    /\ UNCHANGED <<disk, reload, building, tpc, reglock>>

-----------------------------------------------------------------------------
ReloaderStep ==
    \/ TakeEvent \/ LoadIdentity \/ LoadPolicy \/ Publish
    \/ advance_config_epoch \/ Collect \/ RetireDone
    \/ \E f \in Fd : Retire(f)

Building(f) == InstallIdentity(f) \/ InstallEpoch(f) \/ InstallInsert(f) \/ TrackInsert(f)

Next ==
    \/ Write \/ SilentChange \/ watch_config_dir \/ ReloaderStep
    \/ \E f \in Fd : \/ InstallPolicy(f) \/ TrackPolicy(f) \/ Building(f)
                     \/ CallBegin(f) \/ close(f)
                     \/ \E busy \in BOOLEAN : CallEnd(f, busy)

\* The threads run, a mutex that is released again and again is acquired, and
\* an application that uses a connection comes to a point where all it was
\* sent and all it wrote has been handed on.
Fairness ==
    /\ WF_vars(watch_config_dir) /\ SF_vars(ReloaderStep)
    /\ \A f \in Fd : /\ SF_vars(Building(f))
                     /\ WF_vars(CallBegin(f))
                     /\ WF_vars(\E busy \in BOOLEAN : CallEnd(f, busy))
                     /\ SF_vars(CallEnd(f, FALSE))

Spec == Init /\ [][Next]_vars

LiveSpec == Spec /\ Fairness

-----------------------------------------------------------------------------
ReloaderAt == {"wait", "identity", "policy", "publish", "advance", "collect", "retire"}

\* Every variable has its type; what is published is a configuration or an error.
TypeOK ==
    /\ files \in Files
    /\ writes \in 0..MaxWrites /\ events \in 0..writes /\ unseen \subseteq {"unwatched", "silent"}
    /\ watched \in BOOLEAN
    /\ config \in RuntimeConfig
    /\ epoch \in Nat
    /\ rl \in [at : ReloaderAt, next : RuntimeConfig, visit : SUBSET Fd]
    /\ sess \in [Fd -> FdState] /\ building \in [Fd -> FdState]
    /\ tpc \in [Fd -> {"idle", "identity", "epoch", "insert", "track", "call"}]
    /\ reglock \in Fd \cup {NoFd}

\* A reload never takes a session away from under a call, and never drops
\* bytes that are buffered for either side: only the session's own call can.
ReloadSparesBusy ==
    [][\A f \in Fd : (sess[f].busy \/ tpc[f] = "call") /\ sess'[f] # sess[f]
                        => tpc'[f] # tpc[f] \/ sess'[f].phase = "untracked"]_vars


\* The same without the first exception: "The runtime watches /etc/syntriass/ for
\* updates and reloads this file".
UpdatesLoaded == <>[](config = OnDisk \/ "silent" \in unseen)

\* A session of an older epoch does not survive: the reloader retires it, or
\* the first call that finds it idle does.
OldSessionsRetired ==
    \A f \in Fd :
        (sess[f].phase \in {"handshaking", "active"} /\ sess[f].epoch < epoch)
            ~> (sess[f].phase \in {"failed", "untracked"})

\* config_epoch is the "cryptographic config epoch used to establish this
\* session": with the reloader at rest, a session of the current epoch was
\* established under the current policy, unless its thread read the policy
\* before the reload was published and the epoch after.
EpochNamesConfig ==
    \A f \in Fd :
        /\ sess[f].phase \in {"handshaking", "active"} /\ ~sess[f].straddles
        /\ sess[f].epoch = epoch /\ rl.at = "wait"
        => sess[f].suite = config.policy

=============================================================================
