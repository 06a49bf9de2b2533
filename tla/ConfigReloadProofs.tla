------------------------- MODULE ConfigReloadProofs -------------------------
(***************************************************************************)
(* Proofs about ConfigReload, for any number of descriptors, suites,       *)
(* identities and changes: types, an epoch names one configuration, and a  *)
(* reload leaves busy sessions alone.                                      *)
(***************************************************************************)
EXTENDS ConfigReload, TLAPS

\* The leaves are logic and sets: Zenon proves them unless one names SMT.
USE ZenonT(20)

-----------------------------------------------------------------------------
(* Types.                                                                  *)

\* What the loader makes of the files is a configuration or an error.
LEMMA OnDiskType ==
    ASSUME files \in Files
    PROVE  OnDisk \in RuntimeConfig
BY ReloadAssumption DEF Files, OnDisk, RuntimeConfig, read_policy, read_identity, Policy

\* The fields of a state can be set one by one.
LEMMA FdStateFields ==
    ASSUME NEW x \in FdState
    PROVE  /\ \A p \in Phase : [x EXCEPT !.phase = p] \in FdState
           /\ \A b \in BOOLEAN : [x EXCEPT !.busy = b] \in FdState
           /\ \A b \in BOOLEAN : [x EXCEPT !.straddles = b] \in FdState
           /\ \A n \in Nat : [x EXCEPT !.epoch = n] \in FdState
BY DEF FdState

\* The state of a descriptor that is not in the registry.
LEMMA UntrackedType == Untracked \in FdState
BY DEF Untracked, FdState, Phase, Policy

\* fail_closed leaves states.
LEMMA FailClosedType ==
    ASSUME TypeOK, NEW f \in Fd, fail_closed(f)
    PROVE  /\ sess' \in [Fd -> FdState]
           /\ sess'[f] = [sess[f] EXCEPT !.phase = "failed", !.busy = FALSE, !.epoch = epoch]
           /\ \A g \in Fd : g # f => sess'[g] = sess[g]
<1> DEFINE x == [sess[f] EXCEPT !.phase = "failed", !.busy = FALSE, !.epoch = epoch]
<1>1. sess \in [Fd -> FdState] /\ epoch \in Nat
  BY DEF TypeOK
<1>2. x \in FdState
  BY <1>1 DEF FdState, Phase
<1>3. sess' = [sess EXCEPT ![f] = x]
  BY <1>1 DEF fail_closed
<1> HIDE DEF x
<1>4. sess' \in [Fd -> FdState] /\ sess'[f] = x /\ \A g \in Fd : g # f => sess'[g] = sess[g]
  BY <1>1, <1>2, <1>3
<1> QED
  BY <1>4 DEF x

\* Every initial state has the types.
LEMMA InitType == Init => TypeOK
<1> SUFFICES ASSUME Init PROVE TypeOK
  OBVIOUS
<1>1. files \in Files
  BY DEF Init, Files, Policy
<1>2. config \in RuntimeConfig
  BY <1>1, OnDiskType DEF Init
<1>3. rl \in [at : ReloaderAt, next : RuntimeConfig, visit : SUBSET Fd]
  BY <1>2 DEF Init, ReloaderAt
<1>4. sess \in [Fd -> FdState] /\ building \in [Fd -> FdState]
  BY UntrackedType DEF Init
<1>5. watched \in BOOLEAN
  BY DEF Init
<1>6. /\ writes \in 0..MaxWrites /\ events \in 0..writes /\ unseen \subseteq {"unwatched", "silent"}
      /\ epoch \in Nat
      /\ tpc \in [Fd -> {"idle", "identity", "epoch", "insert", "track", "call"}]
      /\ reglock \in Fd \cup {NoFd}
  BY ReloadAssumption, SMT DEF Init
<1> QED
  BY <1>1, <1>2, <1>3, <1>4, <1>5, <1>6 DEF TypeOK

\* A step of the operator keeps the types.
LEMMA OperatorType == TypeOK /\ (Write \/ SilentChange) => TypeOK'
<1> SUFFICES ASSUME TypeOK, Write \/ SilentChange PROVE TypeOK'
  OBVIOUS
<1>1. files' \in Files
  BY DEF TypeOK, Write, SilentChange, Files
<1>2. /\ writes' \in 0..MaxWrites /\ events' \in 0..writes'
  BY ReloadAssumption, SMT DEF TypeOK, Write, SilentChange, Changed
<1>3. unseen' \subseteq {"unwatched", "silent"}
  BY DEF TypeOK, Write, SilentChange
<1>4. UNCHANGED <<reload, threads>>
  BY DEF Write, SilentChange
<1> QED
  BY <1>1, <1>2, <1>3, <1>4 DEF TypeOK, reload, threads

\* A step of the reloader keeps the types.
LEMMA ReloaderType == TypeOK /\ (watch_config_dir \/ ReloaderStep) => TypeOK'
<1> SUFFICES ASSUME TypeOK, watch_config_dir \/ ReloaderStep PROVE TypeOK'
  OBVIOUS
<1>0. OnDisk \in RuntimeConfig
  BY OnDiskType DEF TypeOK
<1>1. CASE watch_config_dir
  BY <1>1 DEF TypeOK, watch_config_dir, disk, threads
<1>2. CASE TakeEvent
  <2>1. events' \in 0..writes
    BY <1>2, SMT DEF TakeEvent, TypeOK
  <2>2. rl' \in [at : ReloaderAt, next : RuntimeConfig, visit : SUBSET Fd]
    BY <1>2 DEF TakeEvent, TypeOK, Reloader, ReloaderAt
  <2> QED
    BY <1>2, <2>1, <2>2 DEF TakeEvent, TypeOK, threads
<1>3. CASE LoadIdentity
  <2>1. rl' \in [at : ReloaderAt, next : RuntimeConfig, visit : SUBSET Fd]
    BY <1>3, <1>0 DEF LoadIdentity, TypeOK, RuntimeConfig, ReloaderAt
  <2> QED
    BY <1>3, <2>1 DEF LoadIdentity, TypeOK, disk, threads
<1>4. CASE LoadPolicy
  <2>1. rl' \in [at : ReloaderAt, next : RuntimeConfig, visit : SUBSET Fd]
    BY <1>4, <1>0 DEF LoadPolicy, TypeOK, RuntimeConfig, ReloaderAt
  <2> QED
    BY <1>4, <2>1 DEF LoadPolicy, TypeOK, disk, threads
<1>5. CASE Publish
  <2>1. rl' \in [at : ReloaderAt, next : RuntimeConfig, visit : SUBSET Fd] /\ config' \in RuntimeConfig
    BY <1>5 DEF Publish, TypeOK, Reloader, ReloaderAt
  <2>2. ASSUME NEW f \in Fd PROVE Straddle(f) \in FdState
    <3>1. building[f] \in FdState
      BY DEF TypeOK
    <3>2. (building[f].straddles \/ tpc[f] \in {"identity", "epoch", "insert", "track"}) \in BOOLEAN
      OBVIOUS
    <3> QED
      BY <3>1, <3>2, FdStateFields DEF Straddle
  <2>3. building' \in [Fd -> FdState]
    BY <1>5, <2>2 DEF Publish
  <2> QED
    BY <1>5, <2>1, <2>3 DEF Publish, TypeOK, disk
<1>6. CASE advance_config_epoch
  <2>1. rl' \in [at : ReloaderAt, next : RuntimeConfig, visit : SUBSET Fd] /\ epoch' \in Nat
    BY <1>6, SMT DEF advance_config_epoch, TypeOK, Reloader, ReloaderAt
  <2> QED
    BY <1>6, <2>1 DEF advance_config_epoch, TypeOK, disk, threads
<1>7. CASE Collect
  <2>1. rl' \in [at : ReloaderAt, next : RuntimeConfig, visit : SUBSET Fd]
    BY <1>7 DEF Collect, TypeOK, ReloaderAt
  <2> QED
    BY <1>7, <2>1 DEF Collect, TypeOK, disk, threads
<1>8. CASE RetireDone
  <2>1. rl' \in [at : ReloaderAt, next : RuntimeConfig, visit : SUBSET Fd]
    BY <1>8 DEF RetireDone, TypeOK, Reloader, ReloaderAt
  <2> QED
    BY <1>8, <2>1 DEF RetireDone, TypeOK, disk, threads
<1>9. ASSUME NEW f \in Fd, Retire(f) PROVE TypeOK'
  <2>1. rl' \in [at : ReloaderAt, next : RuntimeConfig, visit : SUBSET Fd]
    BY <1>9 DEF Retire, TypeOK, ReloaderAt
  <2>2. sess' \in [Fd -> FdState]
    BY <1>9, FailClosedType DEF Retire, TypeOK
  <2> QED
    BY <1>9, <2>1, <2>2 DEF Retire, TypeOK, disk
<1> QED
  BY <1>1, <1>2, <1>3, <1>4, <1>5, <1>6, <1>7, <1>8, <1>9 DEF ReloaderStep

AppStep(f) ==
    \/ InstallPolicy(f) \/ TrackPolicy(f) \/ Building(f) \/ CallBegin(f) \/ close(f)
    \/ \E busy \in BOOLEAN : CallEnd(f, busy)

\* A step of an application thread keeps the types.
LEMMA ThreadType ==
    ASSUME TypeOK, NEW f \in Fd, AppStep(f)
    PROVE  TypeOK'
<1> DEFINE Label == {"idle", "identity", "epoch", "insert", "track", "call"}
<1>0. /\ sess \in [Fd -> FdState] /\ building \in [Fd -> FdState] /\ tpc \in [Fd -> Label]
      /\ config \in RuntimeConfig /\ epoch \in Nat /\ reglock \in Fd \cup {NoFd}
  BY DEF TypeOK
<1>1. SUFFICES /\ sess' \in [Fd -> FdState] /\ building' \in [Fd -> FdState]
               /\ tpc' \in [Fd -> Label] /\ reglock' \in Fd \cup {NoFd}
               /\ UNCHANGED <<disk, reload>>
  BY DEF TypeOK, disk, reload
<1>2. ASSUME InstallPolicy(f) \/ TrackPolicy(f)
      PROVE  [Untracked EXCEPT !.suite = config.policy] \in FdState
  BY <1>0 DEF Untracked, FdState, Phase, RuntimeConfig
<1>3. CASE InstallPolicy(f)
  BY <1>0, <1>2, <1>3 DEF InstallPolicy, Goto
<1>4. CASE TrackPolicy(f)
  BY <1>0, <1>2, <1>4 DEF TrackPolicy, Goto
<1>5. CASE InstallIdentity(f)
  <2>1. \E p \in Phase : building' = [building EXCEPT ![f].phase = p]
    BY <1>5 DEF InstallIdentity, Phase
  <2>2. building' \in [Fd -> FdState]
    BY <1>0, <2>1, FdStateFields, SMT
  <2> QED
    BY <1>0, <1>5, <2>2 DEF InstallIdentity, Goto
<1>6. CASE InstallEpoch(f)
  <2> DEFINE b == building[f].phase # "failed"
             x == [building[f] EXCEPT !.epoch = epoch, !.busy = b]
  <2>1. b \in BOOLEAN
    OBVIOUS
  <2> HIDE DEF b
  <2>2. x \in FdState
    BY <1>0, <2>1 DEF FdState
  <2>3. building' = [building EXCEPT ![f] = x]
    BY <1>0, <1>6 DEF InstallEpoch, b
  <2> HIDE DEF x
  <2>4. building' \in [Fd -> FdState]
    BY <1>0, <2>2, <2>3
  <2> QED
    BY <1>0, <1>6, <2>4 DEF InstallEpoch, Goto
<1>7. CASE InstallInsert(f)
  BY <1>0, <1>7, UntrackedType DEF InstallInsert, Goto
<1>8. CASE TrackInsert(f)
  <2> DEFINE p == IF building[f].suite = Bad THEN "failed" ELSE "handshaking"
             x == [building[f] EXCEPT !.phase = p, !.epoch = epoch]
  <2>1. p \in Phase
    BY DEF Phase
  <2>2. x \in FdState
    BY <1>0, <2>1 DEF FdState
  <2>3. sess' = [sess EXCEPT ![f] = x]
    BY <1>8 DEF TrackInsert
  <2> HIDE DEF x
  <2> QED
    BY <1>0, <1>8, <2>2, <2>3, UntrackedType DEF TrackInsert, Goto
<1>9. CASE CallBegin(f)
  BY <1>0, <1>9, FailClosedType DEF CallBegin, Goto
<1>10. CASE close(f)
  BY <1>0, <1>10, UntrackedType DEF close
<1>11. ASSUME NEW busy \in BOOLEAN, CallEnd(f, busy)
       PROVE  /\ sess' \in [Fd -> FdState] /\ tpc' \in [Fd -> Label]
              /\ UNCHANGED <<building, reglock, disk, reload>>
  <2>1. \E x \in FdState : sess' = [sess EXCEPT ![f] = x]
    <3>1. sess[f] \in FdState
      BY <1>0
    <3>2. CASE sess' = [sess EXCEPT ![f].busy = busy]
      <4>1. [sess[f] EXCEPT !.busy = busy] \in FdState
        BY <3>1, FdStateFields
      <4> QED
        BY <3>2, <4>1
    <3>3. CASE sess' = [sess EXCEPT ![f].phase = "active", ![f].busy = busy]
      <4>1. [sess[f] EXCEPT !.phase = "active", !.busy = busy] \in FdState
        BY <3>1 DEF FdState, Phase
      <4>2. sess' = [sess EXCEPT ![f] = [sess[f] EXCEPT !.phase = "active", !.busy = busy]]
        BY <1>0, <3>3
      <4> QED
        BY <4>1, <4>2
    <3>4. CASE sess' = [sess EXCEPT ![f].phase = "failed", ![f].busy = FALSE]
      <4>1. [sess[f] EXCEPT !.phase = "failed", !.busy = FALSE] \in FdState
        BY <3>1 DEF FdState, Phase
      <4>2. sess' = [sess EXCEPT ![f] = [sess[f] EXCEPT !.phase = "failed", !.busy = FALSE]]
        BY <1>0, <3>4
      <4> QED
        BY <4>1, <4>2
    <3> QED
      BY <1>11, <3>2, <3>3, <3>4 DEF CallEnd
  <2> QED
    BY <1>0, <1>11, <2>1 DEF CallEnd, Goto
<1> QED
  BY <1>0, <1>3, <1>4, <1>5, <1>6, <1>7, <1>8, <1>9, <1>10, <1>11 DEF AppStep, Building

\* Every step keeps the types.
LEMMA StepType == TypeOK /\ [Next]_vars => TypeOK'
<1> SUFFICES ASSUME TypeOK, [Next]_vars PROVE TypeOK'
  OBVIOUS
<1>1. CASE Write \/ SilentChange
  BY <1>1, OperatorType
<1>2. CASE watch_config_dir \/ ReloaderStep
  BY <1>2, ReloaderType
<1>3. ASSUME NEW f \in Fd, AppStep(f) PROVE TypeOK'
  BY <1>3, ThreadType
<1>4. CASE UNCHANGED vars
  BY <1>4 DEF TypeOK, vars, disk, reload, threads
<1> QED
  BY <1>1, <1>2, <1>3, <1>4 DEF Next, AppStep

\* For any number of descriptors and changes, what the reloader publishes is a
\* configuration or an error and every session state is well formed.
THEOREM TypeCorrect == Spec => []TypeOK
<1>1. Init => TypeOK
  BY InitType
<1>2. TypeOK /\ [Next]_vars => TypeOK'
  BY StepType
<1> QED
  BY <1>1, <1>2, PTL DEF Spec

-----------------------------------------------------------------------------
(* What an epoch stands for.  Between Publish and advance_config_epoch the *)
(* epoch is that of the configuration before, so nothing is said of it     *)
(* there; no state has an epoch that is still to come, so the step that    *)
(* advances it makes every state one of an older epoch.                    *)

Policies(f) ==
    /\ sess[f].epoch <= epoch /\ building[f].epoch <= epoch
    /\ (/\ rl.at # "advance" /\ sess[f].phase \in {"handshaking", "active"}
        /\ ~sess[f].straddles /\ sess[f].epoch = epoch)
       => sess[f].suite = config.policy
    /\ (tpc[f] \in {"identity", "epoch", "track"} /\ ~building[f].straddles)
       => building[f].suite = config.policy
    /\ (/\ tpc[f] = "insert" /\ rl.at # "advance"
        /\ ~building[f].straddles /\ building[f].epoch = epoch)
       => building[f].suite = config.policy

EpochInv == TypeOK /\ \A f \in Fd : Policies(f)

\* Nothing has been read or built yet.
LEMMA InitEpoch == Init => EpochInv
<1> SUFFICES ASSUME Init, NEW f \in Fd PROVE Policies(f)
  BY InitType DEF EpochInv
<1> QED
  BY SMT DEF Init, Policies, Untracked

\* A step that leaves a descriptor's states, the configuration and the epoch
\* alone, and does not move the reloader past the advance, keeps Policies.
LEMMA FramePolicies ==
    ASSUME NEW f \in Fd, Policies(f),
           sess'[f] = sess[f], building'[f] = building[f], tpc'[f] = tpc[f],
           UNCHANGED <<config, epoch>>, rl.at = "advance" => rl'.at = "advance"
    PROVE  Policies(f)'
BY DEF Policies

\* The operator and the kernel do not touch what Policies is about.
LEMMA OperatorEpoch ==
    ASSUME EpochInv, Write \/ SilentChange
    PROVE  \A f \in Fd : Policies(f)'
BY FramePolicies DEF EpochInv, Write, SilentChange, reload, threads

\* The reloader: states that were being built when it published are marked, and
\* all states are of an older epoch once it has advanced.
LEMMA ReloaderEpoch ==
    ASSUME EpochInv, watch_config_dir \/ ReloaderStep, NEW g \in Fd
    PROVE  Policies(g)'
<1>0. /\ Policies(g) /\ sess \in [Fd -> FdState] /\ building \in [Fd -> FdState]
      /\ rl \in [at : ReloaderAt, next : RuntimeConfig, visit : SUBSET Fd] /\ epoch \in Nat
  BY DEF EpochInv, TypeOK
<1>1. CASE watch_config_dir
  BY <1>0, <1>1, FramePolicies DEF watch_config_dir, threads
<1>2. CASE TakeEvent \/ LoadIdentity \/ LoadPolicy \/ Collect \/ RetireDone
  <2>1. /\ rl.at # "advance"
        /\ UNCHANGED <<config, epoch, sess, building, tpc>>
    BY <1>2 DEF TakeEvent, LoadIdentity, LoadPolicy, Collect, RetireDone, Reloader, threads
  <2> QED
    BY <1>0, <2>1, FramePolicies
<1>3. CASE Publish
  <2>1. /\ rl'.at = "advance" /\ building' = [f \in Fd |-> Straddle(f)]
        /\ UNCHANGED <<epoch, sess, tpc>>
    BY <1>0, <1>3 DEF Publish, Reloader
  <2>2. building'[g].epoch = building[g].epoch
    BY <1>0, <2>1 DEF Straddle, FdState
  <2>3. tpc[g] \in {"identity", "epoch", "insert", "track"} => building'[g].straddles
    BY <1>0, <2>1 DEF Straddle, FdState
  <2> QED
    BY <1>0, <2>1, <2>2, <2>3 DEF Policies
<1>4. CASE advance_config_epoch
  <2>1. /\ rl.at = "advance" /\ epoch' = epoch + 1
        /\ UNCHANGED <<config, sess, building, tpc>>
    BY <1>4 DEF advance_config_epoch, Reloader, threads
  <2>2. sess[g].epoch \in Nat /\ building[g].epoch \in Nat
    BY <1>0 DEF FdState
  <2> QED
    BY <1>0, <2>1, <2>2, SMT DEF Policies
<1>5. ASSUME NEW f \in Fd, Retire(f) PROVE Policies(g)'
  <2>1. /\ rl.at # "advance" /\ UNCHANGED <<config, epoch, building, tpc>>
        /\ fail_closed(f) \/ UNCHANGED sess
    BY <1>5 DEF Retire
  <2>2. CASE sess'[g] = sess[g]
    BY <1>0, <2>1, <2>2, FramePolicies
  <2>3. CASE sess'[g].phase = "failed" /\ sess'[g].epoch = epoch
    BY <1>0, <2>1, <2>3, SMT DEF Policies
  <2> QED
    BY <1>0, <2>1, <2>2, <2>3, SMT DEF fail_closed, FdState
<1> QED
  BY <1>1, <1>2, <1>3, <1>4, <1>5 DEF ReloaderStep

\* An application thread stores the policy it reads with the epoch it reads, and
\* what it does to a session afterwards changes neither.
LEMMA ThreadEpoch ==
    ASSUME EpochInv, NEW f \in Fd, AppStep(f), NEW g \in Fd
    PROVE  Policies(g)'
<1>0. /\ Policies(f) /\ Policies(g)
      /\ sess \in [Fd -> FdState] /\ building \in [Fd -> FdState] /\ epoch \in Nat
      /\ tpc \in [Fd -> {"idle", "identity", "epoch", "insert", "track", "call"}]
  BY DEF EpochInv, TypeOK
<1>1. UNCHANGED <<config, epoch, rl>>
  BY DEF AppStep, Building, InstallPolicy, InstallIdentity, InstallEpoch, InstallInsert,
         TrackPolicy, TrackInsert, CallBegin, CallEnd, close, reload
<1>2. CASE g # f
  <2>1. sess'[g] = sess[g] /\ building'[g] = building[g] /\ tpc'[g] = tpc[g]
    BY <1>0, <1>2 DEF AppStep, Building, InstallPolicy, InstallIdentity, InstallEpoch,
       InstallInsert, TrackPolicy, TrackInsert, CallBegin, CallEnd, close, fail_closed, Goto
  <2> QED
    BY <1>0, <1>1, <2>1, FramePolicies
<1>3. SUFFICES Policies(f)'
  BY <1>2
<1>4. CASE InstallPolicy(f) \/ TrackPolicy(f)
  <2>1. /\ sess' = sess /\ tpc'[f] \in {"identity", "track"}
        /\ building'[f] = [Untracked EXCEPT !.suite = config.policy]
    BY <1>0, <1>4 DEF InstallPolicy, TrackPolicy, Goto
  <2>2. building'[f].epoch = 0 /\ building'[f].suite = config.policy
    BY <2>1 DEF Untracked
  <2> QED
    BY <1>0, <1>1, <2>1, <2>2, SMT DEF Policies
<1>5. CASE InstallIdentity(f)
  <2>1. /\ sess' = sess /\ tpc[f] = "identity" /\ tpc'[f] = "epoch"
        /\ building'[f].epoch = building[f].epoch /\ building'[f].suite = building[f].suite
        /\ building'[f].straddles = building[f].straddles
    BY <1>0, <1>5 DEF InstallIdentity, Goto, FdState
  <2> QED
    BY <1>0, <1>1, <2>1 DEF Policies
<1>6. CASE InstallEpoch(f)
  <2>1. /\ sess' = sess /\ tpc[f] = "epoch" /\ tpc'[f] = "insert"
        /\ building'[f].epoch = epoch /\ building'[f].suite = building[f].suite
        /\ building'[f].straddles = building[f].straddles
    BY <1>0, <1>6, SMT DEF InstallEpoch, Goto, FdState
  <2> QED
    BY <1>0, <1>1, <2>1, SMT DEF Policies
<1>7. CASE InstallInsert(f)
  <2>1. /\ sess'[f] = building[f] /\ tpc[f] = "insert" /\ tpc'[f] = "idle"
        /\ building'[f].epoch = 0
    BY <1>0, <1>7 DEF InstallInsert, Goto, Untracked
  <2> QED
    BY <1>0, <1>1, <2>1, SMT DEF Policies
<1>8. CASE TrackInsert(f)
  <2>1. /\ tpc[f] = "track" /\ tpc'[f] = "idle" /\ building'[f].epoch = 0
        /\ sess'[f].epoch = epoch /\ sess'[f].suite = building[f].suite
        /\ sess'[f].straddles = building[f].straddles
    BY <1>0, <1>8 DEF TrackInsert, Goto, Untracked, FdState
  <2> QED
    BY <1>0, <1>1, <2>1, SMT DEF Policies
<1>9. CASE CallBegin(f) \/ close(f)
  <2>1. /\ building' = building /\ tpc[f] = "idle" /\ tpc'[f] \in {"idle", "call"}
        /\ \/ sess'[f] = sess[f]
           \/ sess'[f].phase \in {"failed", "untracked"} /\ sess'[f].epoch \in {epoch, 0}
    BY <1>0, <1>9, SMT DEF CallBegin, close, fail_closed, Goto, Untracked, FdState
  <2> QED
    BY <1>0, <1>1, <2>1, SMT DEF Policies
<1>10. ASSUME NEW busy \in BOOLEAN, CallEnd(f, busy) PROVE Policies(f)'
  <2>1. /\ building' = building /\ tpc'[f] = "idle"
        /\ sess'[f].epoch = sess[f].epoch /\ sess'[f].suite = sess[f].suite
        /\ sess'[f].straddles = sess[f].straddles
        /\ sess'[f].phase \in {"handshaking", "active"}
              => sess[f].phase \in {"handshaking", "active"}
    BY <1>0, <1>10, SMT DEF CallEnd, Goto, FdState
  <2> QED
    BY <1>0, <1>1, <2>1 DEF Policies
<1> QED
  BY <1>4, <1>5, <1>6, <1>7, <1>8, <1>9, <1>10 DEF AppStep, Building

\* For any number of descriptors and changes: with the reloader at rest, a
\* session of the current epoch runs the suite of the current policy, unless its
\* thread was between its two reads when the configuration was replaced.
THEOREM EpochCorrect == Spec => []EpochNamesConfig
<1>1. Init => EpochInv
  BY InitEpoch
<1>2. EpochInv /\ [Next]_vars => EpochInv'
  <2> SUFFICES ASSUME EpochInv, [Next]_vars, NEW g \in Fd PROVE Policies(g)'
    BY StepType DEF EpochInv
  <2>1. CASE Write \/ SilentChange
    BY <2>1, OperatorEpoch
  <2>2. CASE watch_config_dir \/ ReloaderStep
    BY <2>2, ReloaderEpoch
  <2>3. ASSUME NEW f \in Fd, AppStep(f) PROVE Policies(g)'
    BY <2>3, ThreadEpoch
  <2>4. CASE UNCHANGED vars
    BY <2>4, FramePolicies DEF EpochInv, vars, reload, threads
  <2> QED
    BY <2>1, <2>2, <2>3, <2>4 DEF Next, AppStep
<1>3. EpochInv => EpochNamesConfig
  BY DEF EpochInv, Policies, EpochNamesConfig
<1> QED
  BY <1>1, <1>2, <1>3, PTL DEF Spec

-----------------------------------------------------------------------------
Spared(f) ==
    (sess[f].busy \/ tpc[f] = "call") /\ sess'[f] # sess[f]
        => tpc'[f] # tpc[f] \/ sess'[f].phase = "untracked"

\* The reloader fails a session only when no call holds it and it is idle.
LEMMA ReloaderSpares ==
    ASSUME TypeOK, Write \/ SilentChange \/ watch_config_dir \/ ReloaderStep, NEW g \in Fd
    PROVE  Spared(g)
<1>0. sess \in [Fd -> FdState]
  BY DEF TypeOK
<1>1. CASE UNCHANGED sess
  BY <1>1 DEF Spared
<1>2. ASSUME NEW f \in Fd, Retire(f), ~UNCHANGED sess PROVE Spared(g)
  <2>1. tpc[f] # "call" /\ ~sess[f].busy /\ fail_closed(f)
    BY <1>2 DEF Retire, Stale
  <2>2. g # f => sess'[g] = sess[g]
    BY <1>0, <2>1 DEF fail_closed
  <2> QED
    BY <2>1, <2>2 DEF Spared
<1> QED
  BY <1>1, <1>2 DEF Write, SilentChange, watch_config_dir, ReloaderStep, TakeEvent, LoadIdentity,
     LoadPolicy, Publish, advance_config_epoch, Collect, RetireDone, threads

\* A thread changes only its own session: it moves on, closes it, or finds it
\* idle and of an older configuration.
LEMMA ThreadSpares ==
    ASSUME TypeOK, NEW f \in Fd, AppStep(f), NEW g \in Fd
    PROVE  Spared(g)
<1>0. sess \in [Fd -> FdState] /\ tpc \in [Fd -> {"idle", "identity", "epoch", "insert", "track", "call"}]
  BY DEF TypeOK
<1>1. g # f => sess'[g] = sess[g]
  BY <1>0 DEF AppStep, Building, InstallPolicy, InstallIdentity, InstallEpoch, InstallInsert,
     TrackPolicy, TrackInsert, CallBegin, CallEnd, close, fail_closed
<1>2. CASE close(f)
  BY <1>0, <1>1, <1>2 DEF close, Spared, Untracked
<1>3. CASE CallBegin(f)
  <2>1. tpc'[f] # tpc[f] \/ (tpc[f] # "call" /\ ~sess[f].busy)
    BY <1>0, <1>3 DEF CallBegin, Stale, Goto
  <2> QED
    BY <1>1, <2>1 DEF Spared
<1>4. CASE ~close(f) /\ ~CallBegin(f)
  <2>1. tpc'[f] # tpc[f]
    BY <1>0, <1>4 DEF AppStep, Building, InstallPolicy, InstallIdentity, InstallEpoch,
       InstallInsert, TrackPolicy, TrackInsert, CallEnd, Goto
  <2> QED
    BY <1>1, <2>1 DEF Spared
<1> QED
  BY <1>2, <1>3, <1>4

\* For any number of descriptors and changes, no reload takes a session away from
\* under a call or drops bytes buffered in one.
THEOREM ReloadSpares == Spec => ReloadSparesBusy
<1>1. TypeOK /\ [Next]_vars => [\A f \in Fd : Spared(f)]_vars
  <2> SUFFICES ASSUME TypeOK, Next, NEW g \in Fd PROVE Spared(g)
    OBVIOUS
  <2>1. CASE Write \/ SilentChange \/ watch_config_dir \/ ReloaderStep
    BY <2>1, ReloaderSpares
  <2>2. ASSUME NEW f \in Fd, AppStep(f) PROVE Spared(g)
    BY <2>2, ThreadSpares
  <2> QED
    BY <2>1, <2>2 DEF Next, AppStep
<1>2. Spec => [][\A f \in Fd : Spared(f)]_vars
  BY <1>1, TypeCorrect, PTL DEF Spec
<1> QED
  BY <1>2 DEF ReloadSparesBusy, Spared

=============================================================================
