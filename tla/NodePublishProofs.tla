------------------------- MODULE NodePublishProofs -------------------------
(***************************************************************************)
(* Theorems about NodePublish, proved with TLAPS for every value of the    *)
(* constants, when the CO sends the requests of a volume one at a time.    *)
(***************************************************************************)
EXTENDS NodePublish, NodeServerMountProofs

USE ConstAssumption, COTimeoutsAssumption

WorkerPCs == StagePCs \cup UnstagePCs

(***************************************************************************)
(* A stage or unstage step of worker p moves only p's pc, within the      *)
(* stage and unstage steps or back to idle, and keeps every request's     *)
(* volume.                                                                 *)
(***************************************************************************)
LEMMA WorkerFrame ==
  ASSUME TypeOK, NEW p \in Procs, Worker(p) \/ StageMountReturn(p)
  PROVE  /\ pc[p] \in WorkerPCs
         /\ pc' = [pc EXCEPT ![p] = pc'[p]]
         /\ pc'[p] \in {"idle"} \cup WorkerPCs
         /\ vol' = vol
<1> USE DEF TypeOK, WorkerPCs, StagePCs, UnstagePCs, Goto, Finish
<1>1. CASE StageAcquire(p) \/ EnsureCacheWrite(p) \/ EnsureCacheStat(p)
           \/ EnsureCacheRemove(p) \/ EnsureCacheSymlink(p)
  BY <1>1 DEF StageAcquire, EnsureCacheWrite, EnsureCacheStat,
              EnsureCacheRemove, EnsureCacheSymlink
<1>2. CASE StageMkdir(p) \/ StageProbe(p) \/ StageMountReturn(p)
  BY <1>2 DEF StageMkdir, StageProbe, StageMountReturn
<1>3. CASE UnstageAcquire(p) \/ UnstageCleanup(p) \/ DeleteCacheStart(p)
  BY <1>3 DEF UnstageAcquire, UnstageCleanup, DeleteCacheStart
<1>4. CASE DeleteCacheScan(p) \/ DeleteCacheRemoveLink(p) \/ DeleteCacheRemoveFile(p)
  BY <1>4 DEF DeleteCacheScan, DeleteCacheRemoveLink, DeleteCacheRemoveFile
<1>5. QED
  BY <1>1, <1>2, <1>3, <1>4 DEF Worker

(***************************************************************************)
(* The inductive invariant behind TargetNeverStacked.  A publish binds     *)
(* only a target its probe left as a bare directory, and as long as it is  *)
(* about to bind no other call of the same volume runs, so the directory   *)
(* is still bare when the bind happens.                                    *)
(***************************************************************************)
OneCallPerVolume ==
    \A p, q \in Procs :
        p # q /\ pc[p] # "idle" /\ pc[q] # "idle" => vol[p] # vol[q]

BindingOntoDir == \A p \in Procs : pc[p] = "p_mount" => target[vol[p]] = "dir"

PubIInv ==
    /\ TypeOK
    /\ target \in [Volumes -> PathStates]
    /\ OneCallPerVolume
    /\ BindingOntoDir
    /\ TargetNeverStacked

LEMMA InitPubIInv == PubInit => PubIInv
  BY InitTypeOK DEF PubInit, Init, PubIInv, PathStates, OneCallPerVolume,
     BindingOntoDir, TargetNeverStacked

\* Binding a source that exists onto a bare directory never stacks.
LEMMA BindOntoDir ==
  ASSUME NEW s \in PathStates, s # "absent"
  PROVE  BindOnto("dir", s) \in PathStates \ {"stacked"}
  BY DEF BindOnto, BindView, PathStates

(***************************************************************************)
(* Every step keeps PubIInv, given that the CO waits for answers.  A      *)
(* request is sent only for a volume without a call in flight; a stage or *)
(* unstage step never reaches p_mount and leaves target alone; a publish  *)
(* or unpublish step changes only its own volume's target.                *)
(***************************************************************************)
LEMMA NextPubIInv == ~COTimeouts /\ PubIInv /\ [PubNext]_allvars => PubIInv'
<1> SUFFICES ASSUME ~COTimeouts, PubIInv, [PubNext]_allvars PROVE PubIInv'
  OBVIOUS
<1> USE DEF PubIInv, TypeOK, PCs, PubPCs, WorkerPCs, StagePCs, UnstagePCs, PathStates
<1>1. ASSUME NEW p \in Procs, NEW v \in Volumes,
             \/ COMaySend(v) /\ StageRequest(p, v) /\ UNCHANGED pubvars
             \/ COMaySend(v) /\ UnstageRequest(p, v) /\ UNCHANGED pubvars
             \/ PublishRequest(p, v) \/ UnpublishRequest(p, v)
      PROVE  PubIInv'
  <2> DEFINE Effect(l) ==
             /\ pc[p] = "idle"
             /\ COIdle(v)
             /\ pc' = [pc EXCEPT ![p] = l]
             /\ vol' = [vol EXCEPT ![p] = v]
             /\ UNCHANGED target
  <2>0. PICK l \in {"s_lock", "u_lock", "p_probe", "up_cleanup"} : Effect(l)
    <3>1. CASE COMaySend(v) /\ StageRequest(p, v) /\ UNCHANGED pubvars
      BY <3>1 DEF Effect, COMaySend, StageRequest, pubvars
    <3>2. CASE COMaySend(v) /\ UnstageRequest(p, v) /\ UNCHANGED pubvars
      BY <3>2 DEF Effect, COMaySend, UnstageRequest, pubvars
    <3>3. CASE PublishRequest(p, v)
      BY <3>3 DEF Effect, COMaySend, PublishRequest
    <3>4. CASE UnpublishRequest(p, v)
      BY <3>4 DEF Effect, COMaySend, UnpublishRequest
    <3>5. QED
      BY <1>1, <3>1, <3>2, <3>3, <3>4
  <2> USE DEF Effect
  <2>1. TypeOK'
    <3>1. CASE StageRequest(p, v) \/ UnstageRequest(p, v)
      BY <3>1, NextTypeOK DEF Next
    <3>2. CASE PublishRequest(p, v) \/ UnpublishRequest(p, v)
      BY <3>2 DEF PublishRequest, UnpublishRequest, LocksTypeOK
    <3>3. QED
      BY <1>1, <3>1, <3>2
  <2>2. OneCallPerVolume'
    BY <2>0 DEF OneCallPerVolume, COIdle
  <2>3. BindingOntoDir'
    <3> SUFFICES ASSUME NEW q \in Procs, pc'[q] = "p_mount"
                 PROVE  target'[vol'[q]] = "dir"
      BY DEF BindingOntoDir
    <3>1. q # p /\ pc[q] = "p_mount"
      BY <2>0
    <3>2. QED
      BY <2>0, <3>1 DEF BindingOntoDir
  <2>4. TargetNeverStacked'
    BY <2>0 DEF TargetNeverStacked
  <2>5. QED
    BY <2>0, <2>1, <2>2, <2>3, <2>4
<1>2. ASSUME NEW p \in Procs, (Worker(p) \/ StageMountReturn(p)) /\ UNCHANGED pubvars
      PROVE  PubIInv'
  <2>0. /\ pc[p] \in WorkerPCs
        /\ pc' = [pc EXCEPT ![p] = pc'[p]]
        /\ pc'[p] \in {"idle"} \cup WorkerPCs
        /\ vol' = vol
        /\ UNCHANGED target
    BY <1>2, WorkerFrame DEF pubvars
  <2>1. TypeOK'
    BY <1>2, NextTypeOK DEF Next
  <2>2. OneCallPerVolume'
    BY <2>0 DEF OneCallPerVolume
  <2>3. BindingOntoDir'
    <3> SUFFICES ASSUME NEW q \in Procs, pc'[q] = "p_mount"
                 PROVE  target'[vol'[q]] = "dir"
      BY DEF BindingOntoDir
    <3>1. q # p /\ pc[q] = "p_mount"
      BY <2>0
    <3>2. QED
      BY <2>0, <3>1 DEF BindingOntoDir
  <2>4. TargetNeverStacked'
    BY <2>0 DEF TargetNeverStacked
  <2>5. QED
    BY <2>0, <2>1, <2>2, <2>3, <2>4
<1>3. ASSUME NEW p \in Procs, PublishProbe(p) PROVE PubIInv'
  <2>0. PICK r \in EnsureMountPoint(target[vol[p]]) :
          /\ pc[p] = "p_probe"
          /\ target' = [target EXCEPT ![vol[p]] = r.path]
          /\ \/ pc' = [pc EXCEPT ![p] = "idle"]
             \/ ~r.err /\ ~r.mounted /\ pc' = [pc EXCEPT ![p] = "p_mount"]
          /\ UNCHANGED <<locks, cacheDir, cacheFiles, link, staging, vol, todo, cur, last>>
    BY <1>3 DEF PublishProbe, SetTarget, PubFinish, Goto
  <2>1. /\ r.path \in PathStates
        /\ r.path = "stacked" => target[vol[p]] = "stacked"
        /\ ~r.err /\ ~r.mounted => r.path = "dir"
    BY ProbeResult
  <2>2. TypeOK'
    BY <2>0, <2>1 DEF LocksTypeOK
  <2>3. OneCallPerVolume'
    BY <2>0 DEF OneCallPerVolume
  <2>4. BindingOntoDir'
    BY <2>0, <2>1 DEF BindingOntoDir, OneCallPerVolume
  <2>5. TargetNeverStacked'
    BY <2>0, <2>1 DEF TargetNeverStacked
  <2>6. QED
    BY <2>0, <2>1, <2>2, <2>3, <2>4, <2>5
<1>4. ASSUME NEW p \in Procs, PublishMount(p) PROVE PubIInv'
  <2>0. /\ pc[p] = "p_mount"
        /\ target[vol[p]] = "dir"
        /\ \/ /\ staging[vol[p]] # "absent"
              /\ target' = [target EXCEPT ![vol[p]] = BindOnto("dir", staging[vol[p]])]
              /\ pc' = [pc EXCEPT ![p] = "idle"]
           \/ pc' = [pc EXCEPT ![p] = "p_remove"] /\ UNCHANGED target
        /\ UNCHANGED <<locks, cacheDir, cacheFiles, link, staging, vol, todo, cur, last>>
    BY <1>4 DEF PublishMount, BindMaySucceed, SetTarget, PubFinish, Goto,
                BindingOntoDir
  <2>1. staging[vol[p]] # "absent" => BindOnto("dir", staging[vol[p]]) \in PathStates \ {"stacked"}
    BY BindOntoDir
  <2>2. TypeOK'
    BY <2>0, <2>1 DEF LocksTypeOK
  <2>3. OneCallPerVolume'
    BY <2>0 DEF OneCallPerVolume
  <2>4. BindingOntoDir'
    BY <2>0 DEF BindingOntoDir, OneCallPerVolume
  <2>5. TargetNeverStacked'
    BY <2>0, <2>1 DEF TargetNeverStacked
  <2>6. QED
    BY <2>0, <2>1, <2>2, <2>3, <2>4, <2>5
<1>5. ASSUME NEW p \in Procs, PublishRollback(p) PROVE PubIInv'
  <2>0. /\ pc[p] = "p_remove"
        /\ pc' = [pc EXCEPT ![p] = "idle"]
        /\ \/ target' = [target EXCEPT ![vol[p]] = "absent"]
           \/ UNCHANGED target
        /\ UNCHANGED <<locks, cacheDir, cacheFiles, link, staging, vol, todo, cur, last>>
    BY <1>5 DEF PublishRollback, SetTarget, PubFinish, Goto
  <2>1. TypeOK'
    BY <2>0 DEF LocksTypeOK
  <2>2. OneCallPerVolume'
    BY <2>0 DEF OneCallPerVolume
  <2>3. BindingOntoDir'
    BY <2>0 DEF BindingOntoDir, OneCallPerVolume
  <2>4. TargetNeverStacked'
    BY <2>0 DEF TargetNeverStacked
  <2>5. QED
    BY <2>0, <2>1, <2>2, <2>3, <2>4
<1>6. ASSUME NEW p \in Procs, UnpublishCleanup(p) PROVE PubIInv'
  <2>0. PICK r \in CleanupMountPoint(target[vol[p]]) :
          /\ pc[p] = "up_cleanup"
          /\ pc' = [pc EXCEPT ![p] = "idle"]
          /\ target' = [target EXCEPT ![vol[p]] = r.path]
          /\ UNCHANGED <<locks, cacheDir, cacheFiles, link, staging, vol, todo, cur, last>>
    BY <1>6 DEF UnpublishCleanup, SetTarget, PubFinish, Goto
  <2>1. /\ r.path \in PathStates
        /\ r.path = "stacked" => target[vol[p]] = "stacked"
    BY CleanupResult
  <2>2. TypeOK'
    BY <2>0, <2>1 DEF LocksTypeOK
  <2>3. OneCallPerVolume'
    BY <2>0 DEF OneCallPerVolume
  <2>4. BindingOntoDir'
    BY <2>0 DEF BindingOntoDir, OneCallPerVolume
  <2>5. TargetNeverStacked'
    BY <2>0, <2>1 DEF TargetNeverStacked
  <2>6. QED
    BY <2>0, <2>1, <2>2, <2>3, <2>4, <2>5
<1>7. ASSUME NEW v \in Volumes, Disconnect(v) /\ UNCHANGED pubvars PROVE PubIInv'
  <2>0. UNCHANGED <<pc, vol, target>>
    BY <1>7 DEF Disconnect, pubvars
  <2>1. TypeOK'
    BY <1>7, NextTypeOK DEF Next
  <2>2. QED
    BY <2>0, <2>1 DEF OneCallPerVolume, BindingOntoDir, TargetNeverStacked
<1>8. ASSUME NEW v \in Volumes, TargetDisconnect(v) PROVE PubIInv'
  <2>0. /\ target[v] = "mounted"
        /\ target' = [target EXCEPT ![v] = "corrupted"]
        /\ UNCHANGED vars
    BY <1>8 DEF TargetDisconnect
  <2>1. TypeOK'
    BY <2>0 DEF vars, LocksTypeOK
  <2>2. UNCHANGED <<pc, vol>>
    BY <2>0 DEF vars
  <2>3. QED
    BY <2>0, <2>1, <2>2 DEF OneCallPerVolume, BindingOntoDir, TargetNeverStacked
<1>9. CASE PubRestart
  <2>0. PICK done \in SUBSET {p \in Procs : pc[p] = "p_mount"
                                         /\ BindMaySucceed(target[vol[p]], staging[vol[p]])} :
          target' = [v \in Volumes |->
                       IF \E p \in done : vol[p] = v
                         THEN BindOnto(target[v], staging[v]) ELSE target[v]]
    BY <1>9 DEF PubRestart
  <2>1. pc' = [p \in Procs |-> "idle"]
    BY <1>9 DEF PubRestart, Restart
  <2>2. TypeOK'
    BY <1>9, NextTypeOK DEF Next, PubRestart
  <2>3. ASSUME NEW v \in Volumes PROVE target'[v] \in PathStates \ {"stacked"}
    <3>1. CASE \E p \in done : vol[p] = v
      <4>1. PICK p \in done : vol[p] = v
        BY <3>1
      <4>2. target[v] = "dir" /\ staging[v] # "absent" /\ staging[v] \in PathStates
        BY <4>1 DEF BindingOntoDir, BindMaySucceed
      <4>3. QED
        BY <2>0, <3>1, <4>2, BindOntoDir
    <3>2. CASE ~\E p \in done : vol[p] = v
      BY <2>0, <3>2 DEF TargetNeverStacked
    <3>3. QED
      BY <3>1, <3>2
  <2>4. QED
    BY <2>0, <2>1, <2>2, <2>3 DEF OneCallPerVolume, BindingOntoDir, TargetNeverStacked
<1>10. CASE UNCHANGED allvars
  BY <1>10 DEF allvars, vars, pubvars, LocksTypeOK, OneCallPerVolume,
               BindingOntoDir, TargetNeverStacked
<1>11. QED
  BY <1>1, <1>2, <1>3, <1>4, <1>5, <1>6, <1>7, <1>8, <1>9, <1>10
     DEF PubNext, PubWorker

(***************************************************************************)
(* When the CO waits for each answer before sending the next request of a  *)
(* volume, no target path of any instance ever gets a second bind mount:   *)
(* NodePublishVolume's ensureMountPoint probe and its Mount are never      *)
(* separated by another call that mounts the same target, through lost     *)
(* connections, failing calls and driver restarts.                         *)
(***************************************************************************)
THEOREM PublishNeverStacks ==
  ASSUME ~COTimeouts
  PROVE  PubSpec => []TargetNeverStacked
<1>1. PubInit => PubIInv
  BY InitPubIInv
<1>2. PubIInv /\ [PubNext]_allvars => PubIInv'
  BY NextPubIInv
<1>3. PubIInv => TargetNeverStacked
  BY DEF PubIInv
<1>4. QED
  BY <1>1, <1>2, <1>3, PTL DEF PubSpec


(***************************************************************************)
(* The composition seen from the stage and unstage model.  A step of      *)
(* PubSpec is a step of NodeServer (or a stutter of it), or a step of one  *)
(* publish or unpublish call: it moves that call's pc among idle and the   *)
(* publish steps, may name the call's volume, and touches none of the     *)
(* variables of stage and unstage.                                         *)
(***************************************************************************)
PubLocal(p) ==
    /\ pc[p] \in {"idle"} \cup PubPCs
    /\ pc'[p] \in {"idle"} \cup PubPCs
    /\ pc' = [pc EXCEPT ![p] = pc'[p]]
    /\ vol'[p] \in Volumes
    /\ vol' = [vol EXCEPT ![p] = vol'[p]]
    /\ UNCHANGED <<locks, cacheDir, cacheFiles, link, staging, todo, cur, last>>

LEMMA PubStep ==
  ASSUME TypeOK, [PubNext]_allvars
  PROVE  [Next]_vars \/ \E p \in Procs : PubLocal(p)
<1> USE DEF TypeOK, PubLocal, PubPCs, Goto, PubFinish, SetTarget
<1>1. ASSUME NEW p \in Procs, NEW v \in Volumes,
             \/ COMaySend(v) /\ StageRequest(p, v) /\ UNCHANGED pubvars
             \/ /\ COMaySend(v) /\ plast[v] \in {"none", "unpublished"}
                /\ UnstageRequest(p, v) /\ UNCHANGED pubvars
      PROVE  [Next]_vars
  BY <1>1 DEF Next
<1>2. ASSUME NEW p \in Procs, NEW v \in Volumes, PublishRequest(p, v) \/ UnpublishRequest(p, v)
      PROVE  PubLocal(p)
  BY <1>2 DEF PublishRequest, UnpublishRequest
<1>3. ASSUME NEW p \in Procs, (Worker(p) \/ StageMountReturn(p)) /\ UNCHANGED pubvars
      PROVE  [Next]_vars
  BY <1>3 DEF Next
<1>4. ASSUME NEW p \in Procs, PubWorker(p) \/ PublishMount(p)
      PROVE  PubLocal(p)
  BY <1>4 DEF PubWorker, PublishProbe, PublishRollback, UnpublishCleanup, PublishMount
<1>5. ASSUME NEW v \in Volumes, Disconnect(v) \/ TargetDisconnect(v)
      PROVE  [Next]_vars
  BY <1>5 DEF Next, TargetDisconnect
<1>6. CASE PubRestart \/ UNCHANGED allvars
  BY <1>6 DEF Next, PubRestart, allvars
<1>7. QED
  BY <1>1, <1>2, <1>3, <1>4, <1>5, <1>6 DEF PubNext

\* A publish or unpublish step keeps the stage invariant MInv: the call is
\* never inside the volume lock, and stage and unstage state is untouched.
LEMMA LocalMInv ==
  ASSUME MInv, NEW p \in Procs, PubLocal(p)
  PROVE  MInv'
<1> USE DEF PubLocal
<1>1. pc[p] \notin LockedPCs /\ pc'[p] \notin LockedPCs /\ pc'[p] # "s_mount"
  BY DEF PubPCs, LockedPCs, StagePCs, UnstagePCs
<1>2. \A q \in Procs \ {p} : pc'[q] = pc[q] /\ vol'[q] = vol[q]
  BY DEF MInv, TypeOK
<1>3. TypeOK'
  BY DEF MInv, TypeOK, LocksTypeOK, PCs
<1>4. LockMatchesInFlight'
  BY <1>1, <1>2, <1>3, LockStep DEF MInv
<1>5. QED
  BY <1>1, <1>2, <1>3, <1>4 DEF MInv, MountingOntoDir, BusyWhileLocked,
     StagingClean, StagedImpliesMounted

\* A bind of an existing source yields a path state.
LEMMA BindOntoType ==
  ASSUME NEW t \in PathStates, NEW s \in PathStates, s # "absent"
  PROVE  BindOnto(t, s) \in PathStates
  BY DEF BindOnto, BindView, PathStates

LEMMA InitPubTypeOK == PubInit => PubTypeOK
  BY InitTypeOK DEF PubInit, PubTypeOK, PathStates, PubOutcomes

LEMMA NextPubTypeOK == PubTypeOK /\ [PubNext]_allvars => PubTypeOK'
<1> SUFFICES ASSUME PubTypeOK, [PubNext]_allvars PROVE PubTypeOK'
  OBVIOUS
<1> USE DEF PubTypeOK
<1>1. TypeOK'
  <2>1. CASE [Next]_vars
    BY <2>1, NextTypeOK
  <2>2. CASE \E p \in Procs : PubLocal(p)
    BY <2>2 DEF PubLocal, TypeOK, LocksTypeOK, PCs
  <2>3. QED
    BY <2>1, <2>2, PubStep
<1> DEFINE TargetOK == target' \in [Volumes -> PathStates]
           PlastOK == plast' \in [Volumes -> PubOutcomes]
<1> USE DEF TargetOK, PlastOK, PubOutcomes, SetTarget, PubFinish
<1>2. ASSUME NEW p \in Procs, NEW v \in Volumes,
             \/ COMaySend(v) /\ StageRequest(p, v) /\ UNCHANGED pubvars
             \/ /\ COMaySend(v) /\ plast[v] \in {"none", "unpublished"}
                /\ UnstageRequest(p, v) /\ UNCHANGED pubvars
             \/ PublishRequest(p, v) \/ UnpublishRequest(p, v)
      PROVE  TargetOK /\ PlastOK
  BY <1>2 DEF pubvars, PublishRequest, UnpublishRequest
<1>3. ASSUME NEW p \in Procs, PublishProbe(p) PROVE TargetOK /\ PlastOK
  <2>1. PICK r \in EnsureMountPoint(target[vol[p]]) :
          /\ target' = [target EXCEPT ![vol[p]] = r.path]
          /\ plast' \in {plast} \cup {[plast EXCEPT ![vol[p]] = o] : o \in {"failed", "published"}}
    BY <1>3 DEF PublishProbe
  <2>2. r.path \in PathStates
    BY ProbeResult DEF TypeOK
  <2>3. QED
    BY <2>1, <2>2 DEF TypeOK
<1>4. ASSUME NEW p \in Procs, PublishMount(p) PROVE TargetOK /\ PlastOK
  <2>1. BindMaySucceed(target[vol[p]], staging[vol[p]])
          => BindOnto(target[vol[p]], staging[vol[p]]) \in PathStates
    BY BindOntoType DEF BindMaySucceed, TypeOK
  <2>2. QED
    BY <1>4, <2>1 DEF PublishMount, TypeOK
<1>5. ASSUME NEW p \in Procs, PublishRollback(p) PROVE TargetOK /\ PlastOK
  BY <1>5 DEF PublishRollback, TypeOK, PathStates
<1>6. ASSUME NEW p \in Procs, UnpublishCleanup(p) PROVE TargetOK /\ PlastOK
  <2>1. PICK r \in CleanupMountPoint(target[vol[p]]) :
          /\ target' = [target EXCEPT ![vol[p]] = r.path]
          /\ plast' \in {[plast EXCEPT ![vol[p]] = o] : o \in {"failed", "unpublished"}}
    BY <1>6 DEF UnpublishCleanup
  <2>2. r.path \in PathStates
    BY CleanupResult DEF TypeOK
  <2>3. QED
    BY <2>1, <2>2 DEF TypeOK
<1>7. ASSUME PubRestart PROVE TargetOK /\ PlastOK
  <2>1. PICK done \in SUBSET {p \in Procs : pc[p] = "p_mount"
                                         /\ BindMaySucceed(target[vol[p]], staging[vol[p]])} :
          target' = [v \in Volumes |->
                       IF \E p \in done : vol[p] = v
                         THEN BindOnto(target[v], staging[v]) ELSE target[v]]
    BY <1>7 DEF PubRestart
  <2>2. ASSUME NEW v \in Volumes PROVE target'[v] \in PathStates
    <3>1. CASE \E p \in done : vol[p] = v
      <4>1. PICK p \in done : vol[p] = v
        BY <3>1
      <4>2. QED
        BY <2>1, <3>1, <4>1, BindOntoType DEF BindMaySucceed, TypeOK
    <3>2. QED
      BY <2>1, <3>1
  <2>3. target' \in [Volumes -> PathStates]
    BY <2>1, <2>2
  <2>4. plast' \in [Volumes -> PubOutcomes]
    BY <1>7 DEF PubRestart
  <2>5. QED
    BY <2>3, <2>4
<1>8. ASSUME NEW p \in Procs,
             \/ (Worker(p) \/ StageMountReturn(p)) /\ UNCHANGED pubvars
             \/ \E v \in Volumes : Disconnect(v) /\ UNCHANGED pubvars
             \/ UNCHANGED allvars
      PROVE  TargetOK /\ PlastOK
  BY <1>8 DEF pubvars, allvars
<1>9. ASSUME NEW v \in Volumes, TargetDisconnect(v) PROVE TargetOK /\ PlastOK
  BY <1>9 DEF TargetDisconnect, PathStates
<1>10. QED
  <2>1. TargetOK /\ PlastOK
    BY <1>2, <1>3, <1>4, <1>5, <1>6, <1>7, <1>8, <1>9 DEF PubNext, PubWorker
  <2>2. QED
    BY <1>1, <2>1

(***************************************************************************)
(* Every state of the composed system is well typed, for every value of    *)
(* the constants, whether or not the CO waits for answers.                 *)
(***************************************************************************)
THEOREM PubTypeCorrect == PubSpec => []PubTypeOK
<1>1. PubInit => PubTypeOK
  BY InitPubTypeOK
<1>2. PubTypeOK /\ [PubNext]_allvars => PubTypeOK'
  BY NextPubTypeOK
<1>3. QED
  BY <1>1, <1>2, PTL DEF PubSpec

\* Every step of the composition keeps the stage invariant MInv.
LEMMA NextPubMInv == MInv /\ [PubNext]_allvars => MInv'
<1> SUFFICES ASSUME MInv, [PubNext]_allvars PROVE MInv'
  OBVIOUS
<1>1. [Next]_vars \/ \E p \in Procs : PubLocal(p)
  BY PubStep DEF MInv
<1>2. QED
  BY <1>1, NextMInv, LocalMInv

(***************************************************************************)
(* With publish and unpublish running beside them, and even when the CO   *)
(* resends requests before the first ones return, the lock table still     *)
(* matches the stage and unstage calls in flight, no staging path is ever  *)
(* stacked, and a reported stage keeps its share mounted: publish takes no *)
(* lock and never touches the staging path.                                *)
(***************************************************************************)
THEOREM PubStagingSound ==
  PubSpec => [](LockMatchesInFlight /\ NoStackedMounts /\ StagedImpliesMounted)
<1>1. PubInit => MInv
  BY InitMInv DEF PubInit
<1>2. MInv /\ [PubNext]_allvars => MInv'
  BY NextPubMInv
<1>3. MInv => LockMatchesInFlight /\ NoStackedMounts /\ StagedImpliesMounted
  BY DEF MInv, StagingClean, NoStackedMounts
<1>4. QED
  BY <1>1, <1>2, <1>3, PTL DEF PubSpec

=============================================================================
