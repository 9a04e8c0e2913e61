----------------------- MODULE NodePublishShareProofs -----------------------
(***************************************************************************)
(* PublishedShowsShare proved with TLAPS for every value of the constants, *)
(* with failing filesystem calls and hanging mounts, when the CO waits for *)
(* the answer to each request of a volume before sending the next.         *)
(***************************************************************************)
EXTENDS NodePublishProofs

USE ConstAssumption, COTimeoutsAssumption

(***************************************************************************)
(* The inductive invariant.  A publish in flight holds its volume's        *)
(* outcome at busy (nothing else reports for the volume meanwhile) and     *)
(* finds the volume staged, so by StagedImpliesMounted its staging path    *)
(* holds the share; a bind of it therefore never shows the bare staging    *)
(* directory, and no target is ever such an empty bind.                     *)
(***************************************************************************)
PubBusy == \A p \in Procs : pc[p] \in PubPCs => plast[vol[p]] = "busy"

PublishPCs == {"p_probe", "p_mount", "p_remove"}

PublishingStaged == \A p \in Procs : pc[p] \in PublishPCs => last[vol[p]] = "staged"

TargetNeverEmpty == \A v \in Volumes : target[v] # "empty"

SInv ==
    /\ PubIInv
    /\ MInv
    /\ PubTypeOK
    /\ PubBusy
    /\ PublishingStaged
    /\ TargetNeverEmpty
    /\ PublishedShowsShare

LEMMA InitSInv == PubInit => SInv
<1> SUFFICES ASSUME PubInit PROVE SInv
  OBVIOUS
<1>1. PubIInv /\ MInv /\ PubTypeOK
  BY InitPubIInv, InitMInv, InitPubTypeOK DEF PubInit
<1>2. QED
  BY <1>1 DEF PubInit, Init, SInv, PubBusy, PublishingStaged, TargetNeverEmpty,
     PublishedShowsShare, PubPCs, PublishPCs

\* A stage or unstage step of worker p changes the outcome of p's volume
\* only.
LEMMA WorkerLast ==
  ASSUME TypeOK, NEW p \in Procs, Worker(p) \/ StageMountReturn(p)
  PROVE  \A v \in Volumes \ {vol[p]} : last'[v] = last[v]
<1> USE DEF TypeOK, Goto, Finish
<1>1. CASE StageAcquire(p) \/ EnsureCacheWrite(p) \/ EnsureCacheStat(p)
           \/ EnsureCacheRemove(p) \/ EnsureCacheSymlink(p)
  BY <1>1 DEF StageAcquire, EnsureCacheWrite, EnsureCacheStat,
              EnsureCacheRemove, EnsureCacheSymlink
<1>2. CASE StageMkdir(p) \/ StageProbe(p) \/ StageMountReturn(p)
  BY <1>2 DEF StageMkdir, StageProbe, StageMountReturn
<1>3. CASE UnstageAcquire(p) \/ UnstageCleanup(p) \/ DeleteCacheStart(p)
  BY <1>3 DEF UnstageAcquire, UnstageCleanup, DeleteCacheStart
<1>4. CASE DeleteCacheScan(p) \/ DeleteCacheRemoveLink(p) \/ DeleteCacheRemoveFile(p)
  BY <1>4 DEF DeleteCacheScan, DeleteCacheRemoveLink, DeleteCacheRemoveFile
<1>5. QED
  BY <1>1, <1>2, <1>3, <1>4 DEF Worker

\* Binding a staging path that holds the share onto a bare directory shows
\* the share.
LEMMA BindShare ==
  ASSUME NEW s \in {"mounted", "corrupted"}
  PROVE  BindOnto("dir", s) \in {"mounted", "corrupted"}
  BY DEF BindOnto, BindView

\* A publish that finds a volume staged binds the share.
LEMMA StagedSource ==
  ASSUME MInv, PublishingStaged, NEW p \in Procs, pc[p] \in PublishPCs
  PROVE  staging[vol[p]] \in {"mounted", "corrupted"}
  BY DEF MInv, TypeOK, PublishingStaged, StagedImpliesMounted


(***************************************************************************)
(* Every step keeps SInv when the CO waits for answers.  PubIInv, MInv and *)
(* the types come from the lemmas of NodePublishProofs; each action is     *)
(* then shown to keep the four conjuncts about publish outcomes.           *)
(***************************************************************************)
LEMMA NextSInv == ~COTimeouts /\ SInv /\ [PubNext]_allvars => SInv'
<1> SUFFICES ASSUME ~COTimeouts, SInv, [PubNext]_allvars PROVE SInv'
  OBVIOUS
<1>0. PubIInv' /\ MInv' /\ PubTypeOK'
  BY NextPubIInv, NextPubMInv, NextPubTypeOK DEF SInv
<1> DEFINE Rest == /\ PubBusy' /\ PublishingStaged'
                   /\ TargetNeverEmpty' /\ PublishedShowsShare'
<1> USE DEF SInv, PubIInv, PubTypeOK, TypeOK
<1>1. ASSUME NEW p \in Procs, NEW v \in Volumes,
             \/ COMaySend(v) /\ StageRequest(p, v) /\ UNCHANGED pubvars
             \/ /\ COMaySend(v) /\ plast[v] \in {"none", "unpublished"}
                /\ UnstageRequest(p, v) /\ UNCHANGED pubvars
      PROVE  Rest
  <2>0. /\ pc[p] = "idle"
        /\ \E l \in {"s_lock", "u_lock"} : pc' = [pc EXCEPT ![p] = l]
        /\ vol' = [vol EXCEPT ![p] = v]
        /\ UNCHANGED <<target, plast, last>>
    BY <1>1 DEF StageRequest, UnstageRequest, pubvars
  <2>1. pc'[p] \notin PubPCs /\ \A q \in Procs \ {p} : pc'[q] = pc[q] /\ vol'[q] = vol[q]
    BY <2>0 DEF PubPCs
  <2>2. QED
    BY <2>0, <2>1 DEF Rest, PubBusy, PublishingStaged, PublishPCs, PubPCs,
       TargetNeverEmpty, PublishedShowsShare
<1>2. ASSUME NEW p \in Procs, NEW v \in Volumes, PublishRequest(p, v) \/ UnpublishRequest(p, v)
      PROVE  Rest
  <2>0. /\ pc[p] = "idle" /\ COIdle(v)
        /\ \E l \in {"p_probe", "up_cleanup"} :
              /\ pc' = [pc EXCEPT ![p] = l]
              /\ l = "p_probe" => last[v] = "staged"
        /\ vol' = [vol EXCEPT ![p] = v]
        /\ plast' = [plast EXCEPT ![v] = "busy"]
        /\ UNCHANGED <<target, last>>
    BY <1>2 DEF PublishRequest, UnpublishRequest, COMaySend
  <2>1. \A q \in Procs \ {p} : pc[q] # "idle" => vol[q] # v
    BY <2>0 DEF COIdle
  <2>2. PubBusy'
    BY <2>0, <2>1 DEF PubBusy, PubPCs
  <2>3. PublishingStaged'
    BY <2>0 DEF PublishingStaged, PublishPCs
  <2>4. TargetNeverEmpty' /\ PublishedShowsShare'
    BY <2>0 DEF TargetNeverEmpty, PublishedShowsShare
  <2>5. QED
    BY <2>2, <2>3, <2>4 DEF Rest
<1>3. ASSUME NEW p \in Procs, (Worker(p) \/ StageMountReturn(p)) /\ UNCHANGED pubvars
      PROVE  Rest
  <2>0. /\ pc[p] \in WorkerPCs
        /\ pc' = [pc EXCEPT ![p] = pc'[p]]
        /\ pc'[p] \in {"idle"} \cup WorkerPCs
        /\ vol' = vol
        /\ \A w \in Volumes \ {vol[p]} : last'[w] = last[w]
        /\ UNCHANGED <<target, plast>>
    BY <1>3, WorkerFrame, WorkerLast DEF pubvars
  <2>1. ASSUME NEW q \in Procs, pc'[q] \in PubPCs
        PROVE  q # p /\ pc[q] = pc'[q] /\ vol[q] # vol[p]
    BY <2>0, <2>1 DEF WorkerPCs, StagePCs, UnstagePCs, PubPCs, OneCallPerVolume
  <2>2. PubBusy'
    BY <2>0, <2>1 DEF PubBusy
  <2>3. PublishingStaged'
    BY <2>0, <2>1 DEF PublishingStaged, PublishPCs, PubPCs
  <2>4. QED
    BY <2>0, <2>2, <2>3 DEF Rest, TargetNeverEmpty, PublishedShowsShare
<1>4. ASSUME NEW p \in Procs, PublishProbe(p) PROVE Rest
  <2>0. PICK r \in EnsureMountPoint(target[vol[p]]) :
          /\ pc[p] = "p_probe"
          /\ target' = [target EXCEPT ![vol[p]] = r.path]
          /\ \/ r.err /\ pc' = [pc EXCEPT ![p] = "idle"]
                /\ plast' = [plast EXCEPT ![vol[p]] = "failed"]
             \/ ~r.err /\ r.mounted /\ pc' = [pc EXCEPT ![p] = "idle"]
                /\ plast' = [plast EXCEPT ![vol[p]] = "published"]
             \/ ~r.err /\ ~r.mounted /\ pc' = [pc EXCEPT ![p] = "p_mount"]
                /\ plast' = plast
          /\ UNCHANGED <<vol, last>>
    BY <1>4 DEF PublishProbe, SetTarget, PubFinish, Goto
  <2>1. /\ target[vol[p]] \notin {"stacked", "empty"}
        /\ plast[vol[p]] = "busy"
        /\ \A q \in Procs \ {p} : pc[q] # "idle" => vol[q] # vol[p]
    BY <2>0 DEF TargetNeverStacked, TargetNeverEmpty, PubBusy, PubPCs, OneCallPerVolume
  <2>2. /\ r.path \notin {"stacked", "empty"}
        /\ ~r.err /\ r.mounted => r.path = "mounted"
    BY <2>0, <2>1, ProbeResult
  <2>3. PubBusy'
    BY <2>0, <2>1 DEF PubBusy, PubPCs
  <2>4. PublishingStaged'
    BY <2>0 DEF PublishingStaged, PublishPCs
  <2>5. TargetNeverEmpty'
    BY <2>0, <2>2 DEF TargetNeverEmpty
  <2>6. PublishedShowsShare'
    BY <2>0, <2>1, <2>2 DEF PublishedShowsShare
  <2>7. QED
    BY <2>3, <2>4, <2>5, <2>6 DEF Rest
<1>5. ASSUME NEW p \in Procs, PublishMount(p) PROVE Rest
  <2>1. /\ pc[p] = "p_mount" /\ target[vol[p]] = "dir"
        /\ staging[vol[p]] \in {"mounted", "corrupted"}
        /\ \A q \in Procs \ {p} : pc[q] # "idle" => vol[q] # vol[p]
    BY <1>5, StagedSource DEF PublishMount, BindingOntoDir, PublishPCs, OneCallPerVolume
  <2>2. BindOnto("dir", staging[vol[p]]) \in {"mounted", "corrupted"}
    BY <2>1, BindShare
  <2>0. /\ UNCHANGED <<vol, last>>
        /\ \/ /\ target' = [target EXCEPT ![vol[p]] = BindOnto("dir", staging[vol[p]])]
              /\ pc' = [pc EXCEPT ![p] = "idle"]
              /\ plast' = [plast EXCEPT ![vol[p]] = "published"]
           \/ /\ pc' = [pc EXCEPT ![p] = "p_remove"]
              /\ UNCHANGED <<target, plast>>
    BY <1>5, <2>1 DEF PublishMount, SetTarget, PubFinish, Goto
  <2>3. PubBusy'
    BY <2>0, <2>1 DEF PubBusy, PubPCs
  <2>4. PublishingStaged'
    BY <2>0, <2>1 DEF PublishingStaged, PublishPCs
  <2>5. TargetNeverEmpty' /\ PublishedShowsShare'
    BY <2>0, <2>2 DEF TargetNeverEmpty, PublishedShowsShare
  <2>6. QED
    BY <2>3, <2>4, <2>5 DEF Rest
<1>6. ASSUME NEW p \in Procs, PublishRollback(p) \/ UnpublishCleanup(p) PROVE Rest
  <2>0. /\ pc[p] \in {"p_remove", "up_cleanup"}
        /\ pc' = [pc EXCEPT ![p] = "idle"]
        /\ target'[vol[p]] \notin {"empty"}
        /\ target' = [target EXCEPT ![vol[p]] = target'[vol[p]]]
        /\ \E o \in {"failed", "unpublished"} : plast' = [plast EXCEPT ![vol[p]] = o]
        /\ UNCHANGED <<vol, last>>
    <3>1. CASE PublishRollback(p)
      BY <3>1 DEF PublishRollback, SetTarget, PubFinish, Goto, TargetNeverEmpty
    <3>2. CASE UnpublishCleanup(p)
      <4>1. PICK r \in CleanupMountPoint(target[vol[p]]) :
              /\ pc[p] = "up_cleanup"
              /\ target' = [target EXCEPT ![vol[p]] = r.path]
              /\ \E o \in {"failed", "unpublished"} : plast' = [plast EXCEPT ![vol[p]] = o]
              /\ pc' = [pc EXCEPT ![p] = "idle"]
              /\ UNCHANGED <<vol, last>>
        BY <3>2 DEF UnpublishCleanup, SetTarget, PubFinish, Goto
      <4>2. r.path # "empty"
        BY <4>1, CleanupResult DEF TargetNeverEmpty
      <4>3. QED
        BY <4>1, <4>2
    <3>3. QED
      BY <1>6, <3>1, <3>2
  <2>1. \A q \in Procs \ {p} : pc[q] # "idle" => vol[q] # vol[p]
    BY <2>0 DEF OneCallPerVolume
  <2>2. PubBusy'
    BY <2>0, <2>1 DEF PubBusy, PubPCs
  <2>3. PublishingStaged'
    BY <2>0 DEF PublishingStaged, PublishPCs
  <2>4. TargetNeverEmpty'
    BY <2>0 DEF TargetNeverEmpty
  <2>5. PublishedShowsShare'
    BY <2>0 DEF PublishedShowsShare
  <2>6. QED
    BY <2>2, <2>3, <2>4, <2>5 DEF Rest
<1>7. ASSUME NEW v \in Volumes, Disconnect(v) /\ UNCHANGED pubvars PROVE Rest
  <2>0. UNCHANGED <<pc, vol, last, target, plast>>
    BY <1>7 DEF Disconnect, pubvars
  <2>1. QED
    BY <2>0 DEF Rest, PubBusy, PublishingStaged, TargetNeverEmpty, PublishedShowsShare
<1>8. ASSUME NEW v \in Volumes, TargetDisconnect(v) PROVE Rest
  <2>0. /\ target' = [target EXCEPT ![v] = "corrupted"]
        /\ UNCHANGED <<pc, vol, last, plast>>
    BY <1>8 DEF TargetDisconnect, vars
  <2>1. QED
    BY <2>0 DEF Rest, PubBusy, PublishingStaged, TargetNeverEmpty, PublishedShowsShare
<1>9. ASSUME PubRestart PROVE Rest
  <2>1. PICK done \in SUBSET {p \in Procs : pc[p] = "p_mount"
                                         /\ BindMaySucceed(target[vol[p]], staging[vol[p]])} :
          target' = [v \in Volumes |->
                       IF \E p \in done : vol[p] = v
                         THEN BindOnto(target[v], staging[v]) ELSE target[v]]
    BY <1>9 DEF PubRestart
  <2>2. /\ pc' = [p \in Procs |-> "idle"]
        /\ plast' = [v \in Volumes |-> IF plast[v] = "busy" THEN "failed" ELSE plast[v]]
    BY <1>9 DEF PubRestart, Restart
  <2>3. ASSUME NEW v \in Volumes, \E p \in done : vol[p] = v
        PROVE  target'[v] \in {"mounted", "corrupted"}
    <3>1. PICK p \in done : vol[p] = v
      BY <2>3
    <3>2. target[v] = "dir" /\ staging[v] \in {"mounted", "corrupted"}
      BY <3>1, StagedSource DEF BindingOntoDir, PublishPCs
    <3>3. QED
      BY <2>1, <2>3, <3>2, BindShare
  <2>4. \A v \in Volumes : target'[v] \in {target[v], "mounted", "corrupted"}
    BY <2>1, <2>3
  <2>5. QED
    BY <2>2, <2>4 DEF Rest, PubBusy, PublishingStaged, TargetNeverEmpty,
       PublishedShowsShare, PubPCs, PublishPCs
<1>10. ASSUME UNCHANGED allvars PROVE Rest
  BY <1>10 DEF allvars, vars, pubvars, PubBusy, PublishingStaged, TargetNeverEmpty,
     PublishedShowsShare
<1>11. Rest
  BY <1>1, <1>2, <1>3, <1>4, <1>5, <1>6, <1>7, <1>8, <1>9, <1>10 DEF PubNext, PubWorker
<1>12. QED
  BY <1>0, <1>11 DEF Rest

(***************************************************************************)
(* When the CO waits for each answer before its next request of a volume, *)
(* a NodePublishVolume that returned success left the share at the target *)
(* (perhaps broken since), never a bind of the bare staging directory:     *)
(* for every number of goroutines and volumes, with failing filesystem     *)
(* calls, hanging mounts, lost connections and driver restarts.            *)
(***************************************************************************)
THEOREM PublishShowsShare ==
  ASSUME ~COTimeouts
  PROVE  PubSpec => []PublishedShowsShare
<1>1. PubInit => SInv
  BY InitSInv
<1>2. SInv /\ [PubNext]_allvars => SInv'
  BY NextSInv
<1>3. SInv => PublishedShowsShare
  BY DEF SInv
<1>4. QED
  BY <1>1, <1>2, <1>3, PTL DEF PubSpec

=============================================================================
