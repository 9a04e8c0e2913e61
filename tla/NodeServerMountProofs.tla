----------------------- MODULE NodeServerMountProofs -----------------------
(***************************************************************************)
(* Theorems about the staging mounts of NodeServer, proved with TLAPS for  *)
(* every value of the constants, with failing filesystem calls and a      *)
(* hanging mount primitive allowed.                                        *)
(***************************************************************************)
EXTENDS NodeServerProofs

USE ConstAssumption

(***************************************************************************)
(* A step of a worker inside the locked region either stays inside it or  *)
(* leaves it through the deferred Release; the lock table follows.        *)
(***************************************************************************)
LEMMA LockedStep ==
  ASSUME TypeOK, TypeOK', LockMatchesInFlight,
         NEW p \in Procs, pc[p] \in LockedPCs, vol' = vol,
         \/ \E l \in LockedPCs : pc' = [pc EXCEPT ![p] = l] /\ locks' = locks
         \/ pc' = [pc EXCEPT ![p] = "idle"] /\ locks' = locks \ {vol[p]}
  PROVE  LockMatchesInFlight'
<1>1. \A q \in Procs \ {p} : pc'[q] = pc[q] /\ vol'[q] = vol[q]
  BY DEF TypeOK
<1>2. "idle" \notin LockedPCs
  BY DEF LockedPCs, StagePCs, UnstagePCs
<1>3. QED
  BY <1>1, <1>2, LockStep DEF TypeOK

\* ensureMountPoint leaves a path stacked only if it was, never makes it
\* empty, and asks for a mount only on a bare directory; it reports a
\* healthy mount only where one is.
LEMMA ProbeResult ==
  ASSUME NEW s \in PathStates, NEW r \in EnsureMountPoint(s)
  PROVE  /\ r.path \in PathStates
         /\ r.path = "stacked" => s = "stacked"
         /\ r.path = "empty" => s = "empty"
         /\ ~r.err /\ ~r.mounted => r.path = "dir"
         /\ ~r.err /\ r.mounted => r.path = s /\ s \in {"mounted", "stacked", "empty"}
  BY DEF EnsureMountPoint, Verdict, PathStates

\* CleanupMountPoint leaves a path stacked or empty only if it was.
LEMMA CleanupResult ==
  ASSUME NEW s \in PathStates, NEW r \in CleanupMountPoint(s)
  PROVE  /\ r.path \in PathStates
         /\ r.path = "stacked" => s = "stacked"
         /\ r.path = "empty" => s = "empty"
  BY DEF CleanupMountPoint, Cleanup, PathStates

(***************************************************************************)
(* The inductive invariant behind NoStackedMounts and StagedImpliesMounted. *)
(* A stage mounts only a path its probe left as a bare directory; while it *)
(* is inside the lock no other call of the volume runs (the lock table)    *)
(* and the volume's outcome reads busy, so neither the path nor a success  *)
(* reported for it can change under it.                                    *)
(***************************************************************************)
MountingOntoDir == \A p \in Procs : pc[p] = "s_mount" => staging[vol[p]] = "dir"

BusyWhileLocked == \A p \in Procs : pc[p] \in LockedPCs => last[vol[p]] = "busy"

\* A staging path never holds two mounts, nor a bind of an empty directory.
StagingClean == \A v \in Volumes : staging[v] \notin {"stacked", "empty"}

MInv ==
    /\ TypeOK
    /\ LockMatchesInFlight
    /\ MountingOntoDir
    /\ BusyWhileLocked
    /\ StagingClean
    /\ StagedImpliesMounted

LEMMA InitMInv == Init => MInv
  BY InitIInv DEF IInv, MInv, Init, MountingOntoDir, BusyWhileLocked, StagingClean,
     StagedImpliesMounted, LockedPCs, StagePCs, UnstagePCs

(***************************************************************************)
(* A step of a worker inside the lock.  It may set its own volume's       *)
(* staging path to a clean state; it moves within the lock (to s_mount     *)
(* only with the path a bare directory), or it returns through the         *)
(* deferred Release (staged only with the share at the path).  Every       *)
(* stage and unstage step after TryAcquire has this form.                  *)
(***************************************************************************)
LEMMA LockedMInv ==
  ASSUME MInv, TypeOK', NEW p \in Procs, pc[p] \in LockedPCs, vol' = vol,
         \/ staging' = staging
         \/ \E x \in PathStates \ {"stacked", "empty"} :
               staging' = [staging EXCEPT ![vol[p]] = x],
         \/ /\ \E l \in LockedPCs : pc' = [pc EXCEPT ![p] = l]
            /\ locks' = locks /\ last' = last
            /\ pc'[p] = "s_mount" => staging'[vol[p]] = "dir"
         \/ /\ pc' = [pc EXCEPT ![p] = "idle"] /\ locks' = locks \ {vol[p]}
            /\ \E o \in {"failed", "unstaged", "staged"} :
                  last' = [last EXCEPT ![vol[p]] = o]
            /\ last'[vol[p]] = "staged" => staging'[vol[p]] \in {"mounted", "corrupted"}
  PROVE  MInv'
<1> USE DEF MInv, TypeOK
<1>0. \A q \in Procs \ {p} : pc[q] \in LockedPCs => vol[q] # vol[p]
  BY LockedUnique
<1>1. LockMatchesInFlight'
  BY LockedStep
<1>2. /\ \A q \in Procs \ {p} : pc'[q] = pc[q]
      /\ \A w \in Volumes \ {vol[p]} : staging'[w] = staging[w] /\ last'[w] = last[w]
      /\ "idle" \notin LockedPCs
  BY DEF LockedPCs, StagePCs, UnstagePCs
<1>3. last[vol[p]] = "busy"
  BY DEF BusyWhileLocked
<1>4. MountingOntoDir'
  <2> SUFFICES ASSUME NEW q \in Procs, pc'[q] = "s_mount"
               PROVE  staging'[vol[q]] = "dir"
    BY DEF MountingOntoDir
  <2>1. CASE q = p
    BY <1>2, <2>1
  <2>2. CASE q # p
    BY <1>0, <1>2, <2>2 DEF MountingOntoDir, LockedPCs, StagePCs
  <2>3. QED
    BY <2>1, <2>2
<1>5. BusyWhileLocked'
  <2> SUFFICES ASSUME NEW q \in Procs, pc'[q] \in LockedPCs
               PROVE  last'[vol[q]] = "busy"
    BY DEF BusyWhileLocked
  <2>1. CASE q = p
    BY <1>2, <1>3, <2>1
  <2>2. CASE q # p
    BY <1>0, <1>2, <2>2 DEF BusyWhileLocked
  <2>3. QED
    BY <2>1, <2>2
<1>6. StagingClean'
  BY <1>2 DEF StagingClean
<1>7. StagedImpliesMounted'
  <2> SUFFICES ASSUME NEW w \in Volumes, last'[w] = "staged"
               PROVE  staging'[w] \in {"mounted", "corrupted"}
    BY DEF StagedImpliesMounted
  <2>1. CASE w = vol[p]
    BY <1>3, <2>1
  <2>2. CASE w # vol[p]
    BY <1>2, <2>2 DEF StagedImpliesMounted
  <2>3. QED
    BY <2>1, <2>2
<1>8. QED
  BY <1>1, <1>4, <1>5, <1>6, <1>7


(***************************************************************************)
(* Every step preserves MInv, filesystem faults and hanging mounts         *)
(* included.  The steps inside the lock go through LockedMInv; TryAcquire, *)
(* the requests and the environment are argued directly.                   *)
(***************************************************************************)
LEMMA NextMInv == MInv /\ [Next]_vars => MInv'
<1> SUFFICES ASSUME MInv, [Next]_vars PROVE MInv'
  OBVIOUS
<1>0. TypeOK'
  BY NextTypeOK DEF MInv
<1> USE <1>0
<1> DEFINE Locked == LockedPCs
<1>1. ASSUME NEW p \in Procs, NEW v \in Volumes, StageRequest(p, v) \/ UnstageRequest(p, v)
      PROVE  MInv'
  <2>0. /\ pc[p] = "idle"
        /\ \E l \in {"s_lock", "u_lock"} : pc' = [pc EXCEPT ![p] = l]
        /\ vol' = [vol EXCEPT ![p] = v]
        /\ UNCHANGED <<locks, staging, last>>
    BY <1>1 DEF StageRequest, UnstageRequest
  <2>1. pc'[p] \notin LockedPCs /\ pc[p] \notin LockedPCs
        /\ \A q \in Procs \ {p} : pc'[q] = pc[q] /\ vol'[q] = vol[q]
    BY <2>0 DEF MInv, TypeOK, LockedPCs, StagePCs, UnstagePCs
  <2>2. LockMatchesInFlight'
    BY <2>0, <2>1, LockStep DEF MInv
  <2>3. QED
    BY <2>0, <2>1, <2>2 DEF MInv, MountingOntoDir, BusyWhileLocked, StagingClean,
       StagedImpliesMounted, LockedPCs, StagePCs
<1>2. ASSUME NEW p \in Procs, StageAcquire(p) \/ UnstageAcquire(p)
      PROVE  MInv'
  <2>0. /\ pc[p] \in {"s_lock", "u_lock"}
        /\ UNCHANGED <<staging, vol>>
        /\ \/ locks' = locks /\ last' = last /\ pc' = [pc EXCEPT ![p] = "idle"]
           \/ /\ vol[p] \notin locks /\ locks' = locks \cup {vol[p]}
              /\ last' = [last EXCEPT ![vol[p]] = "busy"]
              /\ \E l \in {"s_krb", "s_mkdir", "u_cleanup"} : pc' = [pc EXCEPT ![p] = l]
    BY <1>2 DEF StageAcquire, UnstageAcquire, Goto, TryAcquire
  <2>1. /\ pc[p] \notin LockedPCs /\ pc'[p] # "s_mount"
        /\ \A q \in Procs \ {p} : pc'[q] = pc[q]
        /\ \A w \in Volumes : last'[w] \in {last[w], "busy"}
        /\ pc'[p] \in LockedPCs => last'[vol[p]] = "busy"
    BY <2>0 DEF MInv, TypeOK, LockedPCs, StagePCs, UnstagePCs
  <2>2. LockMatchesInFlight'
    BY <2>0, <2>1, LockStep DEF MInv, TypeOK, LockedPCs, StagePCs, UnstagePCs
  <2>3. MountingOntoDir'
    BY <2>0, <2>1 DEF MInv, MountingOntoDir, LockedPCs
  <2>4. BusyWhileLocked'
    BY <2>0, <2>1 DEF MInv, BusyWhileLocked, TypeOK
  <2>5. StagedImpliesMounted'
    BY <2>0, <2>1 DEF MInv, StagedImpliesMounted, TypeOK
  <2>6. QED
    BY <2>0, <2>2, <2>3, <2>4, <2>5 DEF MInv, StagingClean
<1>3. ASSUME NEW p \in Procs,
             \/ EnsureCacheWrite(p) \/ EnsureCacheStat(p) \/ EnsureCacheRemove(p)
             \/ EnsureCacheSymlink(p) \/ DeleteCacheStart(p) \/ DeleteCacheRemoveLink(p)
             \/ DeleteCacheRemoveFile(p)
      PROVE  MInv'
  <2>0. /\ pc[p] \in LockedPCs \ {"s_mount"} /\ vol' = vol /\ staging' = staging
        /\ \/ /\ \E l \in LockedPCs \ {"s_mount"} : pc' = [pc EXCEPT ![p] = l]
              /\ locks' = locks /\ last' = last
           \/ /\ pc' = [pc EXCEPT ![p] = "idle"] /\ locks' = locks \ {vol[p]}
              /\ \E o \in {"failed", "unstaged"} : last' = [last EXCEPT ![vol[p]] = o]
    BY <1>3 DEF EnsureCacheWrite, EnsureCacheStat, EnsureCacheRemove,
       EnsureCacheSymlink, DeleteCacheStart, DeleteCacheRemoveLink,
       DeleteCacheRemoveFile, Goto, Finish, Release, LockedPCs, StagePCs, UnstagePCs
  <2>1. pc'[p] # "s_mount"
    BY <2>0 DEF MInv, TypeOK
  <2>2. QED
    BY <2>0, <2>1, LockedMInv DEF MInv, TypeOK
<1>4. ASSUME NEW p \in Procs, DeleteCacheScan(p)
      PROVE  MInv'
  <2>0. /\ pc[p] = "d_scan" /\ vol' = vol /\ staging' = staging
        /\ locks' = locks /\ last' = last
        /\ \/ pc' = [pc EXCEPT ![p] = "d_file"] \/ pc' = [pc EXCEPT ![p] = "d_remove"]
           \/ pc' = [pc EXCEPT ![p] = "d_scan"]
    BY <1>4 DEF DeleteCacheScan, Goto, MInv, TypeOK
  <2>1. QED
    BY <2>0, LockedMInv DEF MInv, TypeOK, LockedPCs, UnstagePCs
<1>5. ASSUME NEW p \in Procs, StageMkdir(p)
      PROVE  MInv'
  <2>1. staging[vol[p]] \notin {"stacked", "empty"}
    BY DEF MInv, StagingClean, TypeOK
  <2>0. /\ pc[p] = "s_mkdir" /\ vol' = vol
        /\ \E x \in {"dir", staging[vol[p]]} : staging' = [staging EXCEPT ![vol[p]] = x]
        /\ \/ pc' = [pc EXCEPT ![p] = "s_probe"] /\ locks' = locks /\ last' = last
           \/ /\ pc' = [pc EXCEPT ![p] = "idle"] /\ locks' = locks \ {vol[p]}
              /\ last' = [last EXCEPT ![vol[p]] = "failed"]
    BY <1>5 DEF StageMkdir, SetStaging, Goto, Finish, Release, MInv, TypeOK
  <2>2. \E x \in PathStates \ {"stacked", "empty"} :
          staging' = [staging EXCEPT ![vol[p]] = x]
    BY <2>0, <2>1 DEF MInv, TypeOK, PathStates
  <2>3. /\ pc[p] \in LockedPCs
        /\ \/ /\ \E l \in LockedPCs : pc' = [pc EXCEPT ![p] = l]
              /\ locks' = locks /\ last' = last
              /\ pc'[p] # "s_mount"
           \/ /\ pc' = [pc EXCEPT ![p] = "idle"] /\ locks' = locks \ {vol[p]}
              /\ \E o \in {"failed", "unstaged", "staged"} :
                    last' = [last EXCEPT ![vol[p]] = o]
              /\ last'[vol[p]] # "staged"
    BY <2>0 DEF MInv, TypeOK, LockedPCs, StagePCs
  <2>4. QED
    BY <2>0, <2>2, <2>3, LockedMInv
<1>6. ASSUME NEW p \in Procs, StageProbe(p)
      PROVE  MInv'
  <2>1. PICK r \in EnsureMountPoint(staging[vol[p]]) :
          /\ SetStaging(p, r.path)
          /\ \/ r.err /\ Finish(p, "failed")
             \/ ~r.err /\ r.mounted /\ Finish(p, "staged")
             \/ ~r.err /\ ~r.mounted /\ Goto(p, "s_mount") /\ UNCHANGED <<locks, last>>
    BY <1>6 DEF StageProbe
  <2>2. /\ pc[p] = "s_probe" /\ vol' = vol
        /\ staging[vol[p]] \in PathStates \ {"stacked", "empty"}
    BY <1>6 DEF StageProbe, MInv, StagingClean, TypeOK
  <2>3. /\ r.path \in PathStates \ {"stacked", "empty"}
        /\ ~r.err /\ ~r.mounted => r.path = "dir"
        /\ ~r.err /\ r.mounted => r.path = "mounted"
    BY <2>2, ProbeResult
  <2>4. QED
    BY <2>1, <2>2, <2>3, LockedMInv DEF SetStaging, Finish, Release, Goto, MInv,
       TypeOK, LockedPCs, StagePCs
<1>7. ASSUME NEW p \in Procs, StageMountReturn(p)
      PROVE  MInv'
  <2>1. staging[vol[p]] = "dir"
    BY <1>7 DEF StageMountReturn, MInv, MountingOntoDir
  <2>0. /\ pc[p] = "s_mount" /\ vol' = vol
        /\ pc' = [pc EXCEPT ![p] = "idle"] /\ locks' = locks \ {vol[p]}
        /\ \/ staging' = [staging EXCEPT ![vol[p]] = "mounted"]
              /\ last' = [last EXCEPT ![vol[p]] = "staged"]
           \/ staging' = staging /\ last' = [last EXCEPT ![vol[p]] = "failed"]
    BY <1>7, <2>1 DEF StageMountReturn, SetStaging, MountOnto, Finish, Release, Goto
  <2>2. QED
    BY <2>0, LockedMInv DEF MInv, TypeOK, LockedPCs, StagePCs, PathStates
<1>8. ASSUME NEW p \in Procs, UnstageCleanup(p)
      PROVE  MInv'
  <2>1. PICK r \in CleanupMountPoint(staging[vol[p]]) :
          /\ SetStaging(p, r.path)
          /\ \/ r.err /\ Finish(p, "failed")
             \/ ~r.err /\ Goto(p, "d_start") /\ UNCHANGED <<locks, last>>
    BY <1>8 DEF UnstageCleanup
  <2>2. /\ pc[p] = "u_cleanup" /\ vol' = vol
        /\ staging[vol[p]] \in PathStates \ {"stacked", "empty"}
    BY <1>8 DEF UnstageCleanup, MInv, StagingClean, TypeOK
  <2>3. r.path \in PathStates \ {"stacked", "empty"}
    BY <2>2, CleanupResult
  <2>4. QED
    BY <2>1, <2>2, <2>3, LockedMInv DEF SetStaging, Finish, Release, Goto, MInv,
       TypeOK, LockedPCs, UnstagePCs
<1>9. ASSUME NEW v \in Volumes, Disconnect(v)
      PROVE  MInv'
  BY <1>9 DEF Disconnect, MInv, TypeOK, LockMatchesInFlight, Holds, MountingOntoDir,
     BusyWhileLocked, StagingClean, StagedImpliesMounted
<1>10. CASE Restart
  <2>1. PICK done \in SUBSET {p \in Procs : pc[p] = "s_mount"} :
          staging' = [v \in Volumes |->
                         IF \E p \in done : vol[p] = v
                           THEN MountOnto(staging[v]) ELSE staging[v]]
    BY <1>10 DEF Restart
  <2>2. \A w \in Volumes : staging'[w] \in {staging[w], "mounted"}
    BY <2>1 DEF MInv, MountingOntoDir, MountOnto, TypeOK
  <2>3. /\ locks' = {} /\ pc' = [q \in Procs |-> "idle"]
        /\ \A w \in Volumes : last'[w] \in {last[w], "failed"}
    BY <1>10 DEF Restart, MInv, TypeOK
  <2>4. LockMatchesInFlight'
    BY <2>3 DEF LockMatchesInFlight, Holds, LockedPCs, StagePCs, UnstagePCs
  <2>5. QED
    BY <2>2, <2>3, <2>4 DEF MInv, MountingOntoDir, BusyWhileLocked, StagingClean,
       StagedImpliesMounted, LockedPCs, StagePCs, UnstagePCs
<1>11. CASE UNCHANGED vars
  BY <1>11 DEF vars, MInv, TypeOK, LockMatchesInFlight, Holds, MountingOntoDir,
     BusyWhileLocked, StagingClean, StagedImpliesMounted
<1>12. QED
  BY <1>1, <1>2, <1>3, <1>4, <1>5, <1>6, <1>7, <1>8, <1>9, <1>10, <1>11
     DEF Next, Worker

(***************************************************************************)
(* The lock table matches the stage and unstage calls in flight (every    *)
(* error path releases), NodeStageVolume never stacks a second mount on a *)
(* staging path, and a stage that returned success leaves the share       *)
(* mounted there until the next stage or unstage of the volume: for every  *)
(* number of goroutines,                                                   *)
(* volumes and credential UIDs, with failing filesystem calls and a        *)
(* mount primitive that may hang.                                          *)
(***************************************************************************)
THEOREM StagingMountsSound ==
  Spec => [](LockMatchesInFlight /\ NoStackedMounts /\ StagedImpliesMounted)
<1>1. Init => MInv
  BY InitMInv
<1>2. MInv /\ [Next]_vars => MInv'
  BY NextMInv
<1>3. MInv => LockMatchesInFlight /\ NoStackedMounts /\ StagedImpliesMounted
  BY DEF MInv, StagingClean, NoStackedMounts
<1>4. QED
  BY <1>1, <1>2, <1>3, PTL DEF Spec


(***************************************************************************)
(* In particular, a NodeStageVolume that returned success leaves the share *)
(* mounted (or broken by a lost connection) at the staging path until the *)
(* volume's next stage or unstage, whatever else runs meanwhile.           *)
(***************************************************************************)
THEOREM StagedStaysMounted == Spec => []StagedImpliesMounted
<1>1. (LockMatchesInFlight /\ NoStackedMounts /\ StagedImpliesMounted)
        => StagedImpliesMounted
  OBVIOUS
<1>2. QED
  BY StagingMountsSound, <1>1, PTL

=============================================================================
