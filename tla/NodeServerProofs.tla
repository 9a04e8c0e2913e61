------------------------- MODULE NodeServerProofs -------------------------
(***************************************************************************)
(* Theorems about NodeServer, proved with TLAPS for every value of the     *)
(* constants that satisfies ConstAssumption.                               *)
(***************************************************************************)
EXTENDS NodeServer, TLAPS

USE ConstAssumption


(***************************************************************************)
(* Type correctness: every step keeps each variable in its type.           *)
(***************************************************************************)
LEMMA InitTypeOK == Init => TypeOK
  BY DEF Init, TypeOK, LocksTypeOK, PCs, PathStates, Outcomes

LEMMA NextTypeOK == TypeOK /\ [Next]_vars => TypeOK'
<1> SUFFICES ASSUME TypeOK, [Next]_vars PROVE TypeOK'
  OBVIOUS
<1> USE DEF TypeOK, LocksTypeOK, PathStates, Goto, Finish, Release, TryAcquire, SetStaging, PCs, StagePCs, UnstagePCs, Outcomes
<1>1. ASSUME NEW p \in Procs, NEW v \in Volumes, StageRequest(p, v) \/ UnstageRequest(p, v) PROVE TypeOK'
  BY <1>1 DEF StageRequest, UnstageRequest
<1>2. ASSUME NEW p \in Procs, StageAcquire(p) PROVE TypeOK'
  BY <1>2 DEF StageAcquire
<1>3. ASSUME NEW p \in Procs, EnsureCacheWrite(p) PROVE TypeOK'
  BY <1>3 DEF EnsureCacheWrite
<1>4. ASSUME NEW p \in Procs, EnsureCacheStat(p) PROVE TypeOK'
  BY <1>4 DEF EnsureCacheStat
<1>5. ASSUME NEW p \in Procs, EnsureCacheRemove(p) PROVE TypeOK'
  BY <1>5 DEF EnsureCacheRemove
<1>6. ASSUME NEW p \in Procs, EnsureCacheSymlink(p) PROVE TypeOK'
  BY <1>6 DEF EnsureCacheSymlink
<1>7. ASSUME NEW p \in Procs, StageMkdir(p) PROVE TypeOK'
  BY <1>7 DEF StageMkdir
<1>8. ASSUME NEW p \in Procs, StageProbe(p) PROVE TypeOK'
  BY <1>8 DEF StageProbe, EnsureMountPoint, Verdict, PathStates
<1>9. ASSUME NEW p \in Procs, StageMountReturn(p) PROVE TypeOK'
  BY <1>9 DEF StageMountReturn, MountOnto, PathStates
<1>10. ASSUME NEW p \in Procs, UnstageAcquire(p) PROVE TypeOK'
  BY <1>10 DEF UnstageAcquire
<1>11. ASSUME NEW p \in Procs, UnstageCleanup(p) PROVE TypeOK'
  BY <1>11 DEF UnstageCleanup, CleanupMountPoint, Cleanup, PathStates
<1>12. ASSUME NEW p \in Procs, DeleteCacheStart(p) PROVE TypeOK'
  BY <1>12 DEF DeleteCacheStart
<1>13. ASSUME NEW p \in Procs, DeleteCacheScan(p) PROVE TypeOK'
  BY <1>13 DEF DeleteCacheScan
<1>14. ASSUME NEW p \in Procs, DeleteCacheRemoveLink(p) PROVE TypeOK'
  BY <1>14 DEF DeleteCacheRemoveLink
<1>15. ASSUME NEW p \in Procs, DeleteCacheRemoveFile(p) PROVE TypeOK'
  BY <1>15 DEF DeleteCacheRemoveFile
<1>16. ASSUME NEW v \in Volumes, Disconnect(v) PROVE TypeOK'
  BY <1>16 DEF Disconnect, PathStates
<1>17. CASE Restart
  BY <1>17 DEF Restart, MountOnto, PathStates
<1>18. CASE UNCHANGED vars
  BY <1>18 DEF vars
<1>19. QED
  BY <1>1, <1>2, <1>3, <1>4, <1>5, <1>6, <1>7, <1>8, <1>9, <1>10, <1>11,
     <1>12, <1>13, <1>14, <1>15, <1>16, <1>17, <1>18 DEF Next, Worker

\* The type invariant holds in every reachable state.
THEOREM TypeCorrect == Spec => []TypeOK
  BY InitTypeOK, NextTypeOK, PTL DEF Spec

(***************************************************************************)
(* The inductive invariant behind CanonicalLinkLive.  The link can only    *)
(* dangle if a volume file is removed while a link still points at it, or *)
(* a link is made to a file not yet written.  Both are excluded by the     *)
(* order of the calls together with the volume lock:                       *)
(*  - between WriteFile and Symlink the stage's own file exists (no unstage *)
(*    of the same volume can run: LockMatchesInFlight);                    *)
(*  - an unstage has cleared every link it has visited, and every link     *)
(*    absent from its ReadDir snapshot, of links to its volume; only a     *)
(*    stage of that same volume could create one, and it is locked out.    *)
(***************************************************************************)
EnsureLinking == {"s_stat", "s_remove", "s_symlink"}

OwnFileWritten ==
    \A p \in Procs : pc[p] \in EnsureLinking => vol[p] \in cacheFiles

VisitedLinksCleared ==
    \A p \in Procs :
        pc[p] \in {"d_scan", "d_remove"} =>
            \A u \in UIDs \ todo[p] : link[u] # vol[p]

RemovingVisited ==
    \A p \in Procs : pc[p] = "d_remove" => cur[p] \in todo[p]

AllLinksCleared ==
    \A p \in Procs : pc[p] = "d_file" => \A u \in UIDs : link[u] # vol[p]

IInv ==
    /\ TypeOK
    /\ LockMatchesInFlight
    /\ CanonicalLinkLive
    /\ OwnFileWritten
    /\ VisitedLinksCleared
    /\ RemovingVisited
    /\ AllLinksCleared

(***************************************************************************)
(* A step of one worker p keeps the lock table in step with the holders:  *)
(* it either stays inside or outside the locked region, leaves it through *)
(* the deferred Release, or enters it through a successful TryAcquire.    *)
(***************************************************************************)
LEMMA LockStep ==
  ASSUME TypeOK, TypeOK', LockMatchesInFlight,
         NEW p \in Procs,
         \A q \in Procs \ {p} : pc'[q] = pc[q] /\ vol'[q] = vol[q],
         \/ pc[p] \in LockedPCs /\ pc'[p] \in LockedPCs /\ vol'[p] = vol[p]
            /\ locks' = locks
         \/ pc[p] \notin LockedPCs /\ pc'[p] \notin LockedPCs /\ locks' = locks
         \/ pc[p] \in LockedPCs /\ pc'[p] \notin LockedPCs /\ vol'[p] = vol[p]
            /\ locks' = locks \ {vol[p]}
         \/ pc[p] \notin LockedPCs /\ pc'[p] \in LockedPCs /\ vol'[p] = vol[p]
            /\ vol[p] \notin locks /\ locks' = locks \cup {vol[p]}
  PROVE  LockMatchesInFlight'
<1> USE DEF TypeOK, LocksTypeOK
<1> SUFFICES ASSUME NEW v \in Volumes
             PROVE  /\ v \in locks' <=> \E q \in Procs : Holds(q, v)'
                    /\ \A q, r \in Procs : Holds(q, v)' /\ Holds(r, v)' => q = r
  BY DEF LockMatchesInFlight
<1>1. \A q \in Procs \ {p} : Holds(q, v)' <=> Holds(q, v)
  BY DEF Holds
<1>2. Holds(p, v) => \A q \in Procs \ {p} : ~Holds(q, v)
  BY DEF LockMatchesInFlight
<1>3. CASE pc[p] \in LockedPCs /\ pc'[p] \in LockedPCs /\ vol'[p] = vol[p]
           /\ locks' = locks
  <2>1. Holds(p, v)' <=> Holds(p, v)
    BY <1>3 DEF Holds
  <2>2. \A q \in Procs : Holds(q, v)' <=> Holds(q, v)
    BY <1>1, <2>1
  <2>3. QED
    BY <1>3, <2>2 DEF LockMatchesInFlight
<1>4. CASE pc[p] \notin LockedPCs /\ pc'[p] \notin LockedPCs /\ locks' = locks
  <2>1. ~Holds(p, v)' /\ ~Holds(p, v)
    BY <1>4 DEF Holds
  <2>2. \A q \in Procs : Holds(q, v)' <=> Holds(q, v)
    BY <1>1, <2>1
  <2>3. QED
    BY <1>4, <2>2 DEF LockMatchesInFlight
<1>5. CASE pc[p] \in LockedPCs /\ pc'[p] \notin LockedPCs /\ vol'[p] = vol[p]
           /\ locks' = locks \ {vol[p]}
  <2>1. ~Holds(p, v)'
    BY <1>5 DEF Holds
  <2>2. CASE v = vol[p]
    <3>1. Holds(p, v)
      BY <1>5, <2>2 DEF Holds
    <3>2. \A q \in Procs : ~Holds(q, v)'
      BY <1>1, <1>2, <2>1, <3>1
    <3>3. QED
      BY <1>5, <2>2, <3>2
  <2>3. CASE v # vol[p]
    <3>1. ~Holds(p, v)
      BY <2>3 DEF Holds
    <3>2. QED
      BY <1>1, <1>5, <2>1, <2>3, <3>1 DEF LockMatchesInFlight
  <2>4. QED
    BY <2>2, <2>3
<1>6. CASE pc[p] \notin LockedPCs /\ pc'[p] \in LockedPCs /\ vol'[p] = vol[p]
           /\ vol[p] \notin locks /\ locks' = locks \cup {vol[p]}
  <2>1. ~Holds(p, v)
    BY <1>6 DEF Holds
  <2>2. CASE v = vol[p]
    <3>1. Holds(p, v)'
      BY <1>6, <2>2 DEF Holds
    <3>2. \A q \in Procs \ {p} : ~Holds(q, v)
      BY <1>6, <2>2 DEF LockMatchesInFlight
    <3>3. QED
      BY <1>1, <1>6, <2>2, <3>1, <3>2
  <2>3. CASE v # vol[p]
    <3>1. ~Holds(p, v)'
      BY <1>6, <2>3 DEF Holds
    <3>2. QED
      BY <1>1, <1>6, <2>1, <2>3, <3>1 DEF LockMatchesInFlight
  <2>4. QED
    BY <2>2, <2>3
<1>7. QED
  BY <1>3, <1>4, <1>5, <1>6

LEMMA InitIInv == Init => IInv
  BY InitTypeOK DEF Init, IInv, LockMatchesInFlight, Holds, LockedPCs, StagePCs,
     UnstagePCs, CanonicalLinkLive, OwnFileWritten, EnsureLinking,
     VisitedLinksCleared, RemovingVisited, AllLinksCleared


(***************************************************************************)
(* Two workers inside the locked region never work on the same volume.    *)
(***************************************************************************)
LEMMA LockedUnique ==
  ASSUME TypeOK, LockMatchesInFlight
  PROVE  \A q, r \in Procs :
            pc[q] \in LockedPCs /\ pc[r] \in LockedPCs /\ vol[q] = vol[r] => q = r
<1> SUFFICES ASSUME NEW q \in Procs, NEW r \in Procs,
                    pc[q] \in LockedPCs, pc[r] \in LockedPCs, vol[q] = vol[r]
             PROVE  q = r
  OBVIOUS
<1>1. vol[q] \in Volumes /\ Holds(q, vol[q]) /\ Holds(r, vol[q])
  BY DEF TypeOK, Holds
<1>2. QED
  BY <1>1 DEF LockMatchesInFlight

(***************************************************************************)
(* Without filesystem faults every step preserves IInv.  Each action's     *)
(* effect on the variables IInv reads is stated first (<2>0); the lock     *)
(* conjunct then follows from LockStep and the others from the effect and *)
(* LockedUnique.                                                            *)
(***************************************************************************)
LEMMA NextIInv == ~FsFaults /\ IInv /\ [Next]_vars => IInv'
<1> SUFFICES ASSUME ~FsFaults, IInv, [Next]_vars PROVE IInv'
  OBVIOUS
<1>0. /\ TypeOK'
      /\ \A q, r \in Procs :
            pc[q] \in LockedPCs /\ pc[r] \in LockedPCs /\ vol[q] = vol[r] => q = r
  BY NextTypeOK, LockedUnique DEF IInv
<1> USE <1>0 DEF IInv, TypeOK, LocksTypeOK, LockedPCs, StagePCs, UnstagePCs, PCs,
        CanonicalLinkLive, OwnFileWritten, EnsureLinking, VisitedLinksCleared,
        RemovingVisited, AllLinksCleared
<1>1. ASSUME NEW p \in Procs, NEW v \in Volumes, StageRequest(p, v) \/ UnstageRequest(p, v)
      PROVE  IInv'
  <2>0. /\ pc[p] = "idle"
        /\ \E l \in {"s_lock", "u_lock"} : pc' = [pc EXCEPT ![p] = l]
        /\ vol' = [vol EXCEPT ![p] = v]
        /\ UNCHANGED <<locks, cacheDir, cacheFiles, link, todo, cur>>
    BY <1>1 DEF StageRequest, UnstageRequest
  <2> USE <2>0
  <2>1. LockMatchesInFlight'
    BY LockStep
  <2>2. CanonicalLinkLive'
    OBVIOUS
  <2>3. OwnFileWritten'
    OBVIOUS
  <2>4. VisitedLinksCleared'
    OBVIOUS
  <2>5. RemovingVisited'
    OBVIOUS
  <2>6. AllLinksCleared'
    OBVIOUS
  <2>7. QED
    BY <2>1, <2>2, <2>3, <2>4, <2>5, <2>6
<1>2. ASSUME NEW p \in Procs, StageAcquire(p)
      PROVE  IInv'
  <2>0. /\ pc[p] = "s_lock"
        /\ UNCHANGED <<cacheDir, cacheFiles, link, vol, todo, cur>>
        /\ \/ locks' = locks /\ pc' = [pc EXCEPT ![p] = "idle"]
           \/ /\ vol[p] \notin locks /\ locks' = locks \cup {vol[p]}
              /\ \E l \in {"s_krb", "s_mkdir"} : pc' = [pc EXCEPT ![p] = l]
    BY <1>2 DEF StageAcquire, Goto, TryAcquire
  <2> USE <2>0
  <2>1. LockMatchesInFlight'
    BY LockStep
  <2>2. CanonicalLinkLive'
    OBVIOUS
  <2>3. OwnFileWritten'
    OBVIOUS
  <2>4. VisitedLinksCleared'
    OBVIOUS
  <2>5. RemovingVisited'
    OBVIOUS
  <2>6. AllLinksCleared'
    OBVIOUS
  <2>7. QED
    BY <2>1, <2>2, <2>3, <2>4, <2>5, <2>6
<1>3. ASSUME NEW p \in Procs, EnsureCacheWrite(p)
      PROVE  IInv'
  <2>0. /\ pc[p] = "s_krb"
        /\ UNCHANGED <<cacheDir, link, vol, todo, cur>>
        /\ \/ /\ locks' = locks \ {vol[p]} /\ pc' = [pc EXCEPT ![p] = "idle"]
              /\ cacheFiles' = cacheFiles
           \/ /\ locks' = locks /\ pc' = [pc EXCEPT ![p] = "s_stat"]
              /\ cacheFiles' = cacheFiles \cup {vol[p]}
    BY <1>3 DEF EnsureCacheWrite, Goto, Finish, Release
  <2> USE <2>0
  <2>1. LockMatchesInFlight'
    BY LockStep
  <2>2. CanonicalLinkLive'
    OBVIOUS
  <2>3. OwnFileWritten'
    OBVIOUS
  <2>4. VisitedLinksCleared'
    OBVIOUS
  <2>5. RemovingVisited'
    OBVIOUS
  <2>6. AllLinksCleared'
    OBVIOUS
  <2>7. QED
    BY <2>1, <2>2, <2>3, <2>4, <2>5, <2>6
<1>4. ASSUME NEW p \in Procs, EnsureCacheStat(p)
      PROVE  IInv'
  <2>0. /\ pc[p] = "s_stat"
        /\ \E l \in {"s_remove", "s_symlink"} : pc' = [pc EXCEPT ![p] = l]
        /\ UNCHANGED <<locks, cacheDir, cacheFiles, link, vol, todo, cur>>
    BY <1>4 DEF EnsureCacheStat, Goto
  <2> USE <2>0
  <2>1. LockMatchesInFlight'
    BY LockStep
  <2>2. CanonicalLinkLive'
    OBVIOUS
  <2>3. OwnFileWritten'
    OBVIOUS
  <2>4. VisitedLinksCleared'
    OBVIOUS
  <2>5. RemovingVisited'
    OBVIOUS
  <2>6. AllLinksCleared'
    OBVIOUS
  <2>7. QED
    BY <2>1, <2>2, <2>3, <2>4, <2>5, <2>6
<1>5. ASSUME NEW p \in Procs, EnsureCacheRemove(p)
      PROVE  IInv'
  <2>0. /\ pc[p] = "s_remove"
        /\ pc' = [pc EXCEPT ![p] = "s_symlink"]
        /\ link' = [link EXCEPT ![UIDOf(p)] = NoLink]
        /\ UNCHANGED <<locks, cacheDir, cacheFiles, vol, todo, cur>>
    BY <1>5 DEF EnsureCacheRemove, Goto
  <2> USE <2>0
  <2>1. LockMatchesInFlight'
    BY LockStep
  <2>2. CanonicalLinkLive'
    OBVIOUS
  <2>3. OwnFileWritten'
    OBVIOUS
  <2>4. VisitedLinksCleared'
    OBVIOUS
  <2>5. RemovingVisited'
    OBVIOUS
  <2>6. AllLinksCleared'
    OBVIOUS
  <2>7. QED
    BY <2>1, <2>2, <2>3, <2>4, <2>5, <2>6
<1>6. ASSUME NEW p \in Procs, EnsureCacheSymlink(p)
      PROVE  IInv'
  <2>0. /\ pc[p] = "s_symlink"
        /\ UNCHANGED <<cacheDir, cacheFiles, vol, todo, cur>>
        /\ \/ /\ locks' = locks /\ pc' = [pc EXCEPT ![p] = "s_mkdir"]
              /\ link' = [link EXCEPT ![UIDOf(p)] = vol[p]]
           \/ /\ locks' = locks \ {vol[p]} /\ pc' = [pc EXCEPT ![p] = "idle"]
              /\ link' = link
    BY <1>6 DEF EnsureCacheSymlink, Goto, Finish, Release
  <2> USE <2>0
  <2>1. LockMatchesInFlight'
    BY LockStep
  <2>2. CanonicalLinkLive'
    OBVIOUS
  <2>3. OwnFileWritten'
    OBVIOUS
  <2>4. VisitedLinksCleared'
    OBVIOUS
  <2>5. RemovingVisited'
    OBVIOUS
  <2>6. AllLinksCleared'
    OBVIOUS
  <2>7. QED
    BY <2>1, <2>2, <2>3, <2>4, <2>5, <2>6
<1>7. ASSUME NEW p \in Procs, StageMkdir(p)
      PROVE  IInv'
  <2>0. /\ pc[p] = "s_mkdir"
        /\ UNCHANGED <<cacheDir, cacheFiles, link, vol, todo, cur>>
        /\ \/ locks' = locks /\ pc' = [pc EXCEPT ![p] = "s_probe"]
           \/ locks' = locks \ {vol[p]} /\ pc' = [pc EXCEPT ![p] = "idle"]
    BY <1>7 DEF StageMkdir, Goto, Finish, Release, SetStaging
  <2> USE <2>0
  <2>1. LockMatchesInFlight'
    BY LockStep
  <2>2. CanonicalLinkLive'
    OBVIOUS
  <2>3. OwnFileWritten'
    OBVIOUS
  <2>4. VisitedLinksCleared'
    OBVIOUS
  <2>5. RemovingVisited'
    OBVIOUS
  <2>6. AllLinksCleared'
    OBVIOUS
  <2>7. QED
    BY <2>1, <2>2, <2>3, <2>4, <2>5, <2>6
<1>8. ASSUME NEW p \in Procs, StageProbe(p)
      PROVE  IInv'
  <2>0. /\ pc[p] = "s_probe"
        /\ UNCHANGED <<cacheDir, cacheFiles, link, vol, todo, cur>>
        /\ \/ locks' = locks \ {vol[p]} /\ pc' = [pc EXCEPT ![p] = "idle"]
           \/ locks' = locks /\ pc' = [pc EXCEPT ![p] = "s_mount"]
    BY <1>8 DEF StageProbe, Goto, Finish, Release, SetStaging
  <2> USE <2>0
  <2>1. LockMatchesInFlight'
    BY LockStep
  <2>2. CanonicalLinkLive'
    OBVIOUS
  <2>3. OwnFileWritten'
    OBVIOUS
  <2>4. VisitedLinksCleared'
    OBVIOUS
  <2>5. RemovingVisited'
    OBVIOUS
  <2>6. AllLinksCleared'
    OBVIOUS
  <2>7. QED
    BY <2>1, <2>2, <2>3, <2>4, <2>5, <2>6
<1>9. ASSUME NEW p \in Procs, StageMountReturn(p)
      PROVE  IInv'
  <2>0. /\ pc[p] = "s_mount"
        /\ pc' = [pc EXCEPT ![p] = "idle"]
        /\ locks' = locks \ {vol[p]}
        /\ UNCHANGED <<cacheDir, cacheFiles, link, vol, todo, cur>>
    BY <1>9 DEF StageMountReturn, Goto, Finish, Release, SetStaging
  <2> USE <2>0
  <2>1. LockMatchesInFlight'
    BY LockStep
  <2>2. CanonicalLinkLive'
    OBVIOUS
  <2>3. OwnFileWritten'
    OBVIOUS
  <2>4. VisitedLinksCleared'
    OBVIOUS
  <2>5. RemovingVisited'
    OBVIOUS
  <2>6. AllLinksCleared'
    OBVIOUS
  <2>7. QED
    BY <2>1, <2>2, <2>3, <2>4, <2>5, <2>6
<1>10. ASSUME NEW p \in Procs, UnstageAcquire(p)
      PROVE  IInv'
  <2>0. /\ pc[p] = "u_lock"
        /\ UNCHANGED <<cacheDir, cacheFiles, link, vol, todo, cur>>
        /\ \/ locks' = locks /\ pc' = [pc EXCEPT ![p] = "idle"]
           \/ /\ vol[p] \notin locks /\ locks' = locks \cup {vol[p]}
              /\ pc' = [pc EXCEPT ![p] = "u_cleanup"]
    BY <1>10 DEF UnstageAcquire, Goto, TryAcquire
  <2> USE <2>0
  <2>1. LockMatchesInFlight'
    BY LockStep
  <2>2. CanonicalLinkLive'
    OBVIOUS
  <2>3. OwnFileWritten'
    OBVIOUS
  <2>4. VisitedLinksCleared'
    OBVIOUS
  <2>5. RemovingVisited'
    OBVIOUS
  <2>6. AllLinksCleared'
    OBVIOUS
  <2>7. QED
    BY <2>1, <2>2, <2>3, <2>4, <2>5, <2>6
<1>11. ASSUME NEW p \in Procs, UnstageCleanup(p)
      PROVE  IInv'
  <2>0. /\ pc[p] = "u_cleanup"
        /\ UNCHANGED <<cacheDir, cacheFiles, link, vol, todo, cur>>
        /\ \/ locks' = locks \ {vol[p]} /\ pc' = [pc EXCEPT ![p] = "idle"]
           \/ locks' = locks /\ pc' = [pc EXCEPT ![p] = "d_start"]
    BY <1>11 DEF UnstageCleanup, Goto, Finish, Release, SetStaging
  <2> USE <2>0
  <2>1. LockMatchesInFlight'
    BY LockStep
  <2>2. CanonicalLinkLive'
    OBVIOUS
  <2>3. OwnFileWritten'
    OBVIOUS
  <2>4. VisitedLinksCleared'
    OBVIOUS
  <2>5. RemovingVisited'
    OBVIOUS
  <2>6. AllLinksCleared'
    OBVIOUS
  <2>7. QED
    BY <2>1, <2>2, <2>3, <2>4, <2>5, <2>6
<1>12. ASSUME NEW p \in Procs, DeleteCacheStart(p)
      PROVE  IInv'
  <2>0. /\ pc[p] = "d_start"
        /\ UNCHANGED <<cacheDir, cacheFiles, link, vol, cur>>
        /\ \/ /\ locks' = locks \ {vol[p]} /\ pc' = [pc EXCEPT ![p] = "idle"]
              /\ todo' = todo
           \/ /\ locks' = locks /\ pc' = [pc EXCEPT ![p] = "d_scan"]
              /\ todo' = [todo EXCEPT ![p] = {u \in UIDs : link[u] # NoLink}]
    BY <1>12 DEF DeleteCacheStart, Goto, Finish, Release
  <2> USE <2>0
  <2>1. LockMatchesInFlight'
    BY LockStep
  <2>2. CanonicalLinkLive'
    OBVIOUS
  <2>3. OwnFileWritten'
    OBVIOUS
  <2>4. VisitedLinksCleared'
    OBVIOUS
  <2>5. RemovingVisited'
    OBVIOUS
  <2>6. AllLinksCleared'
    OBVIOUS
  <2>7. QED
    BY <2>1, <2>2, <2>3, <2>4, <2>5, <2>6
<1>13. ASSUME NEW p \in Procs, DeleteCacheScan(p)
      PROVE  IInv'
  <2>0. /\ pc[p] = "d_scan"
        /\ UNCHANGED <<locks, cacheDir, cacheFiles, link, vol>>
        /\ \/ /\ todo[p] = {} /\ pc' = [pc EXCEPT ![p] = "d_file"]
              /\ UNCHANGED <<todo, cur>>
           \/ \E u \in todo[p] :
                 /\ link[u] = vol[p] /\ cur' = [cur EXCEPT ![p] = u]
                 /\ pc' = [pc EXCEPT ![p] = "d_remove"] /\ todo' = todo
           \/ \E u \in todo[p] :
                 /\ link[u] # vol[p] /\ todo' = [todo EXCEPT ![p] = todo[p] \ {u}]
                 /\ UNCHANGED <<pc, cur>>
    BY <1>13 DEF DeleteCacheScan, Goto
  <2> USE <2>0
  <2>1. LockMatchesInFlight'
    BY LockStep
  <2>2. CanonicalLinkLive'
    OBVIOUS
  <2>3. OwnFileWritten'
    OBVIOUS
  <2>4. VisitedLinksCleared'
    OBVIOUS
  <2>5. RemovingVisited'
    OBVIOUS
  <2>6. AllLinksCleared'
    OBVIOUS
  <2>7. QED
    BY <2>1, <2>2, <2>3, <2>4, <2>5, <2>6
<1>14. ASSUME NEW p \in Procs, DeleteCacheRemoveLink(p)
      PROVE  IInv'
  <2>0. /\ pc[p] = "d_remove"
        /\ pc' = [pc EXCEPT ![p] = "d_scan"]
        /\ link' = [link EXCEPT ![cur[p]] = NoLink]
        /\ todo' = [todo EXCEPT ![p] = todo[p] \ {cur[p]}]
        /\ UNCHANGED <<locks, cacheDir, cacheFiles, vol, cur>>
    BY <1>14 DEF DeleteCacheRemoveLink, Goto
  <2> USE <2>0
  <2>1. LockMatchesInFlight'
    BY LockStep
  <2>2. CanonicalLinkLive'
    OBVIOUS
  <2>3. OwnFileWritten'
    OBVIOUS
  <2>4. VisitedLinksCleared'
    OBVIOUS
  <2>5. RemovingVisited'
    OBVIOUS
  <2>6. AllLinksCleared'
    OBVIOUS
  <2>7. QED
    BY <2>1, <2>2, <2>3, <2>4, <2>5, <2>6
<1>15. ASSUME NEW p \in Procs, DeleteCacheRemoveFile(p)
      PROVE  IInv'
  <2>0. /\ pc[p] = "d_file"
        /\ pc' = [pc EXCEPT ![p] = "idle"]
        /\ locks' = locks \ {vol[p]}
        /\ cacheFiles' = cacheFiles \ {vol[p]}
        /\ UNCHANGED <<cacheDir, link, vol, todo, cur>>
    BY <1>15 DEF DeleteCacheRemoveFile, Goto, Finish, Release
  <2> USE <2>0
  <2>1. LockMatchesInFlight'
    BY LockStep
  <2>2. CanonicalLinkLive'
    OBVIOUS
  <2>3. OwnFileWritten'
    OBVIOUS
  <2>4. VisitedLinksCleared'
    OBVIOUS
  <2>5. RemovingVisited'
    OBVIOUS
  <2>6. AllLinksCleared'
    OBVIOUS
  <2>7. QED
    BY <2>1, <2>2, <2>3, <2>4, <2>5, <2>6
<1>16. ASSUME NEW v \in Volumes, Disconnect(v) PROVE IInv'
  BY <1>16 DEF Disconnect, LockMatchesInFlight, Holds
<1>17. CASE Restart
  BY <1>17 DEF Restart, LockMatchesInFlight, Holds
<1>18. CASE UNCHANGED vars
  BY <1>18 DEF vars, LockMatchesInFlight, Holds
<1>19. QED
  BY <1>1, <1>2, <1>3, <1>4, <1>5, <1>6, <1>7, <1>8, <1>9, <1>10, <1>11, <1>12, <1>13, <1>14, <1>15, <1>16, <1>17, <1>18
     DEF Next, Worker

(***************************************************************************)
(* Without filesystem faults, the canonical krb5cc_<uid> symlink never     *)
(* dangles: whenever link[u] names a volume, that volume's credential file *)
(* is in the cache directory (ensureKerberosCache writes the file before   *)
(* the symlink, deleteKerberosCache removes the link before the file), and *)
(* the volume lock table agrees with the in-flight stage/unstage calls.     *)
(***************************************************************************)
THEOREM LinkNeverDangles ==
  ASSUME ~FsFaults
  PROVE  Spec => [](CanonicalLinkLive /\ LockMatchesInFlight)
<1>1. Init => IInv
  BY InitIInv
<1>2. IInv /\ [Next]_vars => IInv'
  BY NextIInv
<1>3. IInv => CanonicalLinkLive /\ LockMatchesInFlight
  BY DEF IInv
<1>4. QED
  BY <1>1, <1>2, <1>3, PTL DEF Spec

=============================================================================
