------------------------ MODULE NodeServerCacheProofs ------------------------
(***************************************************************************)
(* UnstageLeavesNoCache proved with TLAPS for every value of the constants *)
(* when every filesystem call succeeds.                                    *)
(***************************************************************************)
EXTENDS NodeServerMountProofs

USE ConstAssumption

(***************************************************************************)
(* The inductive invariant.  A volume reported unstaged has no cache file  *)
(* and no link; nothing can create one for it afterwards, because only a   *)
(* stage of that same volume writes its file or links to it, and such a    *)
(* stage holds the lock, so the volume's outcome reads busy (MInv) until   *)
(* it returns.  deleteKerberosCache reports success either when there is   *)
(* nothing to delete (no directory, which implies no files, or no file,    *)
(* which by CanonicalLinkLive implies no link) or after removing the file  *)
(* once every link to it is gone (AllLinksCleared).                        *)
(***************************************************************************)
NoDirNoFiles == ~cacheDir => cacheFiles = {}

UInv ==
    /\ IInv
    /\ MInv
    /\ NoDirNoFiles
    /\ UnstageLeavesNoCache

LEMMA InitUInv == Init => UInv
  BY InitIInv, InitMInv DEF Init, UInv, NoDirNoFiles, UnstageLeavesNoCache

(***************************************************************************)
(* A step that may write the cache file of volume w, link a name to it or  *)
(* unlink names, and changes no outcome but w's, and not to unstaged, keeps *)
(* UnstageLeavesNoCache.                                                   *)
(***************************************************************************)
LEMMA CacheFrame ==
  ASSUME UnstageLeavesNoCache, TypeOK, NEW w \in Volumes,
         cacheFiles' \subseteq cacheFiles \cup {w},
         \A u \in UIDs : link'[u] \in {link[u], NoLink, w},
         last'[w] # "unstaged",
         \A v \in Volumes \ {w} : last'[v] = last[v]
  PROVE  UnstageLeavesNoCache'
  BY ConstAssumption DEF UnstageLeavesNoCache, TypeOK

(***************************************************************************)
(* Without filesystem faults every step keeps UInv.                        *)
(***************************************************************************)
LEMMA NextUInv == ~FsFaults /\ UInv /\ [Next]_vars => UInv'
<1> SUFFICES ASSUME ~FsFaults, UInv, [Next]_vars PROVE UInv'
  OBVIOUS
<1>0. IInv' /\ MInv'
  BY NextIInv, NextMInv DEF UInv
<1> DEFINE Rest == NoDirNoFiles' /\ UnstageLeavesNoCache'
<1> USE DEF UInv, IInv, TypeOK
<1>1. ASSUME NEW p \in Procs, pc[p] \in LockedPCs PROVE last[vol[p]] = "busy"
  BY <1>1 DEF MInv, BusyWhileLocked
<1>2. ASSUME NEW p \in Procs, NEW v \in Volumes, StageRequest(p, v) \/ UnstageRequest(p, v)
      PROVE  Rest
  BY <1>2 DEF StageRequest, UnstageRequest, Rest, NoDirNoFiles, UnstageLeavesNoCache
<1>3. ASSUME NEW p \in Procs, StageAcquire(p) \/ UnstageAcquire(p) PROVE Rest
  <2>1. /\ UNCHANGED <<cacheDir, cacheFiles, link>>
        /\ last'[vol[p]] \in {last[vol[p]], "busy"}
        /\ \A v \in Volumes \ {vol[p]} : last'[v] = last[v]
    BY <1>3 DEF StageAcquire, UnstageAcquire, Goto, TryAcquire
  <2>2. QED
    BY <2>1 DEF Rest, NoDirNoFiles, UnstageLeavesNoCache
<1>4. ASSUME NEW p \in Procs,
             \/ EnsureCacheWrite(p) \/ EnsureCacheStat(p) \/ EnsureCacheRemove(p)
             \/ EnsureCacheSymlink(p) \/ DeleteCacheScan(p) \/ DeleteCacheRemoveLink(p)
             \/ StageMkdir(p) \/ StageProbe(p) \/ StageMountReturn(p) \/ UnstageCleanup(p)
      PROVE  Rest
  <2>1. /\ pc[p] \in LockedPCs
        /\ cacheDir' = cacheDir
        /\ cacheFiles' \subseteq cacheFiles \cup {vol[p]}
        /\ cacheFiles' # cacheFiles => cacheDir
        /\ \A u \in UIDs : link'[u] \in {link[u], NoLink, vol[p]}
        /\ last'[vol[p]] \in {last[vol[p]], "failed", "staged"}
        /\ \A v \in Volumes \ {vol[p]} : last'[v] = last[v]
    <3>1. CASE EnsureCacheWrite(p) \/ EnsureCacheStat(p) \/ EnsureCacheRemove(p)
               \/ EnsureCacheSymlink(p)
      BY <3>1 DEF EnsureCacheWrite, EnsureCacheStat, EnsureCacheRemove,
         EnsureCacheSymlink, Goto, Finish, Release, LockedPCs, StagePCs
    <3>2. CASE DeleteCacheScan(p) \/ DeleteCacheRemoveLink(p)
      BY <3>2 DEF DeleteCacheScan, DeleteCacheRemoveLink, Goto, LockedPCs, UnstagePCs
    <3>3. CASE StageMkdir(p) \/ StageProbe(p) \/ StageMountReturn(p)
      BY <3>3 DEF StageMkdir, StageProbe, StageMountReturn, Goto, Finish, Release,
         LockedPCs, StagePCs
    <3>4. CASE UnstageCleanup(p)
      BY <3>4 DEF UnstageCleanup, Goto, Finish, Release, LockedPCs, UnstagePCs
    <3>5. QED
      BY <1>4, <3>1, <3>2, <3>3, <3>4
  <2>2. last'[vol[p]] # "unstaged"
    BY <1>1, <2>1
  <2>3. UnstageLeavesNoCache'
    BY <2>1, <2>2, CacheFrame
  <2>4. NoDirNoFiles'
    BY <2>1 DEF NoDirNoFiles
  <2>5. QED
    BY <2>3, <2>4 DEF Rest
<1>5. ASSUME NEW p \in Procs, DeleteCacheStart(p) PROVE Rest
  <2>1. /\ pc[p] = "d_start"
        /\ UNCHANGED <<cacheDir, cacheFiles, link>>
        /\ \/ /\ ~cacheDir \/ vol[p] \notin cacheFiles
              /\ last' = [last EXCEPT ![vol[p]] = "unstaged"]
           \/ last' = last
    BY <1>5 DEF DeleteCacheStart, Goto, Finish
  <2>2. CASE last' = last
    BY <2>1, <2>2 DEF Rest, NoDirNoFiles, UnstageLeavesNoCache
  <2>3. CASE /\ ~cacheDir \/ vol[p] \notin cacheFiles
             /\ last' = [last EXCEPT ![vol[p]] = "unstaged"]
    <3>1. vol[p] \notin cacheFiles
      BY <2>3 DEF NoDirNoFiles
    <3>2. \A u \in UIDs : link[u] # vol[p]
      BY <3>1 DEF CanonicalLinkLive
    <3>3. QED
      BY <2>1, <2>3, <3>1, <3>2 DEF Rest, NoDirNoFiles, UnstageLeavesNoCache
  <2>4. QED
    BY <2>1, <2>2, <2>3
<1>6. ASSUME NEW p \in Procs, DeleteCacheRemoveFile(p) PROVE Rest
  <2>1. /\ pc[p] = "d_file"
        /\ UNCHANGED <<cacheDir, link>>
        /\ cacheFiles' = cacheFiles \ {vol[p]}
        /\ last' = [last EXCEPT ![vol[p]] = "unstaged"]
    BY <1>6 DEF DeleteCacheRemoveFile, Finish
  <2>2. \A u \in UIDs : link[u] # vol[p]
    BY <2>1 DEF AllLinksCleared
  <2>3. QED
    BY <2>1, <2>2 DEF Rest, NoDirNoFiles, UnstageLeavesNoCache
<1>7. ASSUME NEW v \in Volumes, Disconnect(v) PROVE Rest
  BY <1>7 DEF Disconnect, Rest, NoDirNoFiles, UnstageLeavesNoCache
<1>8. ASSUME Restart PROVE Rest
  <2>1. /\ UNCHANGED <<cacheDir, cacheFiles, link>>
        /\ \A v \in Volumes : last'[v] \in {last[v], "failed"}
    BY <1>8 DEF Restart
  <2>2. QED
    BY <2>1 DEF Rest, NoDirNoFiles, UnstageLeavesNoCache
<1>9. ASSUME UNCHANGED vars PROVE Rest
  BY <1>9 DEF vars, Rest, NoDirNoFiles, UnstageLeavesNoCache
<1>10. Rest
  BY <1>2, <1>3, <1>4, <1>5, <1>6, <1>7, <1>8, <1>9 DEF Next, Worker
<1>11. QED
  BY <1>0, <1>10 DEF Rest

(***************************************************************************)
(* When every filesystem call succeeds, a NodeUnstageVolume that returned  *)
(* success has left nothing of its volume in the ticket-cache directory:   *)
(* neither the volume's cache file nor a krb5cc_<uid> link to it, and no   *)
(* later stage or unstage of another volume brings one back.               *)
(***************************************************************************)
THEOREM UnstageCleansCache ==
  ASSUME ~FsFaults
  PROVE  Spec => []UnstageLeavesNoCache
<1>1. Init => UInv
  BY InitUInv
<1>2. UInv /\ [Next]_vars => UInv'
  BY NextUInv
<1>3. UInv => UnstageLeavesNoCache
  BY DEF UInv
<1>4. QED
  BY <1>1, <1>2, <1>3, PTL DEF Spec

=============================================================================
