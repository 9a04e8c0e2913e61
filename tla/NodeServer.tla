---------------------------- MODULE NodeServer ----------------------------
(***************************************************************************)
(* The node half of the SMB CSI driver (src/pkg/smb/nodeserver.go), Linux  *)
(* build: NodeStageVolume and NodeUnstageVolume running concurrently on    *)
(* gRPC worker goroutines, each holding the per-volume lock of            *)
(* VolumeLocks, with the Kerberos ticket-cache files they create and      *)
(* delete (ensureKerberosCache, deleteKerberosCache), the mount prober    *)
(* ensureMountPoint, and the opaque mount/unmount primitive.              *)
(*                                                                         *)
(* Every worker step is one filesystem or mount call of the code, so the  *)
(* steps of different workers interleave exactly where the goroutines     *)
(* can.  The driver process can restart at any point: its lock table and  *)
(* goroutines are lost, the files and mounts stay.                        *)
(***************************************************************************)
EXTENDS FiniteSets, VolumeLocks

CONSTANTS
    Procs,          \* gRPC worker goroutines
    UIDs,           \* credential UIDs that appear in cruid= mount flags
    KrbUID,         \* KrbUID[v]: cruid of v's sec=krb5 flags, or NoKrb
    NoKrb,          \* the mount flags of the volume do not ask for Kerberos
    NoLink,         \* the canonical krb5cc_<uid> symlink is absent
    FsFaults,       \* the host's filesystem calls may fail (EIO and alike)
    MountMayHang    \* the mount primitive may never return

ASSUME ConstAssumption ==
    /\ Procs # {} /\ Volumes # {} /\ UIDs # {}
    /\ NoKrb \notin UIDs
    /\ NoLink \notin Volumes
    /\ KrbUID \in [Volumes -> UIDs \cup {NoKrb}]
    /\ FsFaults \in BOOLEAN
    /\ MountMayHang \in BOOLEAN

VARIABLES
    cacheDir,    \* krb5CacheDirectory exists (never created by the driver)
    cacheFiles,  \* volumes whose volume-named ticket-cache file exists
    link,        \* link[u]: volume whose cache file krb5cc_<u> points at
    staging,     \* staging[v]: state of v's staging path
    pc,          \* pc[p]: the call worker p is about to make
    vol,         \* vol[p]: the volume ID of p's request
    todo,        \* todo[p]: ReadDir entries (canonical links) not yet visited
    cur,         \* cur[p]: the link deleteKerberosCache is about to remove
    last         \* last[v]: outcome of the latest stage/unstage of v

vars == <<locks, cacheDir, cacheFiles, link, staging, pc, vol, todo, cur, last>>

(***************************************************************************)
(* A path is absent, an empty directory, a healthy mount, a mount whose   *)
(* remote connection is gone (IsCorruptedDir), or two mounts stacked on   *)
(* top of each other; a target path can also hold a bind mount of a      *)
(* staging directory on which no share was mounted ("empty").             *)
(***************************************************************************)
PathStates == {"absent", "dir", "mounted", "corrupted", "stacked", "empty"}

StagePCs   == {"s_lock", "s_krb", "s_stat", "s_remove", "s_symlink",
               "s_mkdir", "s_probe", "s_mount"}
UnstagePCs == {"u_lock", "u_cleanup", "d_start", "d_scan", "d_remove",
               "d_file"}
\* NodePublishVolume and NodeUnpublishVolume, the steps of NodePublish.
PubPCs     == {"p_probe", "p_mount", "p_remove", "up_cleanup"}
PCs        == {"idle"} \cup StagePCs \cup UnstagePCs \cup PubPCs

\* The steps that run after TryAcquire succeeded and before the deferred
\* Release.
LockedPCs == (StagePCs \cup UnstagePCs) \ {"s_lock", "u_lock"}

Outcomes == {"none", "busy", "staged", "unstaged", "failed"}

KrbVolumes == {v \in Volumes : KrbUID[v] # NoKrb}

\* The credential UID of worker p's request.
UIDOf(p) == KrbUID[vol[p]]

\* os.Stat(krb5cc_<u>) follows the symlink: it succeeds only if the link
\* exists and its target file exists.
LinkResolves(u) == link[u] \in Volumes /\ link[u] \in cacheFiles

(***************************************************************************)
(* Helpers for the control flow of a handler.                              *)
(***************************************************************************)
Goto(p, l) == pc' = [pc EXCEPT ![p] = l]

\* return from a locked handler: the deferred Release runs, the outcome is
\* what the caller sees.
Finish(p, outcome) ==
    /\ Release(vol[p])
    /\ last' = [last EXCEPT ![vol[p]] = outcome]
    /\ Goto(p, "idle")

SetStaging(p, s) == staging' = [staging EXCEPT ![vol[p]] = s]

\* A successful mount on a directory that already holds a mount stacks a
\* second mount on it.
MountOnto(s) == IF s = "dir" THEN "mounted" ELSE "stacked"

(***************************************************************************)
(* ensureMountPoint(target) as the set of its possible results: whether   *)
(* the path is a healthy mount, whether an error is returned, and the      *)
(* state of the path afterwards.                                           *)
(***************************************************************************)
Verdict(m, e, s) == [mounted |-> m, err |-> e, path |-> s]

\* Mutation: the probe misses a healthy mount (no List check).
EnsureMountPointMissesMount(s) ==
    (IF s \in {"absent", "dir"} THEN {Verdict(FALSE, FALSE, "dir")} ELSE {})
    \cup (IF s \in {"mounted", "empty"} THEN {Verdict(FALSE, FALSE, s)} ELSE {})
    \cup (IF s = "stacked" THEN {Verdict(TRUE, FALSE, s)} ELSE {})
    \cup (IF s = "corrupted"
            THEN {Verdict(FALSE, TRUE, "dir"), Verdict(TRUE, TRUE, s)}
            ELSE {})
    \cup (IF FsFaults THEN {Verdict(FALSE, TRUE, s)} ELSE {})

EnsureMountPoint(s) ==
    \* not a mount point (or not existing): makeDir, needs mounting
    (IF s \in {"absent", "dir"} THEN {Verdict(FALSE, FALSE, "dir")} ELSE {})
    \* a mount point whose ReadDir succeeds: already mounted
    \cup (IF s \in {"mounted", "stacked", "empty"}
            THEN {Verdict(TRUE, FALSE, s)} ELSE {})
    \* corrupted: ReadDir fails, Unmount; on success the ReadDir error is
    \* still returned, on failure the Unmount error is
    \cup (IF s = "corrupted"
            THEN {Verdict(FALSE, TRUE, "dir"), Verdict(TRUE, TRUE, s)}
            ELSE {})
    \* IsLikelyNotMountPoint, List, or makeDir fails
    \cup (IF FsFaults THEN {Verdict(FALSE, TRUE, s)} ELSE {})

(***************************************************************************)
(* CleanupSMBMountPoint(staging, extensive check): not under src/; from    *)
(* the spec: unmount if mounted (one layer), then remove the directory,    *)
(* tolerating an absent path; it fails if the unmount fails or the path is *)
(* still mounted afterwards.                                               *)
(***************************************************************************)
Cleanup(e, s) == [err |-> e, path |-> s]

CleanupMountPoint(s) ==
    (IF s \in {"absent", "dir"} THEN {Cleanup(FALSE, "absent")} ELSE {})
    \cup (IF s \in {"mounted", "corrupted", "empty"}
            THEN {Cleanup(FALSE, "absent"), Cleanup(TRUE, s)} ELSE {})
    \cup (IF s = "stacked" THEN {Cleanup(TRUE, "mounted"), Cleanup(TRUE, s)}
            ELSE {})

(***************************************************************************)
(* Mutations of the handlers below, each a plausible slip in the code,     *)
(* used to show that the properties can detect it.                          *)
(***************************************************************************)
\* The symlink error path returns without the deferred Release.
EnsureCacheSymlinkNoRelease(p) ==
    /\ pc[p] = "s_symlink"
    /\ \/ /\ link[UIDOf(p)] = NoLink
          /\ link' = [link EXCEPT ![UIDOf(p)] = vol[p]]
          /\ Goto(p, "s_mkdir")
       \/ /\ link[UIDOf(p)] # NoLink
          /\ Goto(p, "idle")
          /\ UNCHANGED link
    /\ UNCHANGED <<locks, last, cacheDir, cacheFiles, staging, vol, todo, cur>>

\* Only the mountComplete flag is checked, not the Mount error.
StageMountReturnIgnoresError(p) ==
    /\ pc[p] = "s_mount"
    /\ \/ /\ staging[vol[p]] # "absent"
          /\ SetStaging(p, MountOnto(staging[vol[p]]))
       \/ UNCHANGED staging
    /\ Finish(p, "staged")
    /\ UNCHANGED <<cacheDir, cacheFiles, link, vol, todo, cur>>

\* deleteKerberosCache removes the volume file without scanning for links.
DeleteCacheStartNoScan(p) ==
    /\ pc[p] = "d_start"
    /\ \/ /\ ~cacheDir \/ vol[p] \notin cacheFiles
          /\ Finish(p, "unstaged")
       \/ /\ cacheDir /\ vol[p] \in cacheFiles
          /\ Goto(p, "d_file")
          /\ UNCHANGED <<locks, last>>
    /\ UNCHANGED <<cacheDir, cacheFiles, link, staging, vol, todo, cur>>

\* Every directory entry, volume files included, is taken as a link.
DeleteCacheStartAllEntries(p) ==
    /\ pc[p] = "d_start"
    /\ \/ /\ ~cacheDir \/ vol[p] \notin cacheFiles
          /\ Finish(p, "unstaged")
          /\ UNCHANGED todo
       \/ /\ cacheDir /\ vol[p] \in cacheFiles
          /\ todo' = [todo EXCEPT ![p] = {u \in UIDs : link[u] # NoLink} \cup cacheFiles]
          /\ Goto(p, "d_scan")
          /\ UNCHANGED <<locks, last>>
    /\ UNCHANGED <<cacheDir, cacheFiles, link, staging, vol, cur>>

\* The volume file is removed by its relative name, which fails silently.
DeleteCacheRemoveFileRelative(p) ==
    /\ pc[p] = "d_file"
    /\ Finish(p, "unstaged")
    /\ UNCHANGED <<cacheDir, cacheFiles, link, staging, vol, todo, cur>>

-----------------------------------------------------------------------------
Init ==
    /\ locks = {}
    /\ cacheDir \in BOOLEAN
    /\ cacheFiles = {}
    /\ link = [u \in UIDs |-> NoLink]
    /\ staging = [v \in Volumes |-> "absent"]
    /\ pc = [p \in Procs |-> "idle"]
    /\ vol = [p \in Procs |-> CHOOSE v \in Volumes : TRUE]
    /\ todo = [p \in Procs |-> {}]
    /\ cur = [p \in Procs |-> CHOOSE u \in UIDs : TRUE]
    /\ last = [v \in Volumes |-> "none"]

(***************************************************************************)
(* The container orchestrator may send any request at any time, retries   *)
(* included, each to a goroutine of its own.                               *)
(***************************************************************************)
StageRequest(p, v) ==
    /\ pc[p] = "idle"
    /\ pc' = [pc EXCEPT ![p] = "s_lock"]
    /\ vol' = [vol EXCEPT ![p] = v]
    /\ UNCHANGED <<locks, cacheDir, cacheFiles, link, staging, todo, cur, last>>

UnstageRequest(p, v) ==
    /\ pc[p] = "idle"
    /\ pc' = [pc EXCEPT ![p] = "u_lock"]
    /\ vol' = [vol EXCEPT ![p] = v]
    /\ UNCHANGED <<locks, cacheDir, cacheFiles, link, staging, todo, cur, last>>

(***************************************************************************)
(* NodeStageVolume                                                         *)
(***************************************************************************)
\* TryAcquire; on contention return Aborted.  A volume without sec=krb5
\* makes ensureKerberosCache return (false, nil) without any call.
StageAcquire(p) ==
    /\ pc[p] = "s_lock"
    /\ \/ /\ vol[p] \in locks
          /\ Goto(p, "idle")
          /\ UNCHANGED <<locks, last>>
       \/ /\ TryAcquire(vol[p])
          /\ last' = [last EXCEPT ![vol[p]] = "busy"]
          /\ Goto(p, IF vol[p] \in KrbVolumes THEN "s_krb" ELSE "s_mkdir")
    /\ UNCHANGED <<cacheDir, cacheFiles, link, staging, vol, todo, cur>>

\* ensureKerberosCache up to the write: the directory check, cruid=, the
\* ticket secret and its base64 decoding, then WriteFile and Chown.
EnsureCacheWrite(p) ==
    /\ pc[p] = "s_krb"
    /\ \/ /\ Finish(p, "failed")
          /\ UNCHANGED cacheFiles
       \/ /\ cacheDir
          /\ cacheFiles' = cacheFiles \cup {vol[p]}
          /\ Goto(p, "s_stat")
          /\ UNCHANGED <<locks, last>>
       \/ /\ FsFaults /\ cacheDir
          /\ cacheFiles' \in {cacheFiles, cacheFiles \cup {vol[p]}}
          /\ Finish(p, "failed")
    /\ UNCHANGED <<cacheDir, link, staging, vol, todo, cur>>

\* os.Stat(krb5CacheFileName): remove the old link only if Stat succeeds.
EnsureCacheStat(p) ==
    /\ pc[p] = "s_stat"
    /\ Goto(p, IF LinkResolves(UIDOf(p)) THEN "s_remove" ELSE "s_symlink")
    /\ UNCHANGED <<locks, cacheDir, cacheFiles, link, staging, vol, todo, cur, last>>

\* os.Remove(krb5CacheFileName); a failure is only logged.
EnsureCacheRemove(p) ==
    /\ pc[p] = "s_remove"
    /\ \/ link' = [link EXCEPT ![UIDOf(p)] = NoLink]
       \/ FsFaults /\ UNCHANGED link
    /\ Goto(p, "s_symlink")
    /\ UNCHANGED <<locks, cacheDir, cacheFiles, staging, vol, todo, cur, last>>

\* os.Symlink(volume file, krb5CacheFileName): fails if the name exists.
EnsureCacheSymlink(p) ==
    /\ pc[p] = "s_symlink"
    /\ \/ /\ link[UIDOf(p)] = NoLink
          /\ link' = [link EXCEPT ![UIDOf(p)] = vol[p]]
          /\ Goto(p, "s_mkdir")
          /\ UNCHANGED <<locks, last>>
       \/ /\ link[UIDOf(p)] # NoLink \/ FsFaults
          /\ Finish(p, "failed")
          /\ UNCHANGED link
    /\ UNCHANGED <<cacheDir, cacheFiles, staging, vol, todo, cur>>

\* os.MkdirAll(targetPath).  On a corrupted mount Stat fails and Mkdir
\* meets EEXIST; whether the final Lstat succeeds depends on the share.
StageMkdir(p) ==
    /\ pc[p] = "s_mkdir"
    /\ \/ /\ staging[vol[p]] # "corrupted"
          /\ SetStaging(p, IF staging[vol[p]] = "absent" THEN "dir"
                                                          ELSE staging[vol[p]])
          /\ Goto(p, "s_probe")
          /\ UNCHANGED <<locks, last>>
       \/ /\ staging[vol[p]] = "corrupted"
          /\ Goto(p, "s_probe")
          /\ UNCHANGED <<staging, locks, last>>
       \/ /\ staging[vol[p]] = "corrupted" \/ FsFaults
          /\ Finish(p, "failed")
          /\ UNCHANGED staging
    /\ UNCHANGED <<cacheDir, cacheFiles, link, vol, todo, cur>>

\* ensureMountPoint(targetPath): already mounted returns success, an error
\* returns Internal, otherwise the mount is issued.
StageProbe(p) ==
    /\ pc[p] = "s_probe"
    /\ \E r \in EnsureMountPoint(staging[vol[p]]) :
          /\ SetStaging(p, r.path)
          /\ \/ r.err /\ Finish(p, "failed")
             \/ ~r.err /\ r.mounted /\ Finish(p, "staged")
             \/ ~r.err /\ ~r.mounted /\ Goto(p, "s_mount") /\ UNCHANGED <<locks, last>>
    /\ UNCHANGED <<cacheDir, cacheFiles, link, vol, todo, cur>>

\* The single Mount call inside wait.PollImmediate returns.
StageMountReturn(p) ==
    /\ pc[p] = "s_mount"
    /\ \/ /\ staging[vol[p]] # "absent"
          /\ SetStaging(p, MountOnto(staging[vol[p]]))
          /\ Finish(p, "staged")
       \/ /\ Finish(p, "failed")
          /\ UNCHANGED staging
    /\ UNCHANGED <<cacheDir, cacheFiles, link, vol, todo, cur>>

(***************************************************************************)
(* NodeUnstageVolume                                                       *)
(***************************************************************************)
UnstageAcquire(p) ==
    /\ pc[p] = "u_lock"
    /\ \/ /\ vol[p] \in locks
          /\ Goto(p, "idle")
          /\ UNCHANGED <<locks, last>>
       \/ /\ TryAcquire(vol[p])
          /\ last' = [last EXCEPT ![vol[p]] = "busy"]
          /\ Goto(p, "u_cleanup")
    /\ UNCHANGED <<cacheDir, cacheFiles, link, staging, vol, todo, cur>>

UnstageCleanup(p) ==
    /\ pc[p] = "u_cleanup"
    /\ \E r \in CleanupMountPoint(staging[vol[p]]) :
          /\ SetStaging(p, r.path)
          /\ \/ r.err /\ Finish(p, "failed")
             \/ ~r.err /\ Goto(p, "d_start") /\ UNCHANGED <<locks, last>>
    /\ UNCHANGED <<cacheDir, cacheFiles, link, vol, todo, cur>>

\* deleteKerberosCache: no directory or no volume file returns nil;
\* otherwise os.ReadDir takes the snapshot of the links to visit.
DeleteCacheStart(p) ==
    /\ pc[p] = "d_start"
    /\ \/ /\ ~cacheDir \/ vol[p] \notin cacheFiles
          /\ Finish(p, "unstaged")
          /\ UNCHANGED todo
       \/ /\ cacheDir /\ vol[p] \in cacheFiles
          /\ todo' = [todo EXCEPT ![p] = {u \in UIDs : link[u] # NoLink}]
          /\ Goto(p, "d_scan")
          /\ UNCHANGED <<locks, last>>
       \/ /\ FsFaults /\ cacheDir
          /\ Finish(p, "failed")
          /\ UNCHANGED todo
    /\ UNCHANGED <<cacheDir, cacheFiles, link, staging, vol, cur>>

\* One entry of the snapshot: Lstat, then Readlink; only a link whose
\* target is this volume's file is kept for removal.
DeleteCacheScan(p) ==
    /\ pc[p] = "d_scan"
    /\ \/ /\ todo[p] = {}
          /\ Goto(p, "d_file")
          /\ UNCHANGED <<todo, cur>>
       \/ \E u \in todo[p] :
            \/ /\ link[u] = vol[p]
               /\ cur' = [cur EXCEPT ![p] = u]
               /\ Goto(p, "d_remove")
               /\ UNCHANGED todo
            \/ /\ link[u] # vol[p]
               /\ todo' = [todo EXCEPT ![p] = todo[p] \ {u}]
               /\ UNCHANGED <<pc, cur>>
    /\ UNCHANGED <<locks, cacheDir, cacheFiles, link, staging, vol, last>>

\* os.Remove(filePath): removes whatever the name holds now; a failure is
\* only logged.
DeleteCacheRemoveLink(p) ==
    /\ pc[p] = "d_remove"
    /\ \/ link' = [link EXCEPT ![cur[p]] = NoLink]
       \/ FsFaults /\ UNCHANGED link
    /\ todo' = [todo EXCEPT ![p] = todo[p] \ {cur[p]}]
    /\ Goto(p, "d_scan")
    /\ UNCHANGED <<locks, cacheDir, cacheFiles, staging, vol, cur, last>>

\* os.Remove(volume file), logged on failure; unstage then succeeds.
DeleteCacheRemoveFile(p) ==
    /\ pc[p] = "d_file"
    /\ \/ cacheFiles' = cacheFiles \ {vol[p]}
       \/ FsFaults /\ UNCHANGED cacheFiles
    /\ Finish(p, "unstaged")
    /\ UNCHANGED <<cacheDir, link, staging, vol, todo, cur>>

(***************************************************************************)
(* The environment: a healthy share loses its connection; the driver       *)
(* process restarts, losing goroutines and locks; a mount in flight may or *)
(* may not have taken effect.                                               *)
(***************************************************************************)
Disconnect(v) ==
    /\ staging[v] = "mounted"
    /\ staging' = [staging EXCEPT ![v] = "corrupted"]
    /\ UNCHANGED <<locks, cacheDir, cacheFiles, link, pc, vol, todo, cur, last>>

Restart ==
    /\ \E done \in SUBSET {p \in Procs : pc[p] = "s_mount"} :
          staging' = [v \in Volumes |->
                        IF \E p \in done : vol[p] = v
                          THEN MountOnto(staging[v]) ELSE staging[v]]
    /\ locks' = {}
    /\ last' = [v \in Volumes |-> IF v \in locks THEN "failed" ELSE last[v]]
    /\ pc' = [p \in Procs |-> "idle"]
    /\ todo' = [p \in Procs |-> {}]
    /\ UNCHANGED <<cacheDir, cacheFiles, link, vol, cur>>

-----------------------------------------------------------------------------
\* The steps a worker takes on its own once its request is running.
Worker(p) ==
    \/ StageAcquire(p) \/ EnsureCacheWrite(p) \/ EnsureCacheStat(p)
    \/ EnsureCacheRemove(p) \/ EnsureCacheSymlink(p) \/ StageMkdir(p)
    \/ StageProbe(p)
    \/ UnstageAcquire(p) \/ UnstageCleanup(p) \/ DeleteCacheStart(p)
    \/ DeleteCacheScan(p) \/ DeleteCacheRemoveLink(p) \/ DeleteCacheRemoveFile(p)

Next ==
    \/ \E p \in Procs, v \in Volumes : StageRequest(p, v) \/ UnstageRequest(p, v)
    \/ \E p \in Procs : Worker(p) \/ StageMountReturn(p)
    \/ \E v \in Volumes : Disconnect(v)
    \/ Restart

(***************************************************************************)
(* Goroutines are scheduled fairly.  The mount primitive returns           *)
(* eventually unless MountMayHang: nothing in the code bounds it.          *)
(***************************************************************************)
Fairness ==
    \A p \in Procs :
        /\ WF_vars(Worker(p))
        /\ IF MountMayHang THEN TRUE ELSE WF_vars(StageMountReturn(p))

Spec == Init /\ [][Next]_vars /\ Fairness

-----------------------------------------------------------------------------
TypeOK ==
    /\ LocksTypeOK
    /\ cacheDir \in BOOLEAN
    /\ cacheFiles \subseteq Volumes
    /\ link \in [UIDs -> Volumes \cup {NoLink}]
    /\ staging \in [Volumes -> PathStates]
    /\ pc \in [Procs -> PCs]
    /\ vol \in [Procs -> Volumes]
    /\ todo \in [Procs -> SUBSET UIDs]
    /\ cur \in [Procs -> UIDs]
    /\ last \in [Volumes -> Outcomes]

Holds(p, v) == pc[p] \in LockedPCs /\ vol[p] = v

\* The lock table is exactly the set of volumes with a stage or unstage
\* past TryAcquire, and no volume has two: every return path of both
\* handlers releases, and no two goroutines run the body for one volume.
LockMatchesInFlight ==
    \A v \in Volumes :
        /\ v \in locks <=> \E p \in Procs : Holds(p, v)
        /\ \A p, q \in Procs : Holds(p, v) /\ Holds(q, v) => p = q

\* A canonical krb5cc_<uid> link never dangles: whenever it exists, the
\* volume cache file it points at exists (ensureKerberosCache writes before
\* linking, deleteKerberosCache unlinks before removing the file).
CanonicalLinkLive ==
    \A u \in UIDs : link[u] # NoLink => link[u] \in cacheFiles

\* No path ever holds two mounts stacked on top of each other: a stage
\* mounts only after ensureMountPoint found no healthy mount, and nobody
\* else mounts the staging path in between.
NoStackedMounts == \A v \in Volumes : staging[v] # "stacked"

\* Once NodeStageVolume has returned success, the staging path holds the
\* share until the next stage or unstage of that volume runs.
StagedImpliesMounted ==
    \A v \in Volumes : last[v] = "staged" => staging[v] \in {"mounted", "corrupted"}

\* After a successful NodeUnstageVolume the volume leaves nothing in the
\* ticket-cache directory: neither its cache file nor a link to it.
UnstageLeavesNoCache ==
    \A v \in Volumes :
        last[v] = "unstaged" =>
            /\ v \notin cacheFiles
            /\ \A u \in UIDs : link[u] # v

\* When ensureKerberosCache reaches os.Symlink, the canonical name it is
\* about to create is free: its Stat and Remove cleared it.
CanonicalNameFreeAtSymlink ==
    \A p \in Procs : pc[p] = "s_symlink" => link[UIDOf(p)] = NoLink

\* When deleteKerberosCache is about to remove a link, the link still
\* points at the cache file of the volume being unstaged (or is gone): it
\* never removes another volume's link.
RemovedLinkIsOwn ==
    \A p \in Procs : pc[p] = "d_remove" => link[cur[p]] \in {vol[p], NoLink}

\* A stage that found its staging path corrupted and unmounted it goes on
\* to mount, as the spec's corruption recovery says, instead of failing.
CorruptionRecovered ==
    [][\A p \in Procs :
         (pc[p] = "s_probe" /\ staging[vol[p]] = "corrupted"
          /\ staging'[vol[p]] = "dir") => pc'[p] = "s_mount"]_vars

\* Every stage and unstage request eventually returns (and so releases its
\* volume lock).
EveryRequestReturns == \A p \in Procs : pc[p] # "idle" ~> pc[p] = "idle"

=============================================================================
