---------------------------- MODULE NodePublish ----------------------------
(***************************************************************************)
(* NodePublishVolume and NodeUnpublishVolume (nodeserver.go, 41-108)       *)
(* composed with the stage and unstage handlers of NodeServer.  Publish    *)
(* bind-mounts a volume's staging path onto its target path without taking *)
(* the volume lock, so its steps interleave freely with every other        *)
(* handler; one target path per volume is modelled.                        *)
(*                                                                         *)
(* The container orchestrator (CO) sends requests in the order the CSI     *)
(* protocol prescribes: it publishes only a volume whose stage succeeded,  *)
(* and unstages only a volume it does not consider published.  Unless     *)
(* COTimeouts holds it also waits for the answer to one request of a       *)
(* volume before sending the next; with COTimeouts it gives up waiting     *)
(* and retries while the first call still runs.                            *)
(***************************************************************************)
EXTENDS NodeServer

CONSTANT COTimeouts    \* the CO may resend a request before the first returns

ASSUME COTimeoutsAssumption == COTimeouts \in BOOLEAN

VARIABLES
    target,   \* target[v]: state of v's publish target path
    plast     \* plast[v]: outcome of the latest publish/unpublish of v

pubvars == <<target, plast>>
allvars == <<vars, pubvars>>

PubOutcomes == {"none", "busy", "published", "unpublished", "failed"}

\* No request of the CO for volume v is being served.
COIdle(v) == \A q \in Procs : pc[q] = "idle" \/ vol[q] # v

\* The CO may send a request for v now: it has the answer to the last one,
\* or it no longer waits for answers.
COMaySend(v) == COTimeouts \/ COIdle(v)

\* What a bind mount of the staging path shows at the target: the share if
\* one is mounted there, the bare directory if none is, the broken share
\* if its connection is gone.  Binding an absent path fails.
BindView(s) ==
    CASE s \in {"mounted", "stacked"} -> "mounted"
      [] s \in {"dir", "empty"}        -> "empty"
      [] s = "corrupted"              -> "corrupted"

\* A bind onto a directory holding nothing yet shows the source; onto a
\* path that holds a mount already it stacks a second one.
BindOnto(t, s) == IF t = "dir" THEN BindView(s) ELSE "stacked"

\* A bind of source s onto target t can succeed.
BindMaySucceed(t, s) == t # "absent" /\ s # "absent"

\* Return from a publish or unpublish handler (no lock to release).
PubFinish(p, outcome) ==
    /\ plast' = [plast EXCEPT ![vol[p]] = outcome]
    /\ Goto(p, "idle")

SetTarget(p, s) == target' = [target EXCEPT ![vol[p]] = s]

(***************************************************************************)
(* Mutations, each a plausible slip in the publish code.                   *)
(***************************************************************************)
\* The probe of the target ignores an existing mount (no List check).
PublishProbeMissesMount(p) ==
    /\ pc[p] = "p_probe"
    /\ \E r \in EnsureMountPointMissesMount(target[vol[p]]) :
          /\ SetTarget(p, r.path)
          /\ \/ r.err /\ PubFinish(p, "failed")
             \/ ~r.err /\ r.mounted /\ PubFinish(p, "published")
             \/ ~r.err /\ ~r.mounted /\ Goto(p, "p_mount") /\ UNCHANGED plast
    /\ UNCHANGED <<locks, cacheDir, cacheFiles, link, staging, vol, todo, cur, last>>

\* After the rollback the whole publish is tried again instead of failing.
PublishRollbackRetries(p) ==
    /\ pc[p] = "p_remove"
    /\ \/ SetTarget(p, IF target[vol[p]] = "dir" THEN "absent" ELSE target[vol[p]])
       \/ FsFaults /\ UNCHANGED target
    /\ Goto(p, "p_probe")
    /\ UNCHANGED <<locks, cacheDir, cacheFiles, link, staging, vol, todo, cur, last, plast>>

\* Unpublish reports the outcome code of unstage.
UnpublishCleanupUnstagedOutcome(p) ==
    /\ pc[p] = "up_cleanup"
    /\ \E r \in CleanupMountPoint(target[vol[p]]) :
          /\ SetTarget(p, r.path)
          /\ PubFinish(p, IF r.err THEN "failed" ELSE "unstaged")
    /\ UNCHANGED <<locks, cacheDir, cacheFiles, link, staging, vol, todo, cur, last>>

-----------------------------------------------------------------------------
PubInit ==
    /\ Init
    /\ target = [v \in Volumes |-> "absent"]
    /\ plast = [v \in Volumes |-> "none"]

\* The request's fields are validated (a request that fails validation
\* changes nothing); the read-only flag only adds "ro" to the options.
PublishRequest(p, v) ==
    /\ pc[p] = "idle"
    /\ last[v] = "staged"
    /\ COMaySend(v)
    /\ pc' = [pc EXCEPT ![p] = "p_probe"]
    /\ vol' = [vol EXCEPT ![p] = v]
    /\ plast' = [plast EXCEPT ![v] = "busy"]
    /\ UNCHANGED <<locks, cacheDir, cacheFiles, link, staging, todo, cur,
                   last, target>>

\* ensureMountPoint(target): an error returns Internal, a mount already
\* there returns success, otherwise the bind mount is issued.
PublishProbe(p) ==
    /\ pc[p] = "p_probe"
    /\ \E r \in EnsureMountPoint(target[vol[p]]) :
          /\ SetTarget(p, r.path)
          /\ \/ r.err /\ PubFinish(p, "failed")
             \/ ~r.err /\ r.mounted /\ PubFinish(p, "published")
             \/ ~r.err /\ ~r.mounted /\ Goto(p, "p_mount") /\ UNCHANGED plast
    /\ UNCHANGED <<locks, cacheDir, cacheFiles, link, staging, vol, todo, cur, last>>

\* preparePublishPath (a no-op on Linux), then Mount(source, target,
\* "bind"); on a mount error the target is removed.
PublishMount(p) ==
    /\ pc[p] = "p_mount"
    /\ \/ /\ BindMaySucceed(target[vol[p]], staging[vol[p]])
          /\ SetTarget(p, BindOnto(target[vol[p]], staging[vol[p]]))
          /\ PubFinish(p, "published")
       \/ /\ ~BindMaySucceed(target[vol[p]], staging[vol[p]])
             \/ staging[vol[p]] = "corrupted" \/ FsFaults
          /\ Goto(p, "p_remove")
          /\ UNCHANGED <<target, plast>>
    /\ UNCHANGED <<locks, cacheDir, cacheFiles, link, staging, vol, todo, cur, last>>

\* os.Remove(target) after a failed mount: removes an empty directory,
\* fails on anything else; either way the publish returns Internal.
PublishRollback(p) ==
    /\ pc[p] = "p_remove"
    /\ \/ SetTarget(p, IF target[vol[p]] = "dir" THEN "absent" ELSE target[vol[p]])
       \/ FsFaults /\ UNCHANGED target
    /\ PubFinish(p, "failed")
    /\ UNCHANGED <<locks, cacheDir, cacheFiles, link, staging, vol, todo, cur, last>>

UnpublishRequest(p, v) ==
    /\ pc[p] = "idle"
    /\ COMaySend(v)
    /\ pc' = [pc EXCEPT ![p] = "up_cleanup"]
    /\ vol' = [vol EXCEPT ![p] = v]
    /\ plast' = [plast EXCEPT ![v] = "busy"]
    /\ UNCHANGED <<locks, cacheDir, cacheFiles, link, staging, todo, cur,
                   last, target>>

\* CleanupMountPoint(target, extensive check); an error returns Internal.
UnpublishCleanup(p) ==
    /\ pc[p] = "up_cleanup"
    /\ \E r \in CleanupMountPoint(target[vol[p]]) :
          /\ SetTarget(p, r.path)
          /\ PubFinish(p, IF r.err THEN "failed" ELSE "unpublished")
    /\ UNCHANGED <<locks, cacheDir, cacheFiles, link, staging, vol, todo, cur, last>>

(***************************************************************************)
(* The environment: a published share loses its connection; a driver      *)
(* restart also ends the publish goroutines, and a bind mount in flight    *)
(* may or may not have taken effect.                                       *)
(***************************************************************************)
TargetDisconnect(v) ==
    /\ target[v] = "mounted"
    /\ target' = [target EXCEPT ![v] = "corrupted"]
    /\ UNCHANGED <<vars, plast>>

PubRestart ==
    /\ Restart
    /\ \E done \in SUBSET {p \in Procs : pc[p] = "p_mount"
                                     /\ BindMaySucceed(target[vol[p]], staging[vol[p]])} :
          target' = [v \in Volumes |->
                       IF \E p \in done : vol[p] = v
                         THEN BindOnto(target[v], staging[v]) ELSE target[v]]
    /\ plast' = [v \in Volumes |-> IF plast[v] = "busy" THEN "failed" ELSE plast[v]]

-----------------------------------------------------------------------------
\* The publish steps a goroutine takes on its own, the bind mount apart.
PubWorker(p) == PublishProbe(p) \/ PublishRollback(p) \/ UnpublishCleanup(p)

\* Stage and unstage as in NodeServer, sent in protocol order: unstage only
\* once the CO no longer considers the volume published.
PubNext ==
    \/ \E p \in Procs, v \in Volumes :
          \/ COMaySend(v) /\ StageRequest(p, v) /\ UNCHANGED pubvars
          \/ /\ COMaySend(v) /\ plast[v] \in {"none", "unpublished"}
             /\ UnstageRequest(p, v) /\ UNCHANGED pubvars
          \/ PublishRequest(p, v) \/ UnpublishRequest(p, v)
    \/ \E p \in Procs :
          \/ (Worker(p) \/ StageMountReturn(p)) /\ UNCHANGED pubvars
          \/ PubWorker(p) \/ PublishMount(p)
    \/ \E v \in Volumes : Disconnect(v) /\ UNCHANGED pubvars
    \/ \E v \in Volumes : TargetDisconnect(v)
    \/ PubRestart

\* As in NodeServer: goroutines are scheduled fairly, and a mount call
\* returns unless MountMayHang.
PubFairness ==
    \A p \in Procs :
        /\ WF_allvars(Worker(p) /\ UNCHANGED pubvars)
        /\ WF_allvars(PubWorker(p))
        /\ IF MountMayHang THEN TRUE
           ELSE /\ WF_allvars(StageMountReturn(p) /\ UNCHANGED pubvars)
                /\ WF_allvars(PublishMount(p))

PubSpec == PubInit /\ [][PubNext]_allvars /\ PubFairness

-----------------------------------------------------------------------------
PubTypeOK ==
    /\ TypeOK
    /\ target \in [Volumes -> PathStates]
    /\ plast \in [Volumes -> PubOutcomes]

\* No target path ever holds two bind mounts: a publish binds only after
\* ensureMountPoint found nothing mounted, and no other call binds the
\* same target in between; a retried publish finds the first one's mount.
TargetNeverStacked == \A v \in Volumes : target[v] # "stacked"

\* A publish that returned success left the share itself at the target
\* (perhaps broken since), never the bare staging directory: the CO
\* publishes only a staged volume, NodeStageVolume reports success only
\* with the share mounted, and nothing unmounts the staging path between
\* the publish's probe and its bind mount.
PublishedShowsShare ==
    \A v \in Volumes :
        plast[v] = "published" => target[v] \in {"mounted", "stacked", "corrupted"}

=============================================================================
