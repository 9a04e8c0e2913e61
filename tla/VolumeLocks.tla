---------------------------- MODULE VolumeLocks ----------------------------
(***************************************************************************)
(* The driver's per-volume operation lock table (d.volumeLocks).  Its code *)
(* is not under src/ (it lives beside the driver in the upstream package), *)
(* so it is modelled from the spec: a process-wide set of volume IDs that  *)
(* are currently held, with a non-blocking TryAcquire and an idempotent    *)
(* Release.  NodeStageVolume and NodeUnstageVolume take it around their    *)
(* whole body; publish and unpublish do not.                               *)
(***************************************************************************)
CONSTANT Volumes

VARIABLE locks

LocksTypeOK == locks \subseteq Volumes

\* Mutation: an acquire that records the ID without checking it is free.
TryAcquireUnchecked(v) == locks' = locks \cup {v}

\* TryAcquire(volumeID): true iff the ID was free; it is then held.  A
\* caller that gets false returns codes.Aborted and changes nothing.
TryAcquire(v) ==
    /\ v \notin locks
    /\ locks' = locks \cup {v}

\* Release(volumeID): always safe, removes the ID if present.
Release(v) == locks' = locks \ {v}

=============================================================================
