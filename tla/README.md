# TLA+ verification of the SMB CSI node server

This directory models `src/pkg/smb/nodeserver.go`. That file is the node half of the SMB CSI driver. The models are model-checked with TLC and partly proved with TLAPS.

## 1. The system

The spec (`spec.md`) names four components. The code has them as follows.

| Component | Code | State it changes |
|---|---|---|
| Path Mount Prober | `ensureMountPoint`, `makeDir` (358-425) | Creates the staging or target directory. Unmounts a corrupted mount. |
| Credential Cache Manager | `ensureKerberosCache` (503-545), `deleteKerberosCache` (547-591), naming helpers (436-498) | Volume-named ticket-cache files. The canonical `krb5cc_<uid>` symlinks. |
| Volume Lock Table | `d.volumeLocks` (not under `src/`) | The set of volume IDs with an operation in flight. |
| Mount Orchestrator | `NodeStageVolume` (111-242), `NodeUnstageVolume` (245-271), `NodePublishVolume` / `NodeUnpublishVolume` (41-108) | Mounts at staging and target paths, through the components above. |

### How they interact

- Each gRPC request runs on its own goroutine.
- Stage and unstage take the per-volume lock with a non-blocking `TryAcquire`. On contention they return `Aborted`. They release the lock with `defer`.
- Inside the lock, stage does this:
  1. writes the ticket cache (`sec=krb5` only);
  2. runs `MkdirAll` on the staging path;
  3. probes the path;
  4. calls `Mount` once, inside `wait.PollImmediate`.
- Unstage does this:
  1. runs `CleanupSMBMountPoint`;
  2. deletes the cache. It scans the cache directory for links to the volume's file, removes those links, then removes the file.
- The cache directory is shared by all volumes. A `krb5cc_<uid>` link belongs to the *credential UID*, not to a volume. So stages and unstages of *different* volumes with the same `cruid=` touch the same name. Nothing serialises them.

### What makes it hard

- Goroutines interleave between the filesystem calls.
- The driver process can restart at any point. The lock table and goroutines are lost. Mounts, files and links survive.
- A share's connection can go away, which leaves a corrupted mount.
- Filesystem calls can fail. Several removals are best-effort.
- The mount primitive can hang.

## 2. Modules

- **`VolumeLocks`** models the lock table. Its code is not under `src/`, so it is modelled from spec section 4.3.
  - `locks` is the set of held IDs.
  - `TryAcquire(v)` is enabled only when `v` is free.
  - `Release(v)` removes `v` and is idempotent.
- **`NodeServer`** extends `VolumeLocks`. It models stage and unstage on the Linux build, plus the environment.
- **`NodePublish`** extends `NodeServer` with `NodePublishVolume` and `NodeUnpublishVolume` (lines 41-108). It is described below.
- **`MC_NodeServer`** and **`MC_NodePublish`** are the TLC instances.
- **`NodeServerProofs`**, **`NodeServerMountProofs`**, **`NodeServerCacheProofs`**, **`NodePublishProofs`** and **`NodePublishShareProofs`** hold the TLAPS proofs. Each extends the module whose lemmas it reuses: `NodeServerMountProofs` extends `NodeServerProofs`, `NodeServerCacheProofs` and `NodePublishProofs` extend `NodeServerMountProofs`, and `NodePublishShareProofs` extends `NodePublishProofs`.

### NodeServer state

| Variable | Meaning in the code |
|---|---|
| `cacheDir` | `krb5CacheDirectory` exists. The driver never creates it, so it is chosen in `Init`. |
| `cacheFiles` | Volumes whose volume-named cache file (`volumeKerberosCacheName`) exists. |
| `link[u]` | The volume whose file `krb5cc_<u>` points at, or `NoLink`. |
| `staging[v]` | The staging path of `v`: `absent`, `dir`, `mounted`, `corrupted` (ReadDir fails), or `stacked` (two mounts on one path). |
| `pc[p]`, `vol[p]` | The next call of goroutine `p`, and the volume ID of its request. |
| `todo[p]`, `cur[p]` | The `ReadDir` snapshot still to visit in `deleteKerberosCache`, and the link about to be removed. |
| `last[v]` | What the latest stage or unstage of `v` returned: `busy` while it runs, then `staged`, `unstaged` or `failed`. |

### Actions

Every action is one filesystem or mount call of the code, with the branches that follow it. So goroutines interleave exactly where they can. Each action's guard comes from the code's conditions and error returns.

- **`StageRequest`, `UnstageRequest`:** a request arrives (111-153, 245-253). A request that fails field validation changes nothing, so it is not a separate step.
- **`StageAcquire`:** `TryAcquire`. On failure the request is `Aborted`. A volume without `sec=krb5` skips the cache (154-187).
- **Stage cache steps:**
  - `EnsureCacheWrite`: the directory check, `cruid=`, the secret, `WriteFile` and `Chown`.
  - `EnsureCacheStat`: `os.Stat` follows the link, modelled by `LinkResolves`.
  - `EnsureCacheRemove`: a failed remove is only logged.
  - `EnsureCacheSymlink`: fails when the name exists.
- **Rest of the stage:**
  - `StageMkdir` (191-193).
  - `StageProbe`: picks one result of `EnsureMountPoint`, then returns, fails or goes on to mount.
  - `StageMountReturn`: the single `Mount` call returns.
- **Unstage:**
  - `UnstageAcquire`.
  - `UnstageCleanup`: `CleanupMountPoint`, which is modelled from the spec.
  - The cache deletion: `DeleteCacheStart` (the two "nothing to do" returns, then the `ReadDir` snapshot), `DeleteCacheScan` (`Lstat` and `Readlink` of one entry), `DeleteCacheRemoveLink` and `DeleteCacheRemoveFile`.
- **`Finish`:** every return from a locked handler. It is the deferred `Release` together with the outcome.
- **`Disconnect(v)`:** a healthy mount loses its server.
- **`Restart`:** the driver crashes. A mount that was in flight may or may not have taken effect.

### How `EnsureMountPoint` works

`EnsureMountPoint(s)` is the set of `[mounted, err, path]` results that the code can return for a path in state `s`. It keeps what the code does after a successful recovery unmount: the `err` returned at line 406 is the `ReadDir` error from line 394. The `:=` at line 401 shadows only the `Unmount` error, so the ReadDir error is still returned. `MkdirAll` on a corrupted mount may succeed or fail, depending on the share.

### NodePublish: publish and unpublish

Publish takes no volume lock, so its steps interleave with every stage, unstage and other publish. One target path per volume is modelled.

| Variable | Meaning in the code |
|---|---|
| `target[v]` | The target path of `v`, in the same states as a staging path, plus `empty`: a bind mount of a staging directory on which no share is mounted. |
| `plast[v]` | What the latest publish or unpublish of `v` returned: `busy` while one runs, then `published`, `unpublished` or `failed`. |

- **`PublishRequest`** (42-64): the field checks; the read-only flag only adds `ro`.
- **`PublishProbe`** (66-73): `ensureMountPoint(target)`. An error fails, a mount already there succeeds, otherwise the bind is issued.
- **`PublishMount`** (75-80): `preparePublishPath` (not under `src/`; a no-op on Linux), then `Mount(source, target, "bind")`. `BindOnto` gives the result: the share if staging holds one, `empty` if staging is a bare directory, `stacked` if the target already holds a mount. Binding from or onto an absent path fails, and so may binding a corrupted source.
- **`PublishRollback`** (81-85): `os.Remove(target)`. It removes a bare directory and fails on anything else. The publish fails either way.
- **`UnpublishRequest`**, **`UnpublishCleanup`** (91-107): `CleanupMountPoint` on the target.
- **Environment:** `TargetDisconnect(v)` corrupts a published share. `PubRestart` is `Restart`, plus a bind in flight that may have taken effect.

The container orchestrator (CO) is an explicit assumption of the composition:
- it publishes only a volume whose last stage succeeded;
- it unstages only a volume it does not consider published;
- unless `COTimeouts`, it waits for the answer to one request of a volume before it sends the next. With `COTimeouts` it retries while the first call still runs.

### Constants

- `FsFaults` lets every filesystem and mount-table call fail.
- `MountMayHang` lets `Mount` never return.
- `COTimeouts` (in `NodePublish`) lets the CO overlap requests of one volume.

### Abstractions

- File names are abstracted to volume IDs and cruids.
- Option shaping, subDir substitution and logging are left out. They build strings and change no state.
- The order of `ReadDir` entries is abstracted to a nondeterministic choice. The real order is lexical. This over-approximates every order.

### Fairness

Each goroutine's own steps are weakly fair. The Go scheduler runs every runnable goroutine, and each step is a syscall that returns. `Mount`, the staging mount and the bind mount alike, is fair only when `~MountMayHang`. Requests, disconnects and restarts are not fair: the orchestrator need not send anything.

## 3. Runs

Every run uses the instance in `MC_NodeServer`:

- two goroutines;
- three volumes. `v1` and `v2` are Kerberos volumes that share cruid 1, so the canonical link is repointed between them. `v3` has no Kerberos.

This is the smallest instance with these features:

- a race between two volumes on one `krb5cc_<uid>`;
- a stage that meets an unstage;
- lock contention on a single volume;
- a volume that skips the cache entirely.

A third goroutine would only repeat those interleavings.

| Run | Config | Expect | Checks |
|---|---|---|---|
| core | `MC_NodeServer.cfg` | pass (about 440k states) | `TypeOK`, `LockMatchesInFlight`, `CanonicalLinkLive`, `NoStackedMounts`, `StagedImpliesMounted`, `UnstageLeavesNoCache` |
| faults | `MC_NodeServer_faults.cfg` | pass (about 650k states) | `LockMatchesInFlight`, `NoStackedMounts`, `StagedImpliesMounted`, with `FsFaults` |
| symlink_race | `..._symlink_race.cfg` | violation | `CanonicalNameFreeAtSymlink` |
| unlink_race | `..._unlink_race.cfg` | violation | `RemovedLinkIsOwn` |
| corruption | `..._corruption.cfg` | violation | `CorruptionRecovered` |
| hang | `..._hang.cfg` | violation | `EveryRequestReturns`, with `MountMayHang` |
| dangling_link | `..._dangling.cfg` | violation | `CanonicalLinkLive`, one goroutine, with `FsFaults` |

The stage/unstage runs check no liveness property in passing runs. Each handler is a loop-free sequence of steps, apart from the `range` over a `ReadDir` snapshot, which always ends. So the only way a stage or unstage can fail to return is a `Mount` that never returns, and the `hang` run shows that case.

There is no abstract specification of the cache directory for the handlers to refine. An atomic one whose `Link` needs an existing file on a free name, and whose `Remove` needs an unlinked file, would only restate `CanonicalLinkLive` and the rule that `os.Symlink` will not overwrite a name. One whose `Unlink` also requires the link to still name the volume (spec section 3) is not implemented, and the `unlink_race` run already shows why.

The publish runs use `MC_NodePublish`: volumes `v1` (Kerberos) and `v3`, each with one target. `publish` and `publish_faults` use two goroutines. The runs where the CO overlaps requests use only `v1`, so that every call meets the others on one volume.

| Run | Config | Expect | Checks |
|---|---|---|---|
| publish | `MC_NodePublish.cfg` | pass (about 307k states) | `PubTypeOK`, `TargetNeverStacked`, `PublishedShowsShare`, `EveryRequestReturns` |
| publish_faults | `MC_NodePublish_faults.cfg` | pass (about 353k states) | `TargetNeverStacked`, `PublishedShowsShare`, `EveryRequestReturns`, with `FsFaults` |
| publish_retry | `MC_NodePublish_retry.cfg` | violation | `TargetNeverStacked`, with `COTimeouts` |
| empty_bind | `MC_NodePublish_empty_bind.cfg` | violation | `PublishedShowsShare`, with `COTimeouts` |

### What the properties say

- **`LockMatchesInFlight`:** the lock table holds exactly the volumes with a handler past `TryAcquire`, and at most one handler per volume. This holds across every error path and every restart.
- **`CanonicalLinkLive`:** a `krb5cc_<uid>` link always points at an existing cache file.
- **`NoStackedMounts`:** no path ever gets a second mount, even when a crash happens after a mount took effect.
- **`StagedImpliesMounted`:** once a stage has returned success, the path holds the share (possibly corrupted since) until the next operation on that volume.
- **`UnstageLeavesNoCache`:** after a successful unstage there is neither the volume's file nor a link to it. This is the spec's cache round trip.
- **`EveryRequestReturns`:** every request eventually returns. In the publish runs this covers a failed bind whose rollback `os.Remove` fails as well.
- **`TargetNeverStacked`:** no target path ever holds two bind mounts. A retried publish finds the first one's mount.
- **`PublishedShowsShare`:** after a successful publish, the target shows the share (possibly broken since), never the bare staging directory. This rests on the CO's order, on `StagedImpliesMounted`, and on no call unmounting the staging path between the publish's probe and its bind.

### What the violations show

These are listed under `findings` in `PROJECT.json`.

- **symlink_race:** a concurrent stage of another volume with the same cruid recreates `krb5cc_<uid>` between Stat/Remove and Symlink. The stage fails with EEXIST.
- **unlink_race:** between `Readlink` and `Remove`, a stage of another volume repoints the link. The unstage then deletes that volume's live link.
- **corruption:** a stage fails after successfully unmounting a corrupted path. Spec section 7 says this recovery is not surfaced as an error.
- **hang:** `PollImmediate` runs the condition synchronously. A hung `Mount` never times out, and it keeps the volume lock forever.
- **dangling_link:** an unstage's best-effort `os.Remove` of the link fails (line 578), and it still removes the volume file (585). `krb5cc_<uid>` now dangles. A later stage's `os.Stat` follows it, reports not-exist and skips the `Remove`, so its `Symlink` fails with EEXIST. Every Kerberos stage with that cruid then fails.
- **publish_retry:** when the CO retries a publish that is still running, both calls find the target unmounted and both bind it. The target gets two stacked mounts.
- **empty_bind:** a publish overlaps a retried stage of a volume whose connection is gone. The stage's corruption recovery unmounts the staging path between the publish's probe and its bind. The publish binds the empty directory and reports success.

The last two need the CO to overlap requests. With the CO's order, the `publish` runs and `PublishNeverStacks` show that neither can happen.

Every property of a passing run has a mutant in `PROJECT.json`: a plausible slip in the code (a missing release, a missing link scan, an ignored mount error, and so on) that TLC shows the property catches.

## 4. Proofs

### `NodeServerProofs`

- **`TypeCorrect`:** `Spec => []TypeOK`, for all values of the constants. It rests on `InitTypeOK` and `NextTypeOK`, which has one step per action.
- **`LinkNeverDangles`:** assuming `~FsFaults`, `Spec => [](CanonicalLinkLive /\ LockMatchesInFlight)`.
  - Neither property is inductive by itself. The proof uses `IInv`, which adds these conjuncts:
    - `OwnFileWritten`: a stage past the write has its file.
    - `VisitedLinksCleared`: links the scan already visited no longer point at the volume being unstaged.
    - `RemovingVisited`: the link about to be removed is in the snapshot.
    - `AllLinksCleared`: at the final remove, no link points at the file.
  - TLC checked `IInv` as an invariant of the core run before it was proved.
  - `NextIInv` has one step per action. Each step first states the action's effect on the variables `IInv` reads (`<2>0`), then takes one substep per conjunct. Under `~FsFaults` every best-effort call succeeds, so the fault branches drop out.
  - `LockedUnique` derives from `LockMatchesInFlight` that two workers in the locked region have different volumes. This is what rules out an unstage removing a file that a stage of the same volume is about to link.
  - The lemma `LockStep` states the lock bookkeeping once: a step that stays inside or outside the lock, acquires, or releases preserves `LockMatchesInFlight`.
  - The assumption `~FsFaults` is needed. A failed best-effort `Remove` of a link (line 578), followed by removal of the file, really does leave a dangling link.

### `StagingMountsSound` (`NodeServerMountProofs`)

`Spec => [](LockMatchesInFlight /\ NoStackedMounts /\ StagedImpliesMounted)` holds for all values of the constants. It needs no assumption on `FsFaults` or `MountMayHang`: the lock bookkeeping holds with faults, because every error path releases. The inductive invariant `MInv` adds these conjuncts to `TypeOK` and `LockMatchesInFlight`:
- `MountingOntoDir`: a stage about to mount finds its staging path a bare directory.
- `BusyWhileLocked`: while a stage or unstage holds the lock, the volume's outcome reads `busy`. So a step that changes the path cannot break a success reported earlier.
- `StagingClean`: no staging path is stacked, or holds a bind of an empty directory.

The lemma `LockedMInv` covers every step taken inside the lock at once. Such a step may set its own path to a clean state. It may move to `s_mount` only with a bare directory, and it may return `staged` only with the share mounted. `LockedUnique` keeps the step off every other locked worker's volume. `NextMInv` proves TryAcquire, the requests, `Disconnect` and `Restart` directly. For `Restart`, `MountingOntoDir` makes every in-flight mount that takes effect land on a bare directory. TLC checked `MInv` as an invariant of the `faults` instance before it was proved.

The corollary **`StagedStaysMounted`** states `Spec => []StagedImpliesMounted` on its own.

### `UnstageCleansCache` (`NodeServerCacheProofs`)

Assuming `~FsFaults`, `Spec => []UnstageLeavesNoCache` holds for all values of the constants. The inductive invariant `UInv` combines `IInv`, `MInv` and `NoDirNoFiles` (no cache directory means no cache files). The argument:
- An unstage reports success in two places:
  - `deleteKerberosCache` finds nothing to delete. Either there is no directory, so no files by `NoDirNoFiles`, or there is no volume file, so no link by `CanonicalLinkLive`.
  - It removes the file after `AllLinksCleared`.
- After that, only a stage of the same volume could write the file or link to it. Such a stage holds the lock, so the volume's outcome reads `busy` (`BusyWhileLocked`) until it returns.
- The lemma `CacheFrame` states this once. A step that writes, links or unlinks only for volume `w`, and changes no outcome but `w`'s (and not to `unstaged`), keeps the property.

The assumption is needed. TLC finds the counterexample on the `faults` instance: the final `os.Remove` of the volume file (line 585) fails, the failure is only logged, and the unstage still returns success with the file in place. This is the best-effort cleanup the spec asks for (section 4.2), so it is not a finding.

### `PublishNeverStacks` (`NodePublishProofs`)

Assuming `~COTimeouts`, `PubSpec => []TargetNeverStacked` holds for all values of the constants, with or without `FsFaults` and `MountMayHang`. The inductive invariant `PubIInv` adds two conjuncts:
- `OneCallPerVolume`: no two requests of one volume are in flight.
- `BindingOntoDir`: a publish about to bind finds its target a bare directory.

The proof uses these lemmas:
- `WorkerFrame`: a stage or unstage step moves only its own pc, never to a publish step, and changes no request's volume.
- `ProbeResult` and `CleanupResult` (from `NodeServerMountProofs`): `ensureMountPoint` and `CleanupMountPoint` leave a path stacked or empty only if it already was, and the probe asks for a mount only on a bare directory.
- `BindOntoDir`: binding an existing source onto a bare directory never stacks.

A driver restart may let in-flight binds take effect. `BindingOntoDir` covers them too. TLC checked `PubIInv` as an invariant of the `publish_faults` instance before it was proved.

### `PubTypeCorrect` and `PubStagingSound` (`NodePublishProofs`)

Both hold for all values of the constants, `COTimeouts` included:
- `PubTypeCorrect`: `PubSpec => []PubTypeOK`.
- `PubStagingSound`: `PubSpec => [](LockMatchesInFlight /\ NoStackedMounts /\ StagedImpliesMounted)`.

The lemma `PubStep` splits the composition. Every step of `PubSpec` is either a step of `NodeServer`'s `Next` (or a stutter of it), or a `PubLocal` step. A `PubLocal` step belongs to one publish or unpublish call. It moves that call's pc among idle and the publish steps, may name its volume, and leaves every stage and unstage variable alone. `NextMInv` covers the first kind, and `LocalMInv` the second, because a publish never holds a volume lock. So the stage invariant `MInv` carries over to the composition unchanged (`NextPubMInv`). TLC checked `MInv /\ PubTypeOK` on an instance with `COTimeouts` and three goroutines before it was proved.

### `PublishShowsShare` (`NodePublishShareProofs`)

Assuming `~COTimeouts`, `PubSpec => []PublishedShowsShare` holds for all values of the constants, with or without `FsFaults` and `MountMayHang`. The inductive invariant `SInv` extends `PubIInv`, `MInv` and `PubTypeOK` with:
- `PubBusy`: while a publish or unpublish runs, its volume's publish outcome reads `busy`.
- `PublishingStaged`: a publish in flight finds its volume staged. The CO publishes only a staged volume, and it sends no stage or unstage of that volume until the publish answers.
- `TargetNeverEmpty`: no target holds a bind of a bare staging directory.

With `StagedImpliesMounted`, `PublishingStaged` makes the bind source hold the share. The lemma `BindShare` then makes the bind show it, including a bind that takes effect during a restart. TLC checked `SInv` on the `publish_faults` instance before it was proved.

The assumption is needed. Under `COTimeouts` a retried stage can unmount the staging path between the publish's probe and its bind. The `empty_bind` run shows this, and it is a finding.

Only TLC checks these:

- **Liveness (`EveryRequestReturns`).** TLAPS does not handle fairness or `ENABLED`.
- **The violation runs.** These are counterexamples, which TLC finds. They show that each proof's assumption (`~FsFaults`, `~COTimeouts`) cannot be dropped.

Every safety invariant of a passing run is now stated by a theorem.

The constant assumptions are in `ConstAssumption`. They are no stronger than the code needs: nonempty sets, and the sentinels `NoKrb` and `NoLink` outside the value sets.

## 5. Not modelled

- **Several targets per volume.** One target per volume already exercises every interleaving of the publish code. A second target binds the same staging path through the same steps.
- **Two binds of one target that both complete during a restart.** `PubRestart` applies at most one layer per target. Only a CO that overlaps publishes can produce this case, and the `publish_retry` run already shows it stacking.
- **The Windows branch:** option shaping only.
- **The stateless queries:** stats, capabilities, info and expand.
- **The base64 naming of cache files.**
- **Whether the source of an existing mount matches the request.** This is spec section 9's open question, and a hazard in `PROJECT.json`. Each volume ID has one share in the model. A mount of another source can only come from outside the driver.

## 6. Plan for later work

1. A pure `CacheNames` module: `volumeKerberosCacheName` is injective, and it never collides with `krb5cc_<uid>`, checked over bounded inputs.
2. An abstract orchestrator spec with atomic stage, unstage, publish and unpublish, refined by `NodePublish` with `pc` hidden.
