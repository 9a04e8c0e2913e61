\* Filesystem calls may fail; the lock and mount properties still hold.
CONSTANTS
    p1 = p1
    p2 = p2
    v1 = v1
    v2 = v2
    v3 = v3
    NoKrb = NoKrb
    NoLink = NoLink
    Procs <- MCProcs
    Volumes <- MCVolumes
    UIDs <- MCUIDs
    KrbUID <- MCKrbUID
    FsFaults = TRUE
    MountMayHang = FALSE
SPECIFICATION Spec
INVARIANTS
    LockMatchesInFlight
    NoStackedMounts
    StagedImpliesMounted
