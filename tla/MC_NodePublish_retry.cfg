\* A publish retried while the first one still runs.
CONSTANTS
    p1 = p1
    p2 = p2
    v1 = v1
    v3 = v3
    NoKrb = NoKrb
    NoLink = NoLink
    Procs <- MCProcs
    Volumes <- MCVolumes1
    UIDs <- MCUIDs
    KrbUID <- MCKrbUID1
    FsFaults = FALSE
    MountMayHang = FALSE
    COTimeouts = TRUE
SPECIFICATION PubSpec
INVARIANT TargetNeverStacked
