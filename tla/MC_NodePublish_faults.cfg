\* Publish and unpublish beside stage and unstage, requests in protocol
\* order; every filesystem and mount-table call may fail.
CONSTANTS
    p1 = p1
    p2 = p2
    v1 = v1
    v3 = v3
    NoKrb = NoKrb
    NoLink = NoLink
    Procs <- MCProcs
    Volumes <- MCVolumes
    UIDs <- MCUIDs
    KrbUID <- MCKrbUID
    FsFaults = TRUE
    MountMayHang = FALSE
    COTimeouts = FALSE
SPECIFICATION PubSpec
INVARIANTS
    TargetNeverStacked
    PublishedShowsShare
PROPERTIES
    EveryRequestReturns
