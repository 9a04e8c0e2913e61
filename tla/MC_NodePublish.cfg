\* Publish and unpublish beside stage and unstage, requests in protocol
\* order; no filesystem faults, the mount always returns.
CONSTANTS
    p1 = p1
    p2 = p2
    v1 = v1
    v3 = v3
    NoKrb = NoKrb
    NoLink = NoLink
    Procs <- MCProcs
    Volumes <- MCVolumes
    UIDs <- MCUIDs
    KrbUID <- MCKrbUID
    FsFaults = FALSE
    MountMayHang = FALSE
    COTimeouts = FALSE
SPECIFICATION PubSpec
INVARIANTS
    PubTypeOK
    TargetNeverStacked
    PublishedShowsShare
PROPERTIES
    EveryRequestReturns
