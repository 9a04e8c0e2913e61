\* One goroutine, failing filesystem calls: a dangling krb5cc_<uid> link.
CONSTANTS
    p1 = p1
    p2 = p2
    v1 = v1
    v2 = v2
    v3 = v3
    NoKrb = NoKrb
    NoLink = NoLink
    Procs <- MCProcs1
    Volumes <- MCVolumes
    UIDs <- MCUIDs
    KrbUID <- MCKrbUID
    FsFaults = TRUE
    MountMayHang = FALSE
SPECIFICATION Spec
INVARIANT
    CanonicalLinkLive
