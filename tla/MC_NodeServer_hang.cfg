\* The mount primitive may hang: nothing bounds the stage.
CONSTANTS
    p1 = p1
    p2 = p2
    v1 = v1
    v2 = v2
    v3 = v3
    NoKrb = NoKrb
    NoLink = NoLink
    Procs <- MCProcs
    Volumes <- MCVolumes
    UIDs <- MCUIDs
    KrbUID <- MCKrbUID
    FsFaults = FALSE
    MountMayHang = TRUE
SPECIFICATION Spec
PROPERTY
    EveryRequestReturns
