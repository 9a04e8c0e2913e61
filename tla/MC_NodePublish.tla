--------------------------- MODULE MC_NodePublish ---------------------------
(***************************************************************************)
(* Small instances of NodePublish for TLC: two worker goroutines, one      *)
(* Kerberos volume and one without Kerberos, each with one target path.    *)
(***************************************************************************)
EXTENDS NodePublish

CONSTANTS p1, p2, v1, v3

MCProcs   == {p1, p2}
MCVolumes == {v1, v3}
MCUIDs    == {1}
MCKrbUID  == [v \in MCVolumes |-> IF v = v3 THEN NoKrb ELSE 1]
\* One Kerberos volume, for the runs where requests of it overlap.
MCVolumes1 == {v1}
MCKrbUID1  == [v \in MCVolumes1 |-> 1]

=============================================================================
