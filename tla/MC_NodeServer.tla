--------------------------- MODULE MC_NodeServer ---------------------------
(***************************************************************************)
(* Small instances of NodeServer for TLC: two worker goroutines, two       *)
(* Kerberos volumes sharing credential UID 1 (the case where the canonical *)
(* link is repointed between volumes) and one volume without Kerberos.     *)
(***************************************************************************)
EXTENDS NodeServer

CONSTANTS p1, p2, v1, v2, v3

MCProcs   == {p1, p2}
\* A single goroutine: every request runs alone.
MCProcs1  == {p1}
MCVolumes == {v1, v2, v3}
MCUIDs    == {1}
MCKrbUID  == [v \in MCVolumes |-> IF v = v3 THEN NoKrb ELSE 1]

=============================================================================
