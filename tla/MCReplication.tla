---------------------------- MODULE MCReplication ----------------------------
(* The instances of Replication that TLC checks: node 2 of a cluster.      *)
EXTENDS Replication

WithScheme == [i \in 1..3 |-> [scheme |-> TRUE, node |-> i]]

OwnFirst == <<"own", "shared">>

NewUpdates == {"Update"}

=============================================================================
