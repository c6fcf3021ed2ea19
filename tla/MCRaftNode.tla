----------------------------- MODULE MCRaftNode -----------------------------
(* The instances of RaftNode that TLC checks.                              *)
EXTENDS RaftNode

(* Operations that undo and do not commute with each other.                *)
MCPayload == {<<"AddNode", 1>>, <<"TransferLeadership", 1>>, <<"Membership", 1>>}

MCLeaderOf == [t \in Term |-> t]

=============================================================================
