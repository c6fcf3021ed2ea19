---------------------------- MODULE MCCollection ----------------------------
(* The instances of Collection that TLC checks.                            *)
EXTENDS Collection

SomeFaults == {"append", "imeta", "prune", "late", "reopen"}
NoFaults   == {}

(* Crash points.                                                           *)
AnyPoint   == Points
Nowhere    == {}
NotSegidx  == Points \ {"segidx"}

(* Clients.                                                                *)
AnyRequest == RequestKinds
NoAdds     == {"upsert", "update", "delete"}

=============================================================================
