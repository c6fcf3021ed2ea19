----------------------------- MODULE DurableLog -----------------------------
(***************************************************************************)
(* What a log promises of its records, without frames, headers, inodes or  *)
(* renames.  A record has a seq; whatever else it carries does not matter. *)
(***************************************************************************)
EXTENDS Naturals

CONSTANTS
    Record,     \* what can be appended
    MaxSeq      \* bound on seqs

VARIABLES
    up,         \* is the log open?
    records,    \* what it reads while it is
    acked,      \* the acknowledged records that no prune has dropped
    tried       \* unacknowledged records that the next open finds

vars == <<up, records, acked, tried>>

Init == up = FALSE /\ records = {} /\ acked = {} /\ tried = {}

-----------------------------------------------------------------------------
Open ==
    /\ ~up /\ up' = TRUE
    /\ records' = acked \cup tried
    /\ UNCHANGED <<acked, tried>>

(* An append begins: its record may be found from now on, or not yet, and  *)
(* what an earlier append left unfinished is gone.                         *)
Attempt(r) ==
    /\ up /\ \A x \in records : x.seq < r.seq
    /\ \E new \in {{}, {r}} : tried' = (tried \cap records) \cup new
    /\ UNCHANGED <<up, records, acked>>

(* It succeeds; if it fails, nothing changes.                              *)
Acknowledge(r) ==
    /\ up /\ r \in tried \ records
    /\ records' = records \cup {r} /\ acked' = acked \cup {r} /\ tried' = tried \ {r}
    /\ UNCHANGED up

Above(S, k) == {r \in S : r.seq > k}

(* A prune drops the records up to k, and no other that was promised.      *)
Prune(k) ==
    /\ up
    /\ records' = Above(records, k) /\ acked' = Above(acked, k)
    /\ tried' = Above(tried \cap records, k)
    /\ UNCHANGED up

(* The process dies, and what was not promised may be lost.                *)
Stop ==
    /\ up /\ up' = FALSE /\ records' = {}
    /\ tried' \in SUBSET tried
    /\ UNCHANGED acked

Next ==
    \/ Open \/ Stop
    \/ \E r \in Record : Attempt(r) \/ Acknowledge(r)
    \/ \E k \in 0..MaxSeq : Prune(k)

Spec == Init /\ [][Next]_vars

=============================================================================
