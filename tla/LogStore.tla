------------------------------ MODULE LogStore ------------------------------
(***************************************************************************)
(* What a raft log store promises openraft: log_store.rs, the in-memory    *)
(* store, which changes its whole state under one lock and never forgets.  *)
(* RaftNode shows that the persistent store of redb_log_store.rs behaves   *)
(* like this one through crashes and reopens.                              *)
(*                                                                         *)
(* A log id is a term and an index; indices count from 1 here and from 0   *)
(* in the code, so that index 0 is Option::None.  The code's Vec is in     *)
(* index order, so it is the function from its indices to its entries.     *)
(* The guards are openraft's side of the contract: entries are appended    *)
(* after the last one, only entries a later leader overrules are           *)
(* truncated, and only what is committed, or covered by a snapshot beyond  *)
(* the end of the log, is purged.                                          *)
(***************************************************************************)
EXTENDS Naturals, Sequences, Functions

CONSTANTS LogEntry,     \* [term, payload]
          Term,         \* terms, 1 .. some bound
          MaxIndex,     \* bound on log indices
          MaxBatch      \* bound on the entries of one append

VARIABLES entries,              \* index -> entry
          last_purged_log_id,   \* [term, index]
          committed,            \* index of the committed log id
          vote                  \* term of the vote

logVars == <<entries, last_purged_log_id, committed, vote>>

NoLogId == [term |-> 0, index |-> 0]

LogId == [term : Term, index : 1..MaxIndex]

Batch == UNION {[1..k -> LogEntry] : k \in 1..MaxBatch}

IsLast(n, S) == IF S = {} THEN n = 0 ELSE n \in S /\ \A i \in S : i <= n

(* log_state: the last entry's id, or the purged id of an empty log.       *)
LastLogId ==
    LET n == CHOOSE k \in 0..MaxIndex : IsLast(k, DOMAIN entries)
    IN  IF n = 0 THEN last_purged_log_id
        ELSE [term |-> entries[n].term, index |-> n]

LogInit ==
    entries = <<>> /\ last_purged_log_id = NoLogId /\ committed = 0 /\ vote = 0

SaveVote(v) ==
    /\ v > vote
    /\ vote' = v
    /\ UNCHANGED <<entries, last_purged_log_id, committed>>

SaveCommitted(n) ==
    /\ n > committed /\ n <= LastLogId.index
    /\ committed' = n
    /\ UNCHANGED <<entries, last_purged_log_id, vote>>

Append_(es) ==
    LET n == LastLogId.index
    IN  /\ n + Len(es) <= MaxIndex
        /\ entries' = [i \in DOMAIN entries \cup (n + 1)..(n + Len(es)) |->
                          IF i > n THEN es[i - n] ELSE entries[i]]
        /\ UNCHANGED <<last_purged_log_id, committed, vote>>

Truncate(n) ==
    /\ n > committed /\ n \in DOMAIN entries /\ entries[n].term < vote
    /\ entries' = Restrict(entries, {i \in DOMAIN entries : i < n})
    /\ UNCHANGED <<last_purged_log_id, committed, vote>>

Purge(id) ==
    /\ id.index > last_purged_log_id.index
    /\ id.index <= committed \/ id.index > LastLogId.index
    /\ last_purged_log_id' = id
    /\ entries' = Restrict(entries, {i \in DOMAIN entries : i > id.index})
    /\ UNCHANGED <<committed, vote>>

LogNext ==
    \/ \E v \in Term : SaveVote(v)
    \/ \E n \in 1..MaxIndex : SaveCommitted(n) \/ Truncate(n)
    \/ \E es \in Batch : Append_(es)
    \/ \E id \in LogId : Purge(id)

LogSpec == LogInit /\ [][LogNext]_logVars

=============================================================================
