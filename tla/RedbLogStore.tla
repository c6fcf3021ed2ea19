---------------------------- MODULE RedbLogStore ----------------------------
(***************************************************************************)
(* The persistent raft log store, redb_log_store.rs: three tables of one   *)
(* redb database, and the purged log id that is kept in memory.  A redb    *)
(* transaction is atomic and durable when commit returns, so each          *)
(* transaction is one step; `purge' takes two, and `purging' is the log id *)
(* between them.                                                           *)
(*                                                                         *)
(* A full log id also names the leader's node; the state table keeps only  *)
(* the term and the index, and open puts node 0 in its place.              *)
(***************************************************************************)
EXTENDS Naturals, Sequences, Functions

CONSTANTS Payload,      \* what log entries carry
          Term,         \* terms, 1 .. some bound
          LeaderOf,     \* term -> node that led it
          MaxIndex, MaxBatch

VARIABLES log_table,    \* index -> entry
          vote_table,   \* term of the saved vote, 0 before the first
          state_table,  \* SerializedState: [term, index]
          last_purged,  \* in memory: [term, node, index]
          purging       \* the log id of a purge between its transactions

storeVars == <<log_table, vote_table, state_table, last_purged, purging>>

LogEntry == [term : Term, payload : Payload]

NoLogId == [term |-> 0, node |-> 0, index |-> 0]

FullLogId(t, n) == [term |-> t, node |-> LeaderOf[t], index |-> n]

(* What SerializedState keeps of a log id, and last_purged_log_id of it.   *)
Stored(id) == [term |-> id.term, index |-> id.index]
Loaded(s) == [term |-> s.term, node |-> 0, index |-> s.index]

(* find_last_log_id, by the index and not by the text of the key.          *)
FindLastLogId ==
    LET n == CHOOSE k \in DOMAIN log_table : \A i \in DOMAIN log_table : i <= k
    IN  IF log_table = <<>> THEN NoLogId ELSE FullLogId(log_table[n].term, n)

(* get_log_state.                                                          *)
LastLogId == IF FindLastLogId = NoLogId THEN last_purged ELSE FindLastLogId

(* read_log_entries: the indices of first .. last that have an entry; the  *)
(* others are skipped without an error.                                    *)
ReadLogEntries(first, last) == {i \in first..last : i \in DOMAIN log_table}

StoreInit ==
    /\ log_table = <<>> /\ vote_table = 0 /\ state_table = Stored(NoLogId)
    /\ last_purged = NoLogId /\ purging = NoLogId

(* save_vote.                                                              *)
VoteTxn(v) ==
    vote_table' = v /\ UNCHANGED <<log_table, state_table, last_purged, purging>>

(* Not the code: positions are taken for indices.                          *)
AppendTxnShifted(n, es) ==
    /\ log_table' = [i \in DOMAIN log_table \cup (n + 1)..(n + Len(es)) |->
                        IF i \in (n + 1)..(n + Len(es)) THEN es[i - n] ELSE log_table[i]]
    /\ UNCHANGED <<vote_table, state_table, last_purged, purging>>

(* append: every entry is inserted at its own index, in one transaction.   *)
AppendTxn(n, es) ==
    /\ log_table' = [i \in DOMAIN log_table \cup n..(n + Len(es) - 1) |->
                        IF i \in n..(n + Len(es) - 1) THEN es[i - n + 1] ELSE log_table[i]]
    /\ UNCHANGED <<vote_table, state_table, last_purged, purging>>

(* Not the code: the entry before n goes too.                              *)
TruncateTxnOneMore(n) ==
    /\ log_table' = Restrict(log_table, {i \in DOMAIN log_table : i + 1 < n})
    /\ UNCHANGED <<vote_table, state_table, last_purged, purging>>

(* truncate: every index from n on.                                        *)
TruncateTxn(n) ==
    /\ log_table' = Restrict(log_table, {i \in DOMAIN log_table : i < n})
    /\ UNCHANGED <<vote_table, state_table, last_purged, purging>>

(* Not the code: the entry of the log id itself stays.                     *)
PurgeTxnExclusive(id) ==
    /\ log_table' = Restrict(log_table, {i \in DOMAIN log_table : i >= id.index})
    /\ purging' = id
    /\ UNCHANGED <<vote_table, state_table, last_purged>>

(* purge, its first transaction: every index up to the log id's.           *)
PurgeTxn(id) ==
    /\ log_table' = Restrict(log_table, {i \in DOMAIN log_table : i > id.index})
    /\ purging' = id
    /\ UNCHANGED <<vote_table, state_table, last_purged>>

(* Not the code: the purged log id is not saved.                           *)
SaveStateInMemory ==
    /\ last_purged' = purging
    /\ purging' = NoLogId
    /\ UNCHANGED <<log_table, vote_table, state_table>>

(* purge, its second half: the log id in memory, then save_state.          *)
SaveState ==
    /\ last_purged' = purging
    /\ state_table' = Stored(purging)
    /\ purging' = NoLogId
    /\ UNCHANGED <<log_table, vote_table>>

(* What a process leaves behind when it dies.                              *)
StoreLost ==
    /\ last_purged' = NoLogId /\ purging' = NoLogId
    /\ UNCHANGED <<log_table, vote_table, state_table>>

(* open.                                                                   *)
OpenStore ==
    /\ last_purged' = Loaded(state_table)
    /\ UNCHANGED <<log_table, vote_table, state_table, purging>>

=============================================================================
