------------------------------ MODULE RaftNode ------------------------------
(***************************************************************************)
(* One node of a cluster as rekha-cli's serve builds it: the persistent    *)
(* log store of RedbLogStore and the cluster state machine of              *)
(* state_machine.rs, which is kept in memory only, under openraft.         *)
(*                                                                         *)
(* openraft is external.  What it does to this node is written as the      *)
(* guards of the actions: `agreed' is the log the cluster has committed,   *)
(* an append follows a log that matches it, only what a later leader       *)
(* overrules is truncated, committed entries are applied in order, and a   *)
(* purge follows a snapshot.  Calls into the log store come from one task, *)
(* one at a time.  An incomplete range of entries is an error to openraft, *)
(* and a storage error stops it: pc is "halted".                           *)
(*                                                                         *)
(* The state machine: nodes, which of them carry is_leader, collections,   *)
(* membership, and the index of last_applied.                              *)
(***************************************************************************)
EXTENDS RedbLogStore

CONSTANTS Transport,    \* "http" (network.rs) or "channel" (its channel module)
          ApiKey,       \* is REKHA_API_KEY set?
          CrashAt,      \* where the process may die: "idle", "purging"
          MaxCrash

VARIABLES pc,           \* "down", "up" or "halted"
          known,        \* commit index that this process has learned
          sm,           \* ClusterStateMachine
          snapshot,     \* the snapshot openraft holds
          owed,         \* index an installed snapshot still has to purge
          agreed,       \* history: the committed log of the cluster
          held,         \* history: highest committed index this node stored
          crashes

vars == <<storeVars, pc, known, sm, snapshot, owed, agreed, held, crashes>>
raftVars == <<pc, known, sm, snapshot, owed, agreed, held, crashes>>

(* What an entry carries: nothing, a membership or a ClusterOperation.     *)
PayloadKinds == {"Blank", "Membership", "AddNode", "RemoveNode", "AddCollection",
                 "RemoveCollection", "TransferLeadership"}

ASSUME RaftNodeAssumption ==
    /\ \A p \in Payload : p[1] \in PayloadKinds
    /\ MaxIndex \in Nat /\ MaxBatch \in Nat /\ MaxCrash \in Nat
    /\ Term \subseteq Nat \ {0} /\ LeaderOf \in [Term -> Nat]
    /\ Transport \in {"http", "channel"} /\ ApiKey \in BOOLEAN
    /\ CrashAt \subseteq {"idle", "purging"}

-----------------------------------------------------------------------------
(* Transport.  send_rpc posts to /internal/raft/<path>; these are the      *)
(* paths it is given, and the ones internal_routes serves.  The middleware *)
(* wants the API key, which send_rpc never sends.                          *)

RpcPath == [append_entries   |-> <<"append_entries">>,
            vote             |-> <<"vote">>,
            install_snapshot |-> <<"raft", "install_snapshot">>]

Routes == {<<"append_entries">>, <<"vote">>, <<"install_snapshot">>}

Authorized == ~ApiKey

Delivered(rpc) ==
    \/ Transport = "channel"
    \/ Authorized /\ RpcPath[rpc] \in Routes

-----------------------------------------------------------------------------
(* The state machine.                                                      *)

NewSm == [nodes |-> {}, leaders |-> {}, collections |-> {}, membership |-> 0,
          last_applied |-> 0]

(* apply_operation.  Adding a node anew clears its is_leader; a transfer   *)
(* sets it on every node to whether it is the new leader.                  *)
ApplyOperation(s, p) ==
    LET x == p[2]
    IN  CASE p[1] = "AddNode"          -> [s EXCEPT !.nodes = @ \cup {x}, !.leaders = @ \ {x}]
          [] p[1] = "RemoveNode"       -> [s EXCEPT !.nodes = @ \ {x}, !.leaders = @ \ {x}]
          [] p[1] = "AddCollection"    -> [s EXCEPT !.collections = @ \cup {x}]
          [] p[1] = "RemoveCollection" -> [s EXCEPT !.collections = @ \ {x}]
          [] p[1] = "TransferLeadership" -> [s EXCEPT !.leaders = s.nodes \cap {x}]

(* apply, for one entry: an operation, a membership, or nothing.           *)
ApplyEntry(s, e) ==
    LET at == [s EXCEPT !.last_applied = @ + 1]
    IN  CASE e.payload[1] = "Blank"      -> at
          [] e.payload[1] = "Membership" -> [at EXCEPT !.membership = at.last_applied]
          [] OTHER                       -> ApplyOperation(at, e.payload)

(* apply, for all of them.                                                 *)
ApplyAll(s, es) ==
    LET after[k \in 0..Len(es)] == IF k = 0 THEN s ELSE ApplyEntry(after[k - 1], es[k])
    IN  after[Len(es)]

(* What the committed log says the state is after its first n entries.     *)
StateAfter(n) == ApplyAll(NewSm, SubSeq(agreed, 1, n))

(* build_snapshot and get_current_snapshot: the state machine's fields,    *)
(* and its last_applied and membership once more in the meta.              *)
SnapshotOf(s) ==
    [data |-> s, last_log_id |-> s.last_applied, last_membership |-> s.membership]

(* Not the code: last_applied is left as it was.                           *)
InstalledWithoutMeta(snap) == [snap.data EXCEPT !.last_applied = sm.last_applied]

(* install_snapshot: the data, then last_applied and membership from the   *)
(* meta.  serve gives the state machine no engine to restore.              *)
Installed(snap) ==
    [snap.data EXCEPT !.last_applied = snap.last_log_id,
                      !.membership = snap.last_membership]

-----------------------------------------------------------------------------
Init ==
    /\ StoreInit
    /\ pc = "down" /\ known = 0 /\ sm = NewSm /\ snapshot = SnapshotOf(NewSm)
    /\ owed = 0 /\ agreed = <<>> /\ held = 0 /\ crashes = 0

(* The log agrees with the committed log up to n.                          *)
MatchesUpTo(n) ==
    \A i \in 1..n : i > last_purged.index => i \in DOMAIN log_table /\ log_table[i] = agreed[i]

(* The task that calls the log store is free.                              *)
Serving == pc = "up" /\ purging = NoLogId

(* Raft::new: openraft loads the log ids after the purged one, and fails   *)
(* on a hole; the state machine has applied nothing.                       *)
Start ==
    /\ pc = "down"
    /\ OpenStore
    /\ LET first == state_table.index + 1
       IN  pc' = IF log_table = <<>> \/ first \in DOMAIN log_table THEN "up" ELSE "halted"
    /\ UNCHANGED <<known, sm, snapshot, owed, agreed, held, crashes>>

(* A vote request, or an election of its own.                              *)
Vote(v) ==
    /\ Serving /\ v > vote_table
    /\ VoteTxn(v)
    /\ UNCHANGED raftVars

(* Entries of the present leader, after a log that matches.                *)
AppendEntries(es) ==
    LET n == LastLogId.index
    IN  /\ Serving /\ owed = 0
        /\ n + Len(es) <= MaxIndex
        /\ MatchesUpTo(IF n < Len(agreed) THEN n ELSE Len(agreed))
        /\ \A k \in 1..Len(es) :
              IF n + k <= Len(agreed) THEN es[k] = agreed[n + k]
              ELSE es[k].term = vote_table
        /\ n + Len(es) > Len(agreed) => vote_table >= LastLogId.term
        /\ AppendTxn(n + 1, es)
        /\ UNCHANGED raftVars

(* A later leader overrules the entries from n on.                         *)
TruncateFrom(n) ==
    /\ Serving /\ owed = 0
    /\ n \in DOMAIN log_table /\ log_table[n].term < vote_table
    /\ n <= Len(agreed) => log_table[n] # agreed[n]
    /\ n > held
    /\ TruncateTxn(n)
    /\ UNCHANGED raftVars

(* The cluster commits its next entry: one that this node has, or another  *)
(* one, of a term that this node's own entry there is not of.              *)
Agree(e) ==
    LET n == Len(agreed) + 1
    IN  /\ n <= MaxIndex
        /\ n > 1 => e.term >= agreed[n - 1].term
        /\ \/ n \notin DOMAIN log_table
           \/ n \in DOMAIN log_table /\ log_table[n].term # e.term
           \/ /\ n \in DOMAIN log_table /\ log_table[n] = e
              /\ \A i \in 1..(n - 1) : i \in DOMAIN log_table => log_table[i] = agreed[i]
        /\ agreed' = Append(agreed, e)
        /\ UNCHANGED <<storeVars, pc, known, sm, snapshot, owed, held, crashes>>

(* The node learns the commit index.                                       *)
LearnCommit(n) ==
    /\ Serving /\ owed = 0
    /\ n > known /\ n <= Len(agreed) /\ n <= LastLogId.index
    /\ MatchesUpTo(n)
    /\ known' = n
    /\ held' = IF n > held THEN n ELSE held
    /\ UNCHANGED <<storeVars, pc, sm, snapshot, owed, agreed, crashes>>

(* Committed entries are read from the log and applied.                    *)
Apply(n) ==
    LET first == sm.last_applied + 1
    IN  /\ Serving
        /\ first <= n /\ n <= known
        /\ IF ReadLogEntries(first, n) = first..n
           THEN /\ sm' = ApplyAll(sm, [k \in 1..(n - first + 1) |-> log_table[first + k - 1]])
                /\ pc' = pc
           ELSE pc' = "halted" /\ sm' = sm
        /\ UNCHANGED <<storeVars, known, snapshot, owed, agreed, held, crashes>>

BuildSnapshot ==
    /\ pc = "up"
    /\ snapshot' = SnapshotOf(sm)
    /\ UNCHANGED <<storeVars, pc, known, sm, owed, agreed, held, crashes>>

(* A leader whose log no longer reaches back sends its snapshot.           *)
InstallSnapshot(n) ==
    /\ Serving /\ owed = 0 /\ Delivered("install_snapshot")
    /\ n > known /\ n <= Len(agreed) /\ n > LastLogId.index
    /\ snapshot' = SnapshotOf(StateAfter(n))
    /\ sm' = Installed(snapshot')
    /\ known' = n /\ owed' = n
    /\ UNCHANGED <<storeVars, pc, agreed, held, crashes>>

(* openraft purges what an installed snapshot replaces, or some of what    *)
(* the last snapshot covers.                                               *)
BeginPurge(n) ==
    /\ Serving
    /\ n > last_purged.index
    /\ IF owed # 0 THEN n = owed ELSE n <= snapshot.last_log_id
    /\ PurgeTxn(FullLogId(agreed[n].term, n))
    /\ owed' = 0
    /\ UNCHANGED <<pc, known, sm, snapshot, agreed, held, crashes>>

EndPurge ==
    /\ pc = "up" /\ purging # NoLogId
    /\ SaveState
    /\ UNCHANGED raftVars

Crash ==
    /\ pc # "down" /\ crashes < MaxCrash
    /\ (IF purging = NoLogId THEN "idle" ELSE "purging") \in CrashAt
    /\ StoreLost
    /\ pc' = "down" /\ known' = 0 /\ sm' = NewSm /\ snapshot' = SnapshotOf(NewSm) /\ owed' = 0
    /\ crashes' = crashes + 1
    /\ UNCHANGED <<agreed, held>>

Next ==
    \/ Start \/ BuildSnapshot \/ EndPurge \/ Crash
    \/ \E v \in Term : Vote(v)
    \/ \E es \in UNION {[1..k -> LogEntry] : k \in 1..MaxBatch} : AppendEntries(es)
    \/ \E e \in LogEntry : Agree(e)
    \/ \E n \in 1..MaxIndex : \/ TruncateFrom(n) \/ LearnCommit(n) \/ Apply(n)
                              \/ InstallSnapshot(n) \/ BeginPurge(n)

Spec == Init /\ [][Next]_vars

-----------------------------------------------------------------------------
(* Properties.                                                             *)

TypeOK ==
    /\ DOMAIN log_table \subseteq 1..MaxIndex
    /\ \A i \in DOMAIN log_table : log_table[i] \in LogEntry
    /\ vote_table \in Term \cup {0}
    /\ state_table \in [term : Term \cup {0}, index : 0..MaxIndex]
    /\ {last_purged, purging} \subseteq [term : Term \cup {0}, node : Nat, index : 0..MaxIndex]
    /\ pc \in {"down", "up", "halted"}
    /\ agreed \in Seq(LogEntry) /\ Len(agreed) <= MaxIndex
    /\ known \in 0..Len(agreed) /\ held \in 0..Len(agreed) /\ owed \in 0..Len(agreed)
    /\ sm.last_applied \in 0..known
    /\ crashes \in 0..MaxCrash

(* The state machine is what the committed log makes of it up to           *)
(* last_applied, however it came there: applied in batches, replayed after *)
(* a restart, or installed from a snapshot.                                *)
StateMachineAgrees == sm = StateAfter(sm.last_applied)

(* Every committed entry that the node has stored is in the log, or not    *)
(* after the purged log id the store reports.                              *)
NoHole ==
    Serving => \A i \in 1..held :
        \/ i <= last_purged.index
        \/ i \in DOMAIN log_table /\ log_table[i] = agreed[i]

(* The state machine is lost with the process, so a restarted node applies *)
(* its log from the start: it is stopped by a hole only if the store       *)
(* reports that it purged.                                                 *)
HaltsOnlyAfterPurge == pc = "halted" => state_table # Stored(NoLogId)

(* The purged log id that the store stands by.  It is compared by term and *)
(* index: the leader's node is lost in the state table.                    *)
PurgedId ==
    IF purging # NoLogId THEN Stored(purging)
    ELSE IF pc = "down" THEN state_table ELSE Stored(last_purged)

(* The persistent store implements the in-memory one.                      *)
Store == INSTANCE LogStore WITH
    entries <- log_table,
    last_purged_log_id <- PurgedId,
    committed <- held,
    vote <- vote_table

ImplementsLogStore == Store!LogSpec

=============================================================================
