----------------------------- MODULE Replication -----------------------------
(***************************************************************************)
(* WAL shipping: node 1 takes the writes, and a follower polls it for the  *)
(* log records it lacks (replication.rs, the task serve spawns in          *)
(* rekha-cli's main.rs, Engine::wal_delta and apply_remote_ops).           *)
(*                                                                         *)
(* A follower has a collection of the leader's only if its data directory  *)
(* was copied from there: `Join'.  Nothing else gives it the collection's  *)
(* id, so "own" stands for what its own clients created.  What it applies  *)
(* is in memory only, and so is its position in the log.                   *)
(*                                                                         *)
(* Clients write to node 1.  A record is named by the seqs of the writes   *)
(* that gave it its vector and its metadata; 0 is none.                    *)
(***************************************************************************)
EXTENDS Naturals, Sequences, FiniteSets, Functions

CONSTANTS Id,
          MaxSeq,
          NodeId,       \* --node-id of the follower
          Peers,        \* --peers, split: [scheme : BOOLEAN, node : Nat]
          ApiKey,       \* is REKHA_API_KEY set?
          Catalog,      \* the follower's collections, in list order
          Undecodable,  \* kinds of operation that an older follower cannot read
          MaxFail,      \* requests that fail on the way
          MaxRestart,   \* restarts of the follower
          MaxPowerLoss  \* power losses of the leader, whose log is not synced

VARIABLES wal,          \* leader: seq -> operation
          last_seq,
          hist,         \* leader, history: every operation, by seq
          pruned,       \* leader: seqs up to here have left the log
          pc,           \* follower: "absent", "sleep", "fetch" or "apply"
          todo,         \* collections left in this round
          attempt,
          delta,        \* records of the delta that are still to be applied
          last_applied,
          records,      \* id -> [vec, meta]
          disk, seed,   \* the copied records, and the seq they go up to
          missed,       \* history: seqs that were passed over
          forked,       \* history: the follower had what the leader lost
          fails, restarts, losses

leaderVars == <<wal, last_seq, hist, pruned>>
loopVars == <<pc, todo, attempt, delta>>
copyVars == <<last_applied, records, disk, seed, missed>>
faultVars == <<forked, fails, restarts, losses>>
vars == <<leaderVars, loopVars, copyVars, faultVars>>

ASSUME ReplicationAssumption ==
    /\ MaxSeq \in Nat /\ MaxFail \in Nat /\ MaxRestart \in Nat /\ MaxPowerLoss \in Nat
    /\ NodeId \in Nat \ {1}
    /\ Peers \in Seq([scheme : BOOLEAN, node : Nat]) /\ Peers # <<>>
    /\ ApiKey \in BOOLEAN
    /\ Catalog \in Seq({"shared", "own"}) /\ Catalog # <<>>
    /\ Undecodable \subseteq {"Upsert", "Update", "Delete"}

-----------------------------------------------------------------------------
(* Operations.                                                             *)

Operation == [kind : {"Upsert", "Update", "Delete"}, id : Id]

NoRecord == [vec |-> 0, meta |-> 0]
NoRecords == [i \in Id |-> NoRecord]

(* apply_operation: an update of an id that is not there makes a record    *)
(* without a vector.                                                       *)
ApplyOperation(rs, op, seq) ==
    CASE op.kind = "Upsert" -> [rs EXCEPT ![op.id] = [vec |-> seq, meta |-> seq]]
      [] op.kind = "Update" -> [rs EXCEPT ![op.id].meta = seq]
      [] op.kind = "Delete" -> [rs EXCEPT ![op.id] = NoRecord]

(* The records after the first n operations of a history.                  *)
StateOf(h, n) ==
    LET state[k \in 0..n] ==
            IF k = 0 THEN NoRecords ELSE ApplyOperation(state[k - 1], h[k], k)
    IN  state[n]

StateAt(n) == StateOf(hist, n)

-----------------------------------------------------------------------------
(* The leader.                                                             *)

(* read_range.                                                             *)
ReadRange(from, to) ==
    LET seqs == {s \in DOMAIN wal : from <= s /\ s <= to}
        n    == Cardinality(seqs)
    IN  CHOOSE q \in [1..n -> seqs] : \A i, j \in 1..n : i < j => q[i] < q[j]

(* from_wal_records, for one record.                                       *)
DeltaRecord(s) == [seq |-> s, op |-> wal[s]]

(* Not the code: the range starts one record late.                         *)
WalDeltaAfter(from) ==
    LET seqs == ReadRange(from + 1, last_seq)
    IN  [k \in DOMAIN seqs |-> DeltaRecord(seqs[k])]

(* Not the code: nothing for the last record alone.                        *)
WalDeltaNotLast(from) ==
    LET seqs == IF from >= last_seq THEN <<>> ELSE ReadRange(from, last_seq)
    IN  [k \in DOMAIN seqs |-> DeltaRecord(seqs[k])]

(* wal_delta.                                                              *)
WalDelta(from) ==
    LET seqs == IF from > last_seq THEN <<>> ELSE ReadRange(from, last_seq)
    IN  [k \in DOMAIN seqs |-> DeltaRecord(seqs[k])]

LeaderWrite(op) ==
    /\ last_seq < MaxSeq
    /\ op.kind = "Update" => StateAt(last_seq)[op.id] # NoRecord
    /\ last_seq' = last_seq + 1
    /\ hist' = Append(hist, op)
    /\ wal' = [s \in DOMAIN wal \cup {last_seq + 1} |-> IF s = last_seq + 1 THEN op ELSE wal[s]]
    /\ UNCHANGED <<pruned, loopVars, copyVars, faultVars>>

(* A checkpoint drops the records up to n.                                 *)
LeaderPrune(n) ==
    /\ pruned < n /\ n <= last_seq
    /\ pruned' = n
    /\ wal' = Restrict(wal, {s \in DOMAIN wal : s > n})
    /\ UNCHANGED <<last_seq, hist, loopVars, copyVars, faultVars>>

(* EngineConfig::default does not sync the log: the records after n are    *)
(* gone, and their seqs are given out again.                               *)
Held == {last_applied, seed} \cup {delta[k].seq : k \in DOMAIN delta}

LeaderPowerLoss(n) ==
    /\ losses < MaxPowerLoss
    /\ pruned <= n /\ n < last_seq
    /\ losses' = losses + 1
    /\ last_seq' = n
    /\ hist' = SubSeq(hist, 1, n)
    /\ wal' = Restrict(wal, {s \in DOMAIN wal : s <= n})
    /\ forked' = (forked \/ \E s \in Held : s > n)
    /\ UNCHANGED <<pruned, loopVars, copyVars, fails, restarts>>

-----------------------------------------------------------------------------
(* The follower's requests.                                                *)

(* The map from node to address: peers count from 1, without the node      *)
(* itself.                                                                 *)
PeerMap == [i \in (1..Len(Peers)) \ {NodeId} |-> Peers[i]]

LeaderUrl == IF 1 \in DOMAIN PeerMap THEN PeerMap[1] ELSE [scheme |-> TRUE, node |-> NodeId]

(* fetch_delta puts its path after the address as it is, and sends no key. *)
Reaches == LeaderUrl.scheme /\ LeaderUrl.node = 1 /\ ~ApiKey

(* collection(): the leader has never heard of the follower's own.         *)
Found(c) == c = "shared"

NextSeq == last_applied + 1

MaxRetries == 3

-----------------------------------------------------------------------------
(* The follower.                                                           *)

Init ==
    /\ wal = <<>> /\ last_seq = 0 /\ hist = <<>> /\ pruned = 0
    /\ pc = "absent" /\ todo = <<>> /\ attempt = 0 /\ delta = <<>>
    /\ last_applied = 0 /\ records = NoRecords /\ disk = NoRecords /\ seed = 0
    /\ missed = {} /\ forked = FALSE /\ fails = 0 /\ restarts = 0 /\ losses = 0

(* The follower is started on a copy of the leader's data directory.       *)
Join ==
    /\ pc = "absent"
    /\ pc' = "sleep"
    /\ disk' = StateAt(last_seq) /\ records' = disk' /\ seed' = last_seq
    /\ UNCHANGED <<leaderVars, todo, attempt, delta, last_applied, missed, faultVars>>

(* A round begins: list_collections.                                       *)
Poll ==
    /\ pc = "sleep"
    /\ pc' = "fetch" /\ todo' = Catalog /\ attempt' = 0
    /\ UNCHANGED <<leaderVars, delta, copyVars, faultVars>>

(* On to the next collection, or to sleep.                                 *)
NextCollection ==
    /\ todo' = Tail(todo) /\ attempt' = 0
    /\ pc' = IF todo' = <<>> THEN "sleep" ELSE "fetch"

FetchOk ==
    /\ pc = "fetch" /\ Reaches /\ Found(Head(todo))
    /\ delta' = WalDelta(NextSeq)
    /\ pc' = "apply"
    /\ UNCHANGED <<leaderVars, todo, attempt, copyVars, faultVars>>

(* Not the code: one attempt more than max_retries.                        *)
FetchErrorOnceMore ==
    /\ pc = "fetch"
    /\ ~(Reaches /\ Found(Head(todo)))
    /\ IF attempt < MaxRetries
       THEN attempt' = attempt + 1 /\ UNCHANGED <<pc, todo>>
       ELSE NextCollection
    /\ UNCHANGED <<leaderVars, delta, copyVars, faultVars>>

(* A failed attempt: by the address, the key, the collection or the        *)
(* network.                                                                *)
FetchError ==
    /\ pc = "fetch"
    /\ \/ ~(Reaches /\ Found(Head(todo))) /\ fails' = fails
       \/ Reaches /\ Found(Head(todo)) /\ fails < MaxFail /\ fails' = fails + 1
    /\ IF attempt + 1 < MaxRetries
       THEN attempt' = attempt + 1 /\ UNCHANGED <<pc, todo>>
       ELSE NextCollection
    /\ UNCHANGED <<leaderVars, delta, copyVars, forked, restarts, losses>>

Reached == IF last_applied > seed THEN last_applied ELSE seed

(* One record: decoded and applied if that can be, marked applied anyway.  *)
ApplyRecord ==
    LET r == Head(delta)
        reads == r.op.kind \notin Undecodable
    IN  /\ pc = "apply" /\ delta # <<>>
        /\ records' = IF reads THEN ApplyOperation(records, r.op, r.seq) ELSE records
        /\ last_applied' = r.seq
        /\ missed' = missed \cup (Reached + 1)..(r.seq - 1)
                            \cup (IF reads THEN {} ELSE {r.seq})
        /\ delta' = Tail(delta)
        /\ UNCHANGED <<leaderVars, pc, todo, attempt, disk, seed, faultVars>>

ApplyDone ==
    /\ pc = "apply" /\ delta = <<>>
    /\ NextCollection
    /\ UNCHANGED <<leaderVars, delta, copyVars, faultVars>>

(* Not the code: the position survives, though what was applied does not.  *)
FollowerRestartKeepingPosition ==
    /\ pc # "absent" /\ restarts < MaxRestart
    /\ restarts' = restarts + 1
    /\ pc' = "sleep" /\ todo' = <<>> /\ attempt' = 0 /\ delta' = <<>>
    /\ records' = disk
    /\ UNCHANGED <<leaderVars, last_applied, disk, seed, missed, forked, fails, losses>>

(* The process ends and is started again: Engine::open reads the copy.     *)
FollowerRestart ==
    /\ pc # "absent" /\ restarts < MaxRestart
    /\ restarts' = restarts + 1
    /\ pc' = "sleep" /\ todo' = <<>> /\ attempt' = 0 /\ delta' = <<>>
    /\ records' = disk /\ last_applied' = 0 /\ missed' = {}
    /\ UNCHANGED <<leaderVars, disk, seed, forked, fails, losses>>

LoopStep == Poll \/ FetchOk \/ FetchError \/ ApplyRecord \/ ApplyDone

Next ==
    \/ \E op \in Operation : LeaderWrite(op)
    \/ \E n \in 1..MaxSeq : LeaderPrune(n)
    \/ \E n \in 0..MaxSeq : LeaderPowerLoss(n)
    \/ Join \/ FollowerRestart
    \/ LoopStep

Spec == Init /\ [][Next]_vars

(* The loop is a task of its own that only waits for its timer and for     *)
(* answers.  A follower is not bound to join.                              *)
FairSpec == Spec /\ WF_vars(LoopStep)

-----------------------------------------------------------------------------
(* Properties.                                                             *)

Records == [Id -> [vec : 0..MaxSeq, meta : 0..MaxSeq]]

TypeOK ==
    /\ last_seq \in 0..MaxSeq /\ pruned \in 0..last_seq
    /\ hist \in Seq(Operation) /\ Len(hist) = last_seq
    /\ DOMAIN wal = (pruned + 1)..last_seq
    /\ pc \in {"absent", "sleep", "fetch", "apply"}
    /\ (pc \in {"fetch", "apply"}) <=> (todo # <<>>)
    /\ attempt \in 0..(MaxRetries - 1)
    /\ delta # <<>> => pc = "apply"
    /\ last_applied \in 0..MaxSeq /\ seed \in 0..MaxSeq /\ missed \subseteq 1..MaxSeq
    /\ {records, disk} \subseteq Records
    /\ forked \in BOOLEAN
    /\ fails \in 0..MaxFail /\ restarts \in 0..MaxRestart /\ losses \in 0..MaxPowerLoss

(* The seq that the follower's records stand for, once what it applied     *)
(* goes beyond its copy.                                                   *)
Settled == last_applied = 0 \/ last_applied >= seed

(* Id i is untouched by the operations that were missed, or fully written  *)
(* or deleted by a later one that was not.                                 *)
Whole(i) ==
    \A s \in missed : hist[s].id = i =>
        \E t \in (s + 1)..Reached :
            t \notin missed /\ hist[t].id = i /\ hist[t].kind # "Update"

(* A follower's records are the leader's at the follower's position, but   *)
(* for the ids of operations it missed: replaying a log from the start     *)
(* over a copy that is ahead of it, and being restarted in the middle of a *)
(* delta, leave no trace.                                                  *)
AgreesAtPosition ==
    ~forked /\ Settled =>
        \A i \in Id : Whole(i) => records[i] = StateAt(Reached)[i]

(* A follower misses only what the leader pruned, or what it cannot read.  *)
MissedOnlyPruned ==
    ~forked => \A s \in missed : s <= pruned \/ hist[s].kind \in Undecodable

(* The operations that the follower can no longer get.                     *)
Unavailable ==
    {s \in (Reached + 1)..last_seq : s \notin DOMAIN wal} \ {delta[k].seq : k \in DOMAIN delta}

(* A follower that has joined ends with the leader's records, unless       *)
(* something it needs was pruned, cannot be read, or was lost.             *)
Converges ==
    <>[](pc # "absent" /\ ~forked /\ missed \cup Unavailable = {} => records = StateAt(last_seq))

=============================================================================
