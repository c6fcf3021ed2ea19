----------------------------- MODULE Collection -----------------------------
(***************************************************************************)
(* One collection of rekha-engine: the in-memory records, the write        *)
(* buffer, the HNSW index, the write-ahead log, the checkpoint files, and  *)
(* the crashes and I/O errors between the steps that write them.           *)
(*                                                                         *)
(* Data are versions.  A write gets a sequence number from the log; the    *)
(* vector it carries, and the metadata and document it carries, are both   *)
(* named by that number.  So `ver[i]' is Record::seq and at the same time  *)
(* the identity of i's metadata and document; `emb[i]', `buffer[i]' and    *)
(* `index[i]' say which write i's vector in that place came from.  0 is    *)
(* "not there".                                                            *)
(*                                                                         *)
(* The collection mutex is held for a whole request, so requests do not    *)
(* interleave; a checkpoint is split into its file writes because the      *)
(* process may die, or an I/O error may return early, between them.  A     *)
(* checkpoint that fails late leaves the collection serving on a log       *)
(* handle that is not the one it should have:                              *)
(*   "unlinked"  wal.prune failed after its rename, and the handle writes  *)
(*               to the file that the rename replaced, which no open finds;*)
(*   "rewound"   wal.prune emptied the log, Wal::open failed after it, and *)
(*               the handle stands at seq 0.                               *)
(***************************************************************************)
EXTENDS Naturals, FiniteSets, Functions

CONSTANTS
    Id,             \* record ids, numbers so that segments can sort them
    BatchSize,      \* hnsw.batch_size: buffered vectors that trigger a flush
    SyncThreshold,  \* hnsw.sync_threshold: log records between checkpoints
    Kinds,          \* the requests clients send
    Rewrites,       \* may a client give an id a second vector?
    CrashAt,        \* values of pc at which the process may die
    FailAt,         \* values of pc whose I/O may fail; "append" for write_ops,
                    \* "late" for a prune that fails after its rename
    MaxSeq, MaxCkpt, MaxCrash,  \* bounds
    BeyondLoss      \* bound: do clients go on once `lost' is set?

RequestKinds == {"add", "upsert", "update", "delete"}

(* The file writes of `checkpoint', in order.                              *)
CheckpointSteps == {"records", "index", "imeta", "json", "segbin", "segidx",
                    "catalog", "prune", "reopen"}
Points == {"down", "replay", "idle"} \cup CheckpointSteps

ASSUME CollectionAssumption ==
    /\ Id \subseteq Nat /\ IsFiniteSet(Id)
    /\ BatchSize \in Nat /\ SyncThreshold \in Nat
    /\ Kinds \subseteq RequestKinds /\ Rewrites \in BOOLEAN
    /\ CrashAt \subseteq Points
    /\ FailAt \subseteq CheckpointSteps \cup {"append", "late"}
    /\ BeyondLoss \in BOOLEAN /\ MaxSeq \in Nat /\ MaxCkpt \in Nat /\ MaxCrash \in Nat

VARIABLES
    (* In memory. *)
    pc,             \* where the owner of the mutex is
    cursor,         \* seq up to which the log has been replayed
    last_seq,       \* wal.last_seq()
    ver, emb,       \* records: seq and embedding of each record
    buffer, index,  \* the brute-force buffer and the HNSW index
    flushed_seq, last_checkpoint_seq,
    segments, segment_index,     \* seg-0 as loaded, and id -> offset in it
    (* On disk. *)
    wal,            \* the log's records (see Wal), as the handle sees them
    adrift,         \* those of them that are in an unlinked file only
    handle,         \* the file and the position wal's handle is at
    recbin, json,   \* records.bin and checkpoint.json
    idxbin, idxmeta,\* index.bin and index.meta
    segbin, segidx, \* segments/seg-0.bin and segment_index.bin
    max_seq_id,     \* the catalog's watermark of this collection
    (* History. *)
    store, vec,     \* version and vector that acknowledged writes left
    written,        \* ids ever given a vector (tracked unless Rewrites)
    tried,          \* versions that batches failed half-way may leave yet
    high,           \* highest seq ever handed out
    pruned,         \* the log was ever cut
    lost,           \* acknowledged records are, or may get, lost (see below)
    ckpts, crashes

memVars   == <<last_seq, ver, emb, buffer, index, flushed_seq,
               last_checkpoint_seq, segments, segment_index>>
ckptFiles == <<recbin, json, idxbin, idxmeta, segbin, segidx>>
logVars   == <<wal, adrift, handle>>
diskVars  == <<logVars, ckptFiles, max_seq_id>>
history   == <<store, vec, written, tried, high, pruned, lost>>
counters  == <<ckpts, crashes>>
vars == <<pc, cursor, memVars, diskVars, history, counters>>

-----------------------------------------------------------------------------
None == [i \in Id |-> 0]
Live(f) == {i \in Id : f[i] # 0}

Larger(a, b) == IF a > b THEN a ELSE b

(* `m' is the largest element of the non-empty set `s'.                    *)
IsMax(m, s) == m \in s /\ \A x \in s : x <= m

NoCheckpoint == [flushed_seq |-> 0, next_seq |-> 0, record_count |-> 0]

Init ==
    /\ pc = "down" /\ cursor = 0 /\ last_seq = 0
    /\ ver = None /\ emb = None /\ buffer = None /\ index = None
    /\ flushed_seq = 0 /\ last_checkpoint_seq = 0
    /\ segments = << >> /\ segment_index = None
    /\ wal = {} /\ adrift = {} /\ handle = "current"
    /\ recbin = [ver |-> None, emb |-> None] /\ json = NoCheckpoint
    /\ idxbin = None /\ idxmeta = None /\ segbin = << >> /\ segidx = None
    /\ max_seq_id = 0
    /\ store = None /\ vec = None /\ written = {}
    /\ tried = [i \in Id |-> {}]
    /\ high = 0 /\ pruned = FALSE /\ lost = FALSE
    /\ ckpts = 0 /\ crashes = 0

-----------------------------------------------------------------------------
(* Reads.                                                                  *)

(* load_vector: the id's vector in the loaded segment, through the offset. *)
SegmentVector(i) ==
    IF segment_index[i] \in DOMAIN segments THEN segments[segment_index[i]] ELSE 0

(* The vector get, brute_force and rebuild_index use: segment first.       *)
Readable(i) == IF SegmentVector(i) # 0 THEN SegmentVector(i) ELSE emb[i]

(* The vector hybrid_search ranks: the buffer wins over the index.         *)
Merged(i) == IF buffer[i] # 0 THEN buffer[i] ELSE index[i]

-----------------------------------------------------------------------------
(* apply_operation, for a batch of one kind: q maps each id of the batch   *)
(* to the seq of its operation.                                            *)

VerAfter(kind, q) ==
    [i \in Id |-> IF i \notin DOMAIN q THEN ver[i]
                  ELSE IF kind = "delete" THEN 0 ELSE q[i]]

(* What a batch does to a place that holds vectors: an add or upsert puts  *)
(* the new one there, a delete removes it, an update leaves it.            *)
VectorsAfter(place, kind, q) ==
    [i \in Id |-> IF i \notin DOMAIN q \/ kind = "update" THEN place[i]
                  ELSE IF kind = "delete" THEN 0 ELSE q[i]]

IndexAfterKeepingDeleted(kind, q) == index

IndexAfter(kind, q) ==
    [i \in Id |-> IF i \in DOMAIN q /\ kind = "delete" THEN 0 ELSE index[i]]

(* flush_buffer: buffered vectors replace the index's, and the watermark   *)
(* moves to the newest of them.                                            *)
FlushBuffer(b, x) ==
    /\ buffer' = None
    /\ index' = [i \in Id |-> IF b[i] # 0 THEN b[i] ELSE x[i]]
    /\ \E f \in {flushed_seq} \cup Range(b) :
          IsMax(f, {flushed_seq} \cup Range(b)) /\ flushed_seq' = f

(* flush_if_needed, after `needed' says whether this request calls it.     *)
FlushIfNeeded(needed, b, x) ==
    IF needed /\ Cardinality(Live(b)) >= BatchSize
    THEN FlushBuffer(b, x)
    ELSE buffer' = b /\ index' = x /\ UNCHANGED flushed_seq

-----------------------------------------------------------------------------
(* Requests.                                                               *)

(* The mutex is free (and clients still send requests: see BeyondLoss).    *)
Ready == pc = "idle" /\ (lost => BeyondLoss)

(* validate_add, validate_upsert, validate_update; delete is lenient.      *)
Valid(kind, S) ==
    /\ kind = "add" => \A i \in S : ver[i] = 0
    /\ kind = "update" => \A i \in S : ver[i] # 0
    /\ kind \in {"add", "upsert"} => Rewrites \/ S \cap written = {}

SeqsSkippingOne(S) == Bijection(S, (last_seq + 2)..(last_seq + 1 + Cardinality(S)))

(* The seqs that the appends of a batch over the ids S may get: the next   *)
(* ones of the log, in the order the client listed the ids.                *)
Seqs(S) == Bijection(S, (last_seq + 1)..(last_seq + Cardinality(S)))

(* The log records of a batch.                                             *)
Appended(kind, q) == {[seq |-> q[i], id |-> i, kind |-> kind] : i \in DOMAIN q}

(* What appending them does to the log: an unlinked file takes them too,   *)
(* and a handle that was rewound gives them seqs that replay skips.        *)
AppendAll(records) ==
    /\ wal' = wal \cup records
    /\ adrift' = IF handle = "unlinked" THEN adrift \cup records ELSE adrift
    /\ lost' = (lost \/ handle = "rewound")
    /\ UNCHANGED handle

(* auto_checkpoint's condition.                                            *)
CheckpointDue(v, last) ==
    Live(v) # {} /\ last - last_checkpoint_seq >= SyncThreshold

(* add, upsert, update, delete: the batch goes to the log, then to memory; *)
(* add and upsert apply the flush policy, and all of them may go on to a   *)
(* checkpoint.                                                             *)
Write(kind, S) ==
    /\ Ready /\ Valid(kind, S)
    /\ last_seq + Cardinality(S) <= MaxSeq
    /\ \E q \in Seqs(S) :
         /\ AppendAll(Appended(kind, q))
         /\ ver' = VerAfter(kind, q)
         /\ emb' = VectorsAfter(emb, kind, q)
         /\ FlushIfNeeded(kind \in {"add", "upsert"},
                          VectorsAfter(buffer, kind, q), IndexAfter(kind, q))
         /\ store' = [i \in Id |-> IF i \in S THEN ver'[i] ELSE store[i]]
         /\ vec' = VectorsAfter(vec, kind, q)
    /\ last_seq' = last_seq + Cardinality(S)
    /\ high' = Larger(high, last_seq')
    /\ written' = IF kind \in {"add", "upsert"} /\ ~Rewrites THEN written \cup S ELSE written
    /\ tried' = [i \in Id |-> IF i \in S THEN {} ELSE tried[i]]
    /\ IF CheckpointDue(ver', last_seq')
       THEN ckpts < MaxCkpt /\ pc' = "records" /\ ckpts' = ckpts + 1
       ELSE pc' = "idle" /\ UNCHANGED ckpts
    /\ UNCHANGED <<cursor, last_checkpoint_seq, segments, segment_index,
                   ckptFiles, max_seq_id, pruned, crashes>>

(* Not the code: the failed batch is applied to the records in memory.     *)
WriteErrorApplied(kind, S) ==
    /\ Ready /\ "append" \in FailAt /\ Valid(kind, S)
    /\ last_seq + Cardinality(S) <= MaxSeq
    /\ \E q \in Seqs(S) :
         /\ AppendAll(Appended(kind, q)) /\ ver' = VerAfter(kind, q)
         /\ tried' = [i \in Id |-> IF i \in S THEN tried[i] \cup {ver'[i]} ELSE tried[i]]
    /\ last_seq' = last_seq + Cardinality(S)
    /\ high' = Larger(high, last_seq')
    /\ UNCHANGED <<pc, cursor, emb, buffer, index, flushed_seq,
                   last_checkpoint_seq, segments, segment_index, ckptFiles,
                   max_seq_id, store, vec, written, pruned, counters>>

(* write_ops fails on an append after it logged the ids S of the batch:    *)
(* nothing is applied, and the client gets an error.                       *)
WriteError(kind, S) ==
    /\ Ready /\ "append" \in FailAt /\ Valid(kind, S)
    /\ last_seq + Cardinality(S) <= MaxSeq
    /\ \E q \in Seqs(S) :
         /\ AppendAll(Appended(kind, q))
         /\ tried' = [i \in Id |-> IF i \in S THEN tried[i] \cup {VerAfter(kind, q)[i]}
                                             ELSE tried[i]]
    /\ last_seq' = last_seq + Cardinality(S)
    /\ high' = Larger(high, last_seq')
    /\ UNCHANGED <<pc, cursor, ver, emb, buffer, index, flushed_seq,
                   last_checkpoint_seq, segments, segment_index, ckptFiles,
                   max_seq_id, store, vec, written, pruned, counters>>

(* Engine::checkpoint on a collection with records.                        *)
BeginCheckpoint ==
    /\ Ready /\ Live(ver) # {} /\ ckpts < MaxCkpt
    /\ pc' = "records" /\ ckpts' = ckpts + 1
    /\ UNCHANGED <<cursor, memVars, diskVars, history, crashes>>

(* optimize: flush the whole buffer, rebuild the index from what Readable  *)
(* finds, then checkpoint (which does nothing without records).            *)
Optimize ==
    /\ Ready /\ ckpts < MaxCkpt
    /\ buffer' = None
    /\ \E f \in {flushed_seq} \cup Range(buffer) :
          IsMax(f, {flushed_seq} \cup Range(buffer)) /\ flushed_seq' = f
    /\ index' = [i \in Id |-> IF ver[i] # 0 THEN Readable(i) ELSE 0]
    /\ pc' = IF Live(ver) # {} THEN "records" ELSE "idle"
    /\ ckpts' = ckpts + 1
    /\ UNCHANGED <<cursor, last_seq, ver, emb, last_checkpoint_seq, segments,
                   segment_index, diskVars, history, crashes>>

-----------------------------------------------------------------------------
(* checkpoint, one file at a time.                                         *)

WriteRecords ==
    /\ pc = "records" /\ pc' = "index"
    /\ recbin' = [ver |-> ver, emb |-> emb]
    /\ UNCHANGED <<cursor, memVars, logVars, json, idxbin, idxmeta, segbin, segidx,
                   max_seq_id, history, counters>>

(* index.save renames index.bin, then index.meta; an empty index removes   *)
(* them in the same order.  A missing file is None.                        *)
WriteIndexBin ==
    /\ pc = "index" /\ pc' = "imeta"
    /\ idxbin' = index
    /\ UNCHANGED <<cursor, memVars, logVars, recbin, json, idxmeta, segbin, segidx,
                   max_seq_id, history, counters>>

WriteIndexMeta ==
    /\ pc = "imeta" /\ pc' = "json"
    /\ idxmeta' = index
    /\ UNCHANGED <<cursor, memVars, logVars, recbin, json, idxbin, segbin, segidx,
                   max_seq_id, history, counters>>

CheckpointMetaLastSeq == [flushed_seq |-> last_seq, next_seq |-> last_seq + 1,
                          record_count |-> Cardinality(Live(ver))]

CheckpointMetaNextIsLast == [flushed_seq |-> flushed_seq, next_seq |-> last_seq,
                             record_count |-> Cardinality(Live(ver))]

CheckpointMeta == [flushed_seq |-> flushed_seq, next_seq |-> last_seq + 1,
                   record_count |-> Cardinality(Live(ver))]

WriteJson ==
    /\ pc = "json" /\ pc' = "segbin"
    /\ json' = CheckpointMeta
    /\ lost' = (lost \/ handle = "rewound")
    /\ UNCHANGED <<cursor, memVars, logVars, recbin, idxbin, idxmeta, segbin, segidx,
                   max_seq_id, store, vec, written, tried, high, pruned, counters>>

(* The segment holds the embeddings that are still in memory, by id.       *)
Entries == Live(emb)
Offset(i) == Cardinality({j \in Entries : j <= i})

(* Embeddings the checkpoint covers leave the records map.                 *)
Stripped(v, e, f) == [i \in Id |-> IF v[i] <= f THEN 0 ELSE e[i]]

WriteSegment ==
    /\ pc = "segbin"
    /\ segbin' = [k \in {Offset(i) : i \in Entries} |->
                     emb[CHOOSE i \in Entries : Offset(i) = k]]
    /\ IF Entries # {}
       THEN /\ pc' = "segidx"
            /\ UNCHANGED <<emb, segments, segment_index, segidx>>
       ELSE /\ pc' = "catalog"
            /\ segidx' = None /\ segments' = << >> /\ segment_index' = None
            /\ emb' = Stripped(ver, emb, flushed_seq)
    /\ UNCHANGED <<cursor, last_seq, ver, buffer, index, flushed_seq,
                   last_checkpoint_seq, logVars, recbin, json, idxbin, idxmeta,
                   max_seq_id, history, counters>>

WriteSegmentIndex ==
    /\ pc = "segidx" /\ pc' = "catalog"
    /\ segidx' = [i \in Id |-> IF i \in Entries THEN Offset(i) ELSE 0]
    /\ segments' = segbin /\ segment_index' = segidx'
    /\ emb' = Stripped(ver, emb, flushed_seq)
    /\ UNCHANGED <<cursor, last_seq, ver, buffer, index, flushed_seq,
                   last_checkpoint_seq, logVars, recbin, json, idxbin, idxmeta,
                   segbin, max_seq_id, history, counters>>

AdvanceCatalogStale ==
    /\ pc = "catalog" /\ pc' = "prune"
    /\ max_seq_id' = Larger(max_seq_id, last_checkpoint_seq)
    /\ UNCHANGED <<cursor, memVars, logVars, ckptFiles, history, counters>>

(* catalog.advance_log_offset moves the watermark forward only.            *)
AdvanceCatalog ==
    /\ pc = "catalog" /\ pc' = "prune"
    /\ max_seq_id' = Larger(max_seq_id, flushed_seq)
    /\ UNCHANGED <<cursor, memVars, logVars, ckptFiles, history, counters>>

KeptBelowNext == {w \in wal : w.seq > last_seq}

(* The records wal.prune(flushed_seq) keeps.                               *)
KeptRecords == {w \in wal : w.seq > flushed_seq}

ResumesAtZero(m, records, start) ==
    IF records = {} THEN m = 0 ELSE IsMax(m, {w.seq : w \in records})

(* Where Wal::open(start_seq) leaves last_seq on a log with these records. *)
ResumesAt(m, records, start) ==
    IF records = {} THEN m = (IF start = 0 THEN 0 ELSE start - 1)
                    ELSE IsMax(m, {w.seq : w \in records})

(* wal.prune: the file that replaces the log holds the records it keeps,   *)
(* and the new handle stands at the last of them, or at 0.                 *)
CutLog ==
    /\ wal' = KeptRecords /\ adrift' = {}
    /\ pruned' = (pruned \/ KeptRecords # wal)

PruneLog ==
    /\ pc = "prune" /\ pc' = "reopen"
    /\ CutLog /\ handle' = "current"
    /\ last_seq' \in {m \in 0..MaxSeq : ResumesAt(m, KeptRecords, 0)}
    /\ UNCHANGED <<cursor, ver, emb, buffer, index, flushed_seq,
                   last_checkpoint_seq, segments, segment_index, ckptFiles,
                   max_seq_id, store, vec, written, tried, high, lost, counters>>

(* wal.prune fails after its rename: the log is cut, and the handle and    *)
(* its position are the old ones.                                          *)
LatePruneError ==
    /\ pc = "prune" /\ "late" \in FailAt /\ pc' = "idle"
    /\ CutLog /\ handle' = "unlinked"
    /\ UNCHANGED <<cursor, memVars, ckptFiles, max_seq_id, store, vec, written,
                   tried, high, lost, counters>>

(* Wal::open at the next_seq that the checkpoint began with.               *)
ReopenLog ==
    /\ pc = "reopen" /\ pc' = "idle"
    /\ last_seq' \in {m \in 0..MaxSeq : ResumesAt(m, wal, json.next_seq)}
    /\ last_checkpoint_seq' = flushed_seq
    /\ UNCHANGED <<cursor, ver, emb, buffer, index, flushed_seq, segments,
                   segment_index, diskVars, history, counters>>

(* It fails: the handle stays where wal.prune left it.                     *)
ReopenError ==
    /\ pc = "reopen" /\ "reopen" \in FailAt /\ pc' = "idle"
    /\ handle' = IF wal = {} THEN "rewound" ELSE handle
    /\ UNCHANGED <<cursor, memVars, wal, adrift, ckptFiles, max_seq_id, history,
                   counters>>

(* An I/O error at a step before ends the checkpoint; what was written     *)
(* stays.                                                                  *)
CheckpointError ==
    /\ pc \in (CheckpointSteps \ {"reopen"}) \cap FailAt /\ pc' = "idle"
    /\ UNCHANGED <<cursor, memVars, diskVars, history, counters>>

-----------------------------------------------------------------------------
(* Crash and Collection::open.                                             *)

(* What is in an unlinked file is gone with the process.                   *)
Crash ==
    /\ pc \in CrashAt /\ pc # "down" /\ crashes < MaxCrash
    /\ pc' = "down" /\ cursor' = 0 /\ last_seq' = 0
    /\ ver' = None /\ emb' = None /\ buffer' = None /\ index' = None
    /\ flushed_seq' = 0 /\ last_checkpoint_seq' = 0
    /\ segments' = << >> /\ segment_index' = None
    /\ wal' = wal \ adrift /\ adrift' = {} /\ handle' = "current"
    /\ lost' = (lost \/ adrift # {})
    /\ crashes' = crashes + 1
    /\ UNCHANGED <<ckptFiles, max_seq_id, store, vec, written, tried, high, pruned,
                   ckpts>>

(* load_checkpoint accepts checkpoint.json with records.bin: both are      *)
(* there and agree on the number of records.                               *)
Usable == json.record_count # 0 /\ Cardinality(Live(recbin.ver)) = json.record_count

(* UsearchIndex::load wants both files and equally many labels in them; a  *)
(* label is the version of the vector it was given to.                     *)
LoadedIndex ==
    IF Live(idxmeta) # {} /\ Cardinality(Live(idxbin)) = Cardinality(Live(idxmeta))
    THEN [i \in Id |-> IF idxmeta[i] \in Range(idxbin) THEN idxmeta[i] ELSE 0]
    ELSE None

LoadAlwaysStripping ==
    /\ ver' = recbin.ver
    /\ emb' = Stripped(recbin.ver, recbin.emb, json.flushed_seq)
    /\ index' = LoadedIndex
    /\ segments' = segbin /\ segment_index' = segidx
    /\ flushed_seq' = json.flushed_seq
    /\ last_seq' \in {m \in 0..MaxSeq : ResumesAt(m, wal, json.next_seq)}
    /\ UNCHANGED lost

LoadFromCheckpoint ==
    /\ ver' = recbin.ver
    /\ emb' = IF segbin = << >> THEN recbin.emb
              ELSE Stripped(recbin.ver, recbin.emb, json.flushed_seq)
    /\ index' = LoadedIndex
    /\ segments' = segbin /\ segment_index' = segidx
    /\ flushed_seq' = json.flushed_seq
    /\ last_seq' \in {m \in 0..MaxSeq : ResumesAt(m, wal, json.next_seq)}
    /\ UNCHANGED lost

LoadNothing ==
    /\ ver' = None /\ emb' = None /\ index' = None
    /\ segments' = << >> /\ segment_index' = None
    /\ flushed_seq' = 0
    /\ last_seq' \in {m \in 0..MaxSeq : ResumesAt(m, wal, 0)}
    /\ lost' = (lost \/ pruned)

(* Collection::new and load_checkpoint.  Without a usable checkpoint the   *)
(* replay starts from seq 1, whatever is left of the log by then.          *)
Load ==
    /\ pc = "down" /\ pc' = "replay"
    /\ \/ Usable /\ LoadFromCheckpoint
       \/ ~Usable /\ LoadNothing
    /\ buffer' = None
    /\ last_checkpoint_seq' = flushed_seq' /\ cursor' = flushed_seq'
    /\ UNCHANGED <<diskVars, store, vec, written, tried, high, pruned, counters>>

ReplayAgain(w) ==
    /\ pc = "replay" /\ w.seq > cursor
    /\ \A x \in wal : x.seq > cursor => w.seq <= x.seq
    /\ UNCHANGED vars

(* replay_after: the next record above the cursor is applied.              *)
Replay(w) ==
    /\ pc = "replay" /\ w.seq > cursor
    /\ \A x \in wal : x.seq > cursor => w.seq <= x.seq
    /\ LET q == [i \in {w.id} |-> w.seq] IN
         /\ ver' = VerAfter(w.kind, q)
         /\ emb' = VectorsAfter(emb, w.kind, q)
         /\ buffer' = VectorsAfter(buffer, w.kind, q)
         /\ index' = IndexAfter(w.kind, q)
    /\ cursor' = w.seq
    /\ UNCHANGED <<pc, last_seq, flushed_seq, last_checkpoint_seq, segments,
                   segment_index, diskVars, history, counters>>

(* The end of open: flush_if_needed.                                       *)
OpenDone ==
    /\ pc = "replay" /\ \A w \in wal : w.seq <= cursor
    /\ pc' = "idle" /\ cursor' = 0
    /\ FlushIfNeeded(TRUE, buffer, index)
    /\ UNCHANGED <<last_seq, ver, emb, last_checkpoint_seq, segments,
                   segment_index, diskVars, history, counters>>

-----------------------------------------------------------------------------
Checkpointing ==
    \/ WriteRecords \/ WriteIndexBin \/ WriteIndexMeta \/ WriteJson
    \/ WriteSegment \/ WriteSegmentIndex \/ AdvanceCatalog \/ PruneLog
    \/ ReopenLog

Opening == Load \/ (\E w \in wal : Replay(w)) \/ OpenDone

Next ==
    \/ \E kind \in Kinds, S \in (SUBSET Id) \ {{}} : Write(kind, S)
    \/ \E kind \in Kinds, S \in (SUBSET Id) \ {{}} : WriteError(kind, S)
    \/ BeginCheckpoint
    \/ Optimize
    \/ Checkpointing
    \/ CheckpointError \/ LatePruneError \/ ReopenError
    \/ Crash
    \/ Opening

Spec == Init /\ [][Next]_vars

(* Open and checkpoint run to their end once started: they are straight    *)
(* loops of one thread.  Clients and crashes owe nothing.                  *)
FairSpec == Spec /\ WF_vars(Opening) /\ WF_vars(Checkpointing)

-----------------------------------------------------------------------------
(* Properties.  Most of them hold until `lost' is set, which says that the *)
(* next open may miss acknowledged writes.  Four steps set it:             *)
(*   LoadNothing  replays a log that has been pruned (a checkpoint was cut *)
(*                short between records.bin and checkpoint.json);          *)
(*   Crash        takes the unlinked file that batches went to after a     *)
(*                prune that failed late;                                  *)
(*   Write, WriteError  append through a rewound handle, at seqs that      *)
(*                replay skips;                                            *)
(*   WriteJson    saves the rewound handle's next_seq for the next open.   *)
(* The failures themselves do not set it: LatePruneError and ReopenError   *)
(* do no harm if the next step is a restart, and a later checkpoint that   *)
(* succeeds puts the records of an unlinked file back into the log.        *)

Up == pc \notin {"down", "replay"}

(* What a place that holds one version of each record may contain.         *)
Versions == [Id -> 0..high]

(* The versions of i that clients may find: the one that acknowledged      *)
(* writes left, or one that a batch failed half-way since then logged.     *)
Allowed(i) == {store[i]} \cup tried[i]

(* The ids of such batches.                                                *)
indoubt == {i \in Id : tried[i] # {}}

(* The variables keep their types, and every version in memory, in a file  *)
(* or in the log is a seq that the log has handed out.                     *)
TypeOK ==
    /\ pc \in Points /\ high \in Nat /\ ckpts \in Nat /\ crashes \in Nat
    /\ cursor \in Nat /\ last_seq \in 0..high /\ last_checkpoint_seq \in Nat
    /\ flushed_seq \in 0..high /\ max_seq_id \in 0..high
    /\ ver \in Versions /\ emb \in Versions /\ buffer \in Versions
    /\ index \in Versions /\ idxbin \in Versions /\ idxmeta \in Versions
    /\ store \in Versions /\ vec \in Versions
    /\ recbin \in [ver : Versions, emb : Versions]
    /\ \A k \in DOMAIN segments : segments[k] \in 0..high
    /\ \A k \in DOMAIN segbin : segbin[k] \in 0..high
    /\ segment_index \in [Id -> Nat] /\ segidx \in [Id -> Nat]
    /\ json \in [flushed_seq : 0..high, next_seq : 0..(high + 1), record_count : Nat]
    /\ wal \subseteq [seq : 1..high, id : Id, kind : RequestKinds]
    /\ written \subseteq Id /\ tried \in [Id -> SUBSET (0..high)]
    /\ adrift \subseteq wal /\ handle \in {"current", "unlinked", "rewound"}
    /\ pruned \in BOOLEAN /\ lost \in BOOLEAN

(* Crash transparency of records, metadata and documents ("a reopened      *)
(* collection behaves like the pre-crash one", collection.rs:128-129):     *)
(* whatever step the process died at, however often, and whatever step of  *)
(* a checkpoint or append of a batch failed, an open collection holds      *)
(* exactly the records, in the versions, that acknowledged writes left,    *)
(* until `lost' is set.  An id of a batch that failed half-way may hold    *)
(* what that batch was to leave instead, until its next acknowledged       *)
(* write; never anything else.                                             *)
AckedVersionsSurvive ==
    Up /\ ~lost => \A i \in Id : ver[i] \in Allowed(i)

(* The collection implements the map that survives crashes: a request is   *)
(* seen, and acknowledged, all at once or not at all; a failed one is not  *)
(* seen before the next start and then only in versions it logged; a       *)
(* checkpoint, a failed checkpoint, and the steps of a recovery change     *)
(* nothing that anyone sees (write_ops, checkpoint, open;                  *)
(* collection.rs:112-490).  The map's promise ends when `lost' is set.     *)
Map == INSTANCE DurableMap WITH
         serving <- Up, seen <- IF Up THEN ver ELSE None, acked <- store,
         clock <- high, intact <- ~lost

ImplementsDurableMap == Map!Spec

(* A log position is never handed out twice, although pruning may leave an *)
(* empty log whose own last_seq is 0 (next_seq and start_seq exist for     *)
(* this: collection.rs:402-413 and 259-276).  It would be while the handle *)
(* is rewound, where the reopen of the log failed.                         *)
SeqsNeverReused ==
    Up /\ ~lost /\ pc # "reopen" /\ handle # "rewound" => last_seq = high

(* A vector that is only in the buffer is not in any checkpointed index,   *)
(* so its log record must outlive every prune: the watermark stays below   *)
(* every buffered vector (flush_buffer, checkpoint, replay_after).         *)
BufferedVectorsAreLogged ==
    Up /\ ~lost => \A i \in Live(buffer) :
            /\ buffer[i] > flushed_seq
            /\ \E w \in wal : w.seq = buffer[i] /\ w.id = i

(* "a flushed vector must not survive a record delete in query results"    *)
(* (collection.rs:567-568), across crashes that pair index files of one    *)
(* checkpoint with records of another.  A delete that failed half-way is   *)
(* exempt: after a prune that failed too, a full replay carries it out and *)
(* the next checkpoint may pair its records with index files that precede  *)
(* it.                                                                     *)
IndexOnlyLiveRecords ==
    Up /\ ~lost => (Live(index) \cup Live(buffer)) \ indoubt \subseteq Live(ver)

(* "WAL compaction may prune records at or below this watermark"           *)
(* (rekha-storage/src/catalog.rs:35-36), and no others: until `lost' is    *)
(* set the log holds every seq above the catalog's watermark that was ever *)
(* handed out, through failed prunes and reopens too; while the handle is  *)
(* unlinked it is the process that holds some of them.                     *)
LogCompleteAboveWatermark ==
    ~lost => \A n \in (max_seq_id + 1)..high : \E w \in wal : w.seq = n

(* get and the brute-force query return, for every live record, the vector *)
(* that the last acknowledged add or upsert gave it (lib.rs:412-414).      *)
GetReturnsLastVector ==
    pc = "idle" /\ ~lost => \A i \in Live(ver) \ indoubt : Readable(i) = vec[i]

(* The ANN query sees every live record, under its last vector.            *)
SearchSeesLastVector ==
    pc = "idle" /\ ~lost => \A i \in Live(ver) \ indoubt : Merged(i) = vec[i]

(* "a corrupt or missing checkpoint degrades to a full replay, never to    *)
(* ... data loss" (lib.rs:63-65): no crash makes an open collection forget *)
(* an acknowledged record.                                                 *)
NoAckedRecordLost ==
    Up => \A i \in Id \ indoubt : ver[i] = store[i]

(* Every open and every checkpoint comes to an end: the collection is      *)
(* ready for the next request again.                                       *)
ReturnsToService == (pc # "idle") ~> (pc = "idle")

=============================================================================
