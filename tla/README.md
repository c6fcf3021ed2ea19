# Verification of RekhaDB

RekhaDB is a Chroma-compatible vector database in Rust. This directory holds
TLA+ models of the parts of it that must not lose data or answer wrongly: the
write-ahead log, a collection with its checkpoints, the metadata index and the
filter language, the engine that runs many collections, the HTTP handlers in
front of it, the raft log store and state machine, and the shipping of the log
to followers. TLC checks the models on small instances. For every instance TLAPS
proves all of the safety properties that the passing runs check, and three
refinements: the log file implements a durable log, a collection a map that
survives crashes, and the persistent raft log store the in-memory one. `PROJECT.json` maps each definition
to the lines it stands for. Paths below are relative to `src/crates/`; `lib.rs`
without a crate is `rekha-engine/src/lib.rs`.

## 1. Inventory

| component | state | operations | correct when |
|---|---|---|---|
| write-ahead log (`rekha-wal/src/lib.rs`) | one file per collection: header with epoch, frames with length, crc, seq; `last_seq`, `file_len` of the handle | `open` (scan, recover, resume at `start_seq`), `append`, `read_range`, `prune` (copy, rename, reopen) | acknowledged frames survive until pruned; seqs increase; a torn frame is never read |
| collection (`rekha-engine/src/collection.rs`, `segment.rs`) | `records`, `buffer`, index, `flushed_seq`, segments, offsets; on disk eight kinds of file | `write_ops` + `flush_if_needed` + `auto_checkpoint` for add/upsert/update/delete, `checkpoint`, `optimize`, `open` = load + replay, queries | an open collection holds what acknowledged writes left, whatever step crashed in between |
| vector index (`rekha-index/src/usearch_index.rs`) | id/label maps, the usearch graph, a fixed dimension | `add`, `delete`, `search`, `save` (two files), `load` | holds the live flushed vectors and nothing deleted |
| metadata postings and filters (`postings.rs`, `rekha-core/src/filter.rs`) | bitmaps by key and value, numeric bitmaps, `all`; id/offset maps | `insert`, `remove`, `remove_all`, `evaluate`; `matches`; parsing and writing filters as JSON | `evaluate` agrees with `matches`, and a parsed filter with its document |
| catalog (`rekha-storage/src/redb_catalog.rs`) | redb tables: tenants, databases, collections by id and by name | one transaction per operation | the watermark only grows; names are unique |
| engine (`lib.rs`) | map id -> `Arc<Mutex<Collection>>` under an `RwLock` | create, delete, open, the write and read requests, snapshot/restore, `wal_delta`, `apply_remote_ops` | the served collections are the catalogued ones |
| object storage (`rekha-storage/src/local_storage.rs`) | files by key | put, get, list, delete | segment copies are written there and never read |
| raft log store, state machine, network (`rekha-cluster`) | redb log, vote, `last_applied`, cluster map, snapshot | append, truncate, purge, apply, snapshot, install | the contract openraft asks of its storage |
| WAL shipping (`rekha-cluster/src/replication.rs`, `rekha-cli/src/main.rs:272`) | position per collection, in memory | poll, fetch with retry, apply, mark | a follower holds a prefix of the leader's log |
| HTTP API (`rekha-api/src/lib.rs`, `chroma.rs`) | none of its own; many handlers at once over engine, catalog and raft | validation, then engine calls, then a raft proposal for create and delete; membership changes | no panic under a lock; refusals have a cause; lists have the lengths clients rely on |
| shell, distance kernels, benchmarks | - | terminal I/O, arithmetic | not modelled |

**Interactions.** An HTTP task takes a collection's `Arc` from the map (read
lock), then its mutex, and keeps the mutex for the whole request, redb
transactions and file writes included. Creation and deletion touch catalog, map
and files without that mutex. A checkpoint calls the catalog (watermark) and
then the log (prune). Start-up opens every catalogued collection; one failure
fails the engine. Followers poll the leader's log over HTTP. The raft cluster
replicates a map of nodes and collections, beside the data: the state machine
that `serve` builds has no engine.

**Hard behaviours.** A checkpoint is eight file replacements and a redb
transaction, and the process may die between any two; each may also fail and
leave the collection serving. The log is cut while the only copy of a buffered
vector may be in it, and may become empty, which loses its own last seq. Offsets
are renumbered at every open. Deletion runs beside requests that already hold
the collection. A handler reads the catalog, the map, a collection and raft in
separate steps, and others run in between. The raft state machine is lost with
the process while its log is not; a purge is two transactions. A follower keeps
its position and what it applied in memory, and the leader prunes without
regard to it. `hazards` in `PROJECT.json` lists these at their lines.

## 2. Modules

| module | models | composed with |
|---|---|---|
| `DurableLog` | what a log promises of its records: the abstract specification of a log file | - |
| `Wal`, `WalProofs`, `MCWal` | one log file and its handle, with failed appends, a prune that fails late, process crash, power loss | implements `DurableLog` |
| `DurableMap` | a map from ids to versions that survives crashes: the abstract specification of a collection | - |
| `Collection`, `CollectionProofs`, `MCCollection` | one collection, all its files, its catalog watermark | implements `DurableMap`; uses the log as `Wal` shows it: a set of records with increasing seqs |
| `Postings` | metadata index, offsets, filter semantics | the maintenance calls of `apply_operation` and `load_checkpoint` |
| `Filter`, `PostingsProofs`, `MCPostings` | filter documents: parser, writer, evaluation of a tree | extends `Postings`: its index evaluates what `Filter` parses |
| `Engine`, `EngineProofs`, `MCEngine` | catalog, map, files of several collections; concurrent requests; crash and restart | uses a collection as `Collection` shows it: opening its files gives back the acknowledged records |
| `Api`, `ApiProofs`, `MCApi` | the native, Chroma and internal handlers as interleaved steps | uses the engine as `Engine` shows it: a catalog, a map and collections behind locks |
| `LogStore` | the in-memory raft log store: the abstract specification | - |
| `RedbLogStore` | the persistent raft log store, one step per redb transaction | extended by `RaftNode` |
| `RaftNode`, `RaftNodeProofs`, `MCRaftNode` | a node: the log store, the state machine, snapshots, RPC delivery, under openraft's contract | implements `LogStore` |
| `Replication`, `ReplicationProofs`, `MCReplication` | a leader's log and a follower's loop | uses the log as `Wal` shows it |
| `Recursion` | no code: induction over an interval, and that a recursive definition over one has a solution | used by `PostingsProofs`, `RaftNodeProofs` and `ReplicationProofs` |

**Wal.** `file` is the set of frames under the path, `view` the frames behind
the handle (another inode after a late prune error: `linked`), `tail` a torn
frame, `synced` and `hsynced` what a power loss keeps. `OpenNew` and
`OpenExisting` are the branches of `open`; `AppendWrite` then `AppendOk` or
`AppendErr` is `append` around its `sync_data`; `PruneRename` then `PruneReopen`
or `PruneLateErr` is `prune` around its rename. Bytes are abstracted to "passes
scan's checks" or "torn".

**DurableLog.** `acked` is promised; `tried` are records of unfinished or failed
appends that an open will find. An append is `Attempt`, which drops what an
earlier unfinished one left, then `Acknowledge`; `Prune` drops by seq; `Stop`
may lose any of `tried`; `Open` finds exactly the rest.

**Collection.** Data are versions: the vector, metadata and document of a write
are named by the seq the log gave it. `pc` is the owner of the mutex: `idle`,
`down`, `replay`, or the checkpoint step about to run. `Write` is a whole
request (validation, append, apply, flush, due checkpoint); `WriteError` is one
whose append fails, after any prefix of the batch was logged; each checkpoint
step is an action, `CheckpointError` its failure. The end of a checkpoint is two
fallible calls (`collection.rs:401` and `407`): `PruneLog` leaves the handle at
the last kept seq, or at 0 if nothing was kept, and `ReopenLog` takes it to
`next_seq`. `ReopenError` is `Wal::open` failing in between: after an emptying
prune the collection serves on a handle that stands at 0 (`handle = "rewound"`)
and hands out seqs again. `LatePruneError` is the prune failing after its rename:
the handle writes to the file that the rename replaced (`"unlinked"`), and
`adrift` are the records that are only there. `Load`, `Replay` and
`OpenDone` are `Collection::open`, including the fallback to a full replay when
`records.bin` and `checkpoint.json` disagree. `store` and `vec` record what
acknowledged writes left; `tried` holds the versions that failed batches have
logged since, which a later open may bring up.

`lost` says that an open collection lacks acknowledged records or that the next
one may. Four steps set it: a fallback that meets a pruned log (`LoadNothing`), a
crash with records `adrift`, an append through a rewound handle (replay will skip
it), and a checkpoint.json written through one (its `next_seq` makes the next open
reuse seqs). Late failures alone do not: if the process restarts next, or a later
checkpoint completes, nothing is lost, and the properties say so.

**DurableMap.** What a client may rely on, without log, checkpoint or replay:
`Write` changes what is seen and what is promised at once, `FailedWrite` only
adds to what a later `Start` may show, `Stop` forgets the process, and after
`Degrade`, which may come at any time, nothing is promised.

**Postings.** A bitmap is a set of offsets, and the nested maps are sets of
entries. A value is a kind and a number; `F64` rounds integers above `ExactInt`
as `i64 as f64` does above 2^53. `Matches`/`MatchCondition` are filter.rs,
`EvalOp`/`EvalCondition` are postings.rs. `Reopen` renumbers the records in any
order, as the iteration over the hash map does.

**Engine.** Each request has a `pc`; the actions are the redb transactions, map
accesses, file operations and stretches under the mutex (`Holding`). Whether an
auto-checkpoint is due is left open. `WriteCheck` infers an unset dimension in
memory and, if the batch is valid, writes it to the catalog; `WriteAppend` logs,
applies and flushes, and the flush fails when the index has another dimension.
`Restart` opens every catalogued collection or none.

**Filter.** A JSON document is a value, null, an array or an object; a parsed
condition is a tree. `ParseCondition` is parse_condition with parse_object and
parse_list, down to `ParseOp`, where a range operand becomes an f64;
`ConditionToValue` is the serializer. `Means` states what the module's
documentation says a document means, without a parse tree. An object is a
function that is `Absent` at the names it lacks; its keys are taken in one fixed
order, and no property depends on it. `Json[n]` are the documents whose objects
nest n deep at most, `Tree[n]` the conditions of height n; parser, writer,
evaluation and meaning are recursive functions over them, up to any `Depth`.

**Api.** A request is accepted (`Accept`: its body passes the handler's
validation or is answered at once) and then takes one action per catalog
transaction, map access, stretch under a mutex or raft proposal. `req[r].pc` is
the next of these. `resp` holds the response of the last step only, together
with what ran at the same time (`met`), so that a property can say when a
response is legitimate. `registered` is what the raft state machine knows of
collections, `cause` a history of the events that let it and the catalog differ.
`NativeAccepts` and `ChromaAccepts` are the validations of the two families,
which differ; `EngineAccepts` and `Panics` are what the engine checks and what
it would index out of bounds.

**RedbLogStore, RaftNode.** `log_table`, `vote_table` and `state_table` are the
redb tables, `last_purged` the copy in memory, `purging` the log id between
purge's two transactions. The state table drops the leader's node from a log id
(`Stored`, `Loaded`). `RaftNode` adds the state machine `sm`, which a start
builds anew, openraft's snapshot and the index `owed` that an installed snapshot
still has to purge. openraft is external: `agreed` is what the cluster committed,
and the guards of `AppendEntries`, `TruncateFrom`, `LearnCommit`, `Apply` and
`BeginPurge` are its contract (log matching, truncation of overruled entries
only, application in order, purge of what a snapshot covers). A gap in the
entries read is a storage error, on which openraft stops: `pc = "halted"`.

**Replication.** `wal`, `last_seq` and `pruned` are the leader's log. The
follower's loop is `Poll` (list its own catalog), per collection `FetchOk` or up
to three `FetchError`, then `ApplyRecord` for each record, which marks the
record applied whether or not it could be decoded. `Join` is the only way in
which the code gives a follower a collection of the leader's: a copied data
directory. `LeaderPowerLoss` is the default of no fsync. `missed` and `forked`
record what a follower passed over, and whether it had what the leader lost.

## 3. Runs

`-workers 2` is enough for all; the longest (`api`) takes about two
minutes. `CHECK_DEADLOCK FALSE` everywhere: the bounds on seqs, ids, checkpoints
and faults let a behaviour end.

| run | checks | shows |
|---|---|---|
| `wal_fsync` | `TypeOK` `AckedDurable`, `ImplementsDurableLog` | with fsync, acknowledged records survive failed appends, crashes and power loss until pruned |
| `wal_seqs` | `SeqsStrictlyIncrease` `NoTornRecord` | under every fault, a late prune error and no fsync included |
| `col_faults` | `TypeOK` `AckedVersionsSurvive` `LogCompleteAboveWatermark` `SeqsNeverReused` `BufferedVectorsAreLogged` `IndexOnlyLiveRecords`, `ImplementsDurableMap` | until `lost`: three checkpoints, two crashes anywhere, failing appends, index saves and prunes, late prune failures, failing reopens |
| `col_vectors` | `GetReturnsLastVector` `SearchSeesLastVector` `ReturnsToService` | where vectors are safe: one checkpoint, one vector per id, no crash just before `segment_index.bin` |
| `postings` | `TypeOK` `EvaluateAgrees` `SelectsWhatItMeans` `RoundTrips` | every comparison and pairs under `$and`/`$or`, over values equal across kinds; documents of every form, nested lists and malformed ones |
| `engine` | `TypeOK` `OneDimension` `EngineReopens` `AckedSurvive` `DeletedStaysGone` `ServedWhenIdle` | two concurrent requests, two ids for one name, a failing open, a crash |
| `raft_node` | `TypeOK` `StateMachineAgrees` `NoHole` `HaltsOnlyAfterPurge`, `ImplementsLogStore` | elections, conflicting entries, snapshots built and installed, purges, a crash between calls |
| `replication` | `TypeOK` `AgreesAtPosition` `MissedOnlyPruned`, `Converges` | a leader that prunes and loses its tail, a failing network, undecodable updates, a restarted follower |
| `api` | `TypeOK` `NeverPanics` `NotFoundOnlyOnRace` `GetOrCreateRefusedOnlyOnRace` `RegistrationExplained` `RowsPadded` | two concurrent requests of any kind; a failing open or proposal |
| `col_second_checkpoint` | `GetReturnsLastVector` violated | section 5, 1 |
| `col_torn_checkpoint` | `NoAckedRecordLost` violated | section 5, 2 |
| `api_membership` | `RemovedStaysOut` violated | section 5, 3 |

**Refinement.** `ImplementsDurableLog` maps the log file: the file is what is
read while a handle is open, what recovery would find of it and append has not
acknowledged is `tried`. A failed append, the reopen of a prune and the
truncation of a torn tail are stutters.

`ImplementsDurableMap` maps a collection to the abstract map:
clients see `ver` while the collection is up and nothing while it is not, `store`
is what was promised, `high` the clock, and the promise holds while not `lost`.
Every checkpoint step and failure (`LatePruneError` and `ReopenError` included),
every step of a recovery but the last, and a crash while down are stutters;
`WriteError` is a `FailedWrite`, and a step that sets `lost` is `Degrade`.

`ImplementsLogStore` maps the redb tables to the in-memory
store: the log table is `entries`; the purged log id is the one being purged
from the moment purge deletes the entries, the saved one while the process is
down, and the one in memory otherwise; `committed` is the highest committed
index the node has known to store, which the redb store leaves to openraft's
default save_committed; the vote is the saved vote. Log ids are compared by term and index, since the persistent store forgets the node. Every
transaction is then a step of `LogStore`, and a crash and reopen is a stutter.
With a crash between purge's two transactions allowed
(`CrashAt = {"idle", "purging"}`) the mapping fails: entries are gone while the
saved purged id is old (section 5).

**Bounds.** Two ids suffice for a collection because the files interact only
through counts (`record_count`, the label count), through the order of seqs and
through segment offsets, and two records already give files that differ in each.
`BatchSize = 2`, `SyncThreshold = 3` put flush and checkpoint at different
writes. Two or three checkpoints let files of two generations mix; two crashes
let a recovery be followed by another. In `col_faults` clients stop once `lost` is
set (`BeyondLoss = FALSE`): the properties claim nothing from there on, the crash
or append that sets it is still taken, and 3.1 million states remain. The runs
about the losses themselves set it TRUE. In `Engine`, two requests cover every
pairwise interleaving (the mutex admits one, deletion ignores it), two ids let a
name be created again after deletion, and three records at `BatchSize` 2 give a
flushed and a buffered part. In `RaftNode`, two terms give one leader that
overrules another, three indices leave room for a kept, a conflicting and a
purged entry, and the payloads (add a node, transfer leadership, membership)
do not commute. In `Replication`, one id and three seqs give an upsert, an
update and a deletion to miss, and a gap in front of a record that arrives; the
follower polls a collection of its own first, which the leader answers with 404.
In `Filter`, every
form that the parser distinguishes occurs, right and wrong, and lists nest twice
(`Depth = 3`); the theorems hold for every depth.
In `Api`, two requests cover every pairwise interleaving; one name, which two
collection ids bear one after the other; two record ids; five bodies that cover
each branch of the validations (one record with all columns, two records, an id twice with a column
too short, an id and a vector out of limits, none but two filtered queries).
Clients send one of four mixes of operations, since those of different mixes touch
different state: collections; the records of one; deletion beside reads; raft
membership beside creation. The safety theorems of section 4 do not depend on
these bounds. `Symmetric` and `OpSymmetry` permute model values no definition
distinguishes; the runs with a liveness property use no symmetry.

**Fairness.** `FairSpec` of `Collection`: weak fairness of the steps of opening
and of the steps of a checkpoint. Both are straight-line code of one thread that
already holds the mutex, so a step that is ready is taken. `FairSpec` of
`Replication`: weak fairness of the follower's loop as a whole, a task of its own
that waits only for its timer and for answers; which of an answer and an error
comes is not fair, but errors are bounded. Clients, leaders that prune and
followers that join owe nothing.

## 4. Proofs

TLAPS proves, for all constants that satisfy the named assumptions:

- `WalProofs`: `WalTypeCorrect`, `WalSeqsIncrease`, `WalNoTornRecord` under every
  fault, from `FileInv` (seqs determine frames), `HandleInv` (the handle's last
  seq is above all frames it sees, and what is on disk is related to what it
  sees) and `TailInv` (torn frames are confined to the tail). `WalAckedDurable`
  adds `DurableInv` and assumes `TrustedFaults`: prune does not fail after its
  rename, and power is lost only with fsync on. Both assumptions are needed;
  TLC refutes the statement without either. `WalImplementsDurableLog` is the
  refinement, under the same assumptions; it needs `WriteInv` besides: the bytes
  past the end of the file are the frame that a running append writes.
- `CollectionProofs`: `CollectionTypeCorrect`; `CollectionAckedVersionsSurvive`
  and `CollectionSeqsNeverReused`, from `CheckpointInv` (what records.bin and
  checkpoint.json hold at each `pc`) and `LogInv` (log and checkpoint together
  determine every version, and the seq to resume at is above all handed out).
  Alone the properties are not inductive: a crash turns memory into what the
  files say, so the invariant must say at each checkpoint step which versions
  the files give. `HandleInv` says that only an unlinked file holds records that no
  open finds, and that neither kind of wrong handle outlives the process or a
  successful prune; between prune and reopen `LogInv` relies on `json.next_seq`
  where the log is empty. Each of these properties is stated
  until `lost`, which is never reset (`LostStays`);
  `CollectionSeqsNeverReused` moreover leaves out a rewound handle, whose next
  append does reuse a seq. `CollectionLogComplete`: the log holds every seq above the
  catalog's watermark, through failed prunes and reopens (`WatermarkStep`).
  `CollectionBufferedAreLogged` needs `BufferInv`, which adds that a replay's
  cursor is never below the watermark. `CollectionIndexOnlyLive` needs
  `SearchInv`: an id in the saved index is live, or the log has something of it
  above the saved watermark, so that a crash that pairs index files of one
  checkpoint with records of another is repaired by the replay.
  `CollectionGetReturnsLastVector` and `CollectionSearchSeesLastVector` hold under
  `VectorConditions`, the settings of the run `col_vectors`; `col_second_checkpoint`
  and section 5 show what happens beyond them. They need `VectorInv`: what the one
  checkpoint has saved at each step (`Saved`; `Offsets` and `SegmentLookup` show
  that an offset finds its own embedding), that there is no vector of an id but the
  last (`Only`), and that it is in the log or saved, and found by get and search
  once it has been loaded or replayed (`Kept`).
  `CollectionImplementsMap` is the refinement, for all settings: `MapStep` maps
  each action, with the same invariant; the map itself promises nothing after
  `lost`. `CollectionLosesNothing` says what sets `lost`, and so how records
  can be lost, among the failures that `Collection` has: if no crash and no failure
  ends a checkpoint between records.bin and checkpoint.json (`NeverTorn`), prune
  does not fail after its rename and the reopen does not fail after the prune
  (`NeverLate`), every acknowledged record survives crashes and failures at all
  other steps (`LoadableInv`: outside that window an existing checkpoint can be
  loaded, the log is cut only once there is one, and its handle is the right one).
  None of the three conditions can be dropped: `col_torn_checkpoint` refutes the
  statement without the first, and section 5 tells what TLC finds without the others.
- `PostingsProofs`: `PostingsTypeCorrect` and `PostingsEvaluateAgrees`, for any
  sets of keys, values and filters, from `OffsetInv` (the two offset maps are
  inverse and cover the live records) and `IndexInv` (eq, num and all are the
  entries of the live records). `ValueKeyAgrees` is where `ExactInts` is used.
  `FilterSelectsWhatItMeans` and `FilterRoundTrips`, for any documents of any
  nesting: each recursive function has the equation that defines it
  (`JsonDef`, `TreeDef`, `ParseDef`, `MeansDef`, `ValueDef`, `EvalDef`), since it can
  be built level by level. By induction over the nesting of a document, what the
  parser makes of it is a condition at most one level higher that selects the
  records it describes (`ParsedWell`: `ParseOpAgrees`, `ParseFieldAgrees`,
  `ListAgrees`, `ObjectAgrees`); by induction over the height of a condition, what
  is written of it is parsed back to it (`WrittenBack`).
- `EngineProofs`, for any number of requests: `EngineTypeCorrect`,
  `EngineAckedSurvive`, `EngineDeletedStaysGone`, `EngineServedWhenIdle`, if
  clients delete only what has been created (`~EarlyDelete`; TLC refutes the last
  two without). The invariant says what a request may count on at each step
  (`Requests`), that a collection stays in the map while it is catalogued and
  leaves it with its deletion (`Serving`), that one request at a time is inside a
  collection (`Mutex`), and that what is served is what the files hold
  (`Durable`). `EngineOneDimension` and `EngineAlwaysReopens` add `Dimensions`
  and the settings of the run `engine` (`DimensionConditions`): no rejected first
  batch and no failure to persist an inferred dimension (section 5).
- `RaftNodeProofs`, for any number of terms and entries: `RaftTypeCorrect`,
  `RaftNoHole`, `RaftStateMachineAgrees`, `RaftHaltsOnlyAfterPurge` and the
  refinement `RaftImplementsLogStore`, if the process does not die between the
  transactions of a purge (`NoCrashInPurge`; the refinement fails without it). The
  log is an interval that starts at the purged id (`StoreInv`); committed entries
  are in it or purged, and an installed snapshot owes a purge (`CommitInv`).
  `StateMachineAgrees` is about a fold over the log: `Recursion` gives the
  recursive function its defining equation, and an induction over the interval
  shows that it depends only on the entries up to the index.
- `ReplicationProofs`, for any history: `ReplicationTypeCorrect`,
  `ReplicationMissedOnlyPruned` and `ReplicationAgreesAtPosition`. The invariant
  says that a delta is a stretch of seqs beyond the position (`InOrder`), part of
  the leader's history unless that forked, and long enough to reach the copy
  (`Grounded`); and what a record is while the log is replayed over a copy that
  is ahead of it (`Replayed`): final once fully written, otherwise the copy's
  vector with the metadata of the last update. `ReplayStep` and `AgreeStep` are
  the two ways to apply a record, below and beyond the copy.
- `ApiProofs`, for any number of requests, collections, records and bodies, without
  conditions: `ApiTypeCorrect`, `ApiNeverPanics`, `ApiNotFoundOnlyOnRace`,
  `ApiGetOrCreateRefusedOnlyOnRace`, `ApiRegistrationExplained`, `ApiRowsPadded`.
  Two requests that run at once have met (`Met`); a catalogued collection that is
  not served is being opened or failed to (`Unserved`); a difference between
  catalog and raft is the work of a request that is still running or has a
  recorded cause (`Registered`); the rows of a query are bounded by what the
  collection held while it ran (`Rows`). `ApiNeverPanics` follows from what each
  validation lets through (`Carries`).

The assumptions on constants are those of the modules (`WalAssumption` and so
on): bounds are numbers, sets of ids and faults are what they are named for.
`ApiAssumption` also asks that names, ids and `None` differ and that bodies are
bodies.

`FilterAssumption` asks that objects have finitely many names and that documents
nest at most `Depth` deep, whatever that number is.

Only model-checked: the liveness properties `ReturnsToService` and `Converges`,
which are beyond the prover.

## 5. Where code and documentation disagree

With a run each:

1. *Second checkpoint* (`collection.rs:349`): the segment is rebuilt from
   embeddings still in memory, but the first checkpoint removed the covered
   ones; their vectors are overwritten.
2. *Torn checkpoint* (`collection.rs:315`): a crash between records.bin and
   checkpoint.json can make open discard the checkpoint and replay a log an
   earlier checkpoint had cut.
3. *Removed member* (`rekha-api/src/lib.rs:811`): "Remove node" (`src/README.md:165`)
   keeps the node as a learner (retain = true), and the next removal of another
   node makes all learners voters, the removed one included.

Without a run, found while modelling and excluded by a stated condition or not
the subject of a property:

- *shadowed upsert* (`lib.rs:550`): reads prefer the segment, and nothing removes
  an upserted id from `segment_index`, although an upsert replaces the embedding
  (`lib.rs:412-413`); `col_vectors` therefore allows one vector per id
  (`Rewrites = FALSE`);
- *filtered query* (`collection.rs:869`): the path documented as exact skips
  records whose embedding a checkpoint moved to the segment; and buffered records
  are filtered by the metadata copied at the write, which an update does not
  refresh (`collection.rs:846`);
- *lost dimension* (`lib.rs:392`): a rejected first batch fixes the dimension in
  memory only; later batches never update the catalog, and after a restart
  vectors of two dimensions share the collection (the run `engine` excludes the
  rejected first batch);
- a delete that fails after it was logged (`collection.rs:484`) leaves the record
  in memory and in the next index.meta; if that checkpoint's prune fails as well
  and a crash then forces a full replay, the replay deletes the record, and
  another crash can pair the old index with the new records: a search finds a
  record that is not there. `IndexOnlyLiveRecords` exempts the ids of failed
  batches for this reason;
- prune fails after its rename (`rekha-wal/src/lib.rs:409`), by the directory sync
  or the reopen: "On failure the original file is untouched"
  (`rekha-wal/src/lib.rs:369`), but the handle keeps the unlinked inode and
  acknowledges appends that no open will see (`TrustedFaults`; with
  `Faults = {"late"}` TLC finds `AckedDurable` violated). The collection goes on
  serving: in the settings of `col_torn_checkpoint` with `CrashAt = {"idle"}` and
  `FailAt = {"late"}`, TLC finds `NoAckedRecordLost` violated (a checkpoint whose
  prune fails late, a write, a crash, an open that lacks the write);
- `Wal::open` fails after the prune of the same checkpoint emptied the log
  (`collection.rs:407`): "reopen it resuming at next_seq so live appends continue
  exactly where the checkpoint left off" (`collection.rs:402-403`), but the error
  returns with the handle at seq 0, the next acknowledged writes get seqs that
  checkpoint.json covers, and replay skips them. With `CrashAt = {"idle"}` and
  `FailAt = {"reopen"}` TLC finds `NoAckedRecordLost` violated in the same way;
- a torn header after power loss makes every later open fail
  (`rekha-wal/src/lib.rs:459`), for the collection and so for the engine;
- a crash between seg-0.bin and segment_index.bin (`collection.rs:367`) leaves
  covered records without a readable vector (`col_vectors` excludes the point);
- integers above 2^53 that share an f64 share a posting (`ExactInts`);
- an index created with dimension 0 keeps it until restart or optimize, so every
  flush fails after the log commit and a stored batch is reported as an error;
- failure to persist an inferred dimension is called harmless because "the WAL
  replay will re-infer" (`lib.rs:401`); replay infers nothing (fault `persist`);
- a deletion between the catalog and map steps of a creation leaves a served,
  uncatalogued collection (`EarlyDelete`); a checkpoint running beside a deletion
  can leave its directory behind (`lib.rs:357`);
- a crash between purge's transactions (`redb_log_store.rs:292`): the entries
  are gone and the saved purged id is old. The reopened store reports a log with
  a gap, which openraft refuses (`CrashAt` of `raft_node` excludes the point);
- a restarted node whose store purged anything cannot rebuild its state machine,
  which is in memory only (`main.rs:212` of rekha-cli; `HaltsOnlyAfterPurge` says
  that this is the only way to halt);
- over HTTP a snapshot is posted to `/internal/raft/raft/install_snapshot`, which
  no route serves (`network.rs:107`); with REKHA_API_KEY set no raft RPC and no
  delta request is authorized, because neither client sends the key. `Delivered`
  and `Reaches` say so, and the runs use the settings in which something happens;
- `--peers` is documented with bare addresses ("host1:8001,host2:8002",
  `main.rs:58` of rekha-cli), which fetch_delta uses as the start of a URL: only
  peers given with a scheme are polled (`WithScheme`);
- a leader that loses an unsynced tail reuses its seqs; a follower that had
  applied them skips what the leader writes there (`forked`);
- a Chroma creation is never proposed to raft, and a failed or overtaken proposal
  leaves catalog and state machine different (`RegistrationExplained` names all
  the reasons); a failed open leaves a catalog entry that turns every native list
  into a 404 until a restart;
- an update without metadata erases the record's metadata, and
  get leaves missing ids out of the list of ids but not out of the list of
  metadata (`rekha-api/src/lib.rs:749`), so positions do not correspond when an id
  is missing; the contents of these lists are not modelled.

## 6. Abstractions and assumptions

- fsync of a new file is taken to make its directory entry durable; a power loss
  that undoes prune's rename would restore a superset of the log and is left
  out. `Collection` and `Engine` have process crashes, not power loss.
- A torn index.bin/index.meta pair is recognised by its label count as in the
  code; a pair with equal counts whose labels were renumbered is not modelled.
- Batches in `Collection` have one kind and distinct ids, in `Engine` one record.
- A failed append's bytes past `file_len` appear only in `Wal`. The failure of
  `load_checkpoint`'s own `Wal::open` is not modelled. Stale segment files are
  removed in one step. A prune that fails late and a reopen that fails are in `Wal`
  and `Collection`; in `Engine` and `Replication` the end of a checkpoint is one
  step that succeeds.
- `Collection` assumes `index.add` succeeds (a configured dimension); `Engine`
  has the failing case.
- `Postings.Reopen` may happen at any time and forgets the tail; the replay is
  the same operations again, so this covers more than the code does. An update
  of a record that a lossy replay does not know is not modelled.
- In `Engine`, an I/O error in the middle of a deletion is like a crash there
  for the files: the deletion has not returned Ok. Optimize is in `Collection`,
  the read requests in `Collection` and `Api`.
- `Api` models a server in a cluster, with one tenant and database, and no
  restart. Whether an embedding fits the collection's dimension is left open, and
  under a filter any number of results up to the limit. `1 \in voters` stands for
  leadership: this node leads while it votes. Proposals are atomic with their
  application; a failing one may or may not have been committed. A name that
  parses as a UUID, which Chroma paths cannot reach, is left out.
- `RaftNode` has one node; the others are what `agreed` leaves open. Votes are
  terms. Which node leads a term is fixed (`LeaderOf`).
- `Replication` has one follower, whose own clients do not write to the shared
  collection; a delta is answered in one step.

## 7. Plan

Done: all modules of section 2 and the proofs of section 4. Worth doing next:

`Wal` composed with `Collection`, to bring power loss and failed-append
residue to the collection.

Not modelled: shell, distance kernels, JSON shapes, TLS and metrics (I/O or
floating point); usearch and openraft themselves (third party); object storage
(segment copies are written and never read back); `Engine::snapshot` and
`restore_snapshot`, and the catalog's create_tenant, create_database and
update_collection_metadata, which no path of the server reaches.
