------------------------------- MODULE Engine -------------------------------
(***************************************************************************)
(* rekha-engine's Engine: the map of open collections, the redb catalog    *)
(* and the files of every collection, while several requests create,       *)
(* delete, write to and checkpoint collections at the same time and the    *)
(* process crashes and restarts.                                           *)
(*                                                                         *)
(* A request runs in a task of its own.  What it does between two points   *)
(* where others can interfere is one action: a redb transaction, an access *)
(* to the map under its RwLock, a file operation, or a stretch of work     *)
(* under the collection's mutex.  What happens inside one collection       *)
(* (torn checkpoints, failed appends, the vectors themselves) is module    *)
(* Collection's; here a checkpoint's files are replaced together.  A       *)
(* record is its number and the dimension of its vector, and a batch is    *)
(* one record.                                                             *)
(***************************************************************************)
EXTENDS Naturals, FiniteSets

CONSTANTS
    Client,       \* concurrent requests
    Uuid,         \* collection ids; every creation draws a fresh one
    Name,         \* collection names (of one tenant and database)
    Dim,          \* dimensions of the vectors clients send
    BatchSize,    \* hnsw.batch_size
    Faults,       \* see FaultKinds
    EarlyDelete,  \* may a client delete a collection still being created?
    BadBatches,   \* may a client send a batch that validation rejects?
    MaxRec, MaxCrash   \* bounds on records written and crashes

(* "persist": update_collection_dimension fails (the code only warns).     *)
(* "open"   : Collection::open fails in create_collection.                 *)
FaultKinds == {"persist", "open"}

ASSUME EngineAssumption ==
    /\ Dim \subseteq Nat \ {0} /\ BatchSize \in Nat \ {0}
    /\ Faults \subseteq FaultKinds
    /\ EarlyDelete \in BOOLEAN /\ BadBatches \in BOOLEAN
    /\ MaxRec \in Nat /\ MaxCrash \in Nat

NoName == "none"
NoUuid == "none"
Unset  == 0       \* the dimension of a collection that has none yet

VARIABLES
    up,           \* Engine::open has returned
    name, cdim,   \* the catalog: name and dimension of each collection
    map,          \* Engine::collections
    dim, idim,    \* config.dimension of an open collection, and its index's
    recs,         \* its records ...
    buf, flushed, \* ... those in the buffer, those up to flushed_seq
    wfile, log,   \* collections with a log file, and the records in it
    ckpt,         \* the checkpoint directory: its records, the flushed ones
    pc, tgt, arg, \* each request: its next step, collection, and argument
    used,         \* history: ids drawn so far
    served,       \* history: ids that creation or start-up put in the map
    deleted,      \* history: ids whose deletion returned Ok
    acked,        \* history: records whose write returned Ok
    next,         \* history: number of the next record
    crashes

catalog  == <<name, cdim>>
memory   == <<map, dim, idim, recs, buf, flushed>>
files    == <<wfile, log, ckpt>>
requests == <<pc, tgt, arg>>
history  == <<used, served, deleted, acked, next, crashes>>
vars     == <<up, catalog, memory, files, requests, history>>

Catalogued == {u \in Uuid : name[u] # NoName}

NoCheckpoint == [recs |-> {}, flushed |-> {}]

NoArg == [d |-> Unset, ok |-> TRUE, recs |-> {}]

(* The steps a request takes with the collection's mutex held.             *)
Holding == {"append", "files", "advance", "prune"}

Locked(u) == \E c \in Client : tgt[c] = u /\ pc[c] \in Holding

Goto(c, step) == pc' = [pc EXCEPT ![c] = step] /\ UNCHANGED <<tgt, arg>>

(* The request starts: its collection, argument and next step.             *)
Start(c, u, a, step) ==
    /\ pc' = [pc EXCEPT ![c] = step]
    /\ tgt' = [tgt EXCEPT ![c] = u] /\ arg' = [arg EXCEPT ![c] = a]

(* The request is over, with or without an error.                          *)
End(c) == Start(c, NoUuid, NoArg, "idle")

Init ==
    /\ up = TRUE
    /\ name = [u \in Uuid |-> NoName] /\ cdim = [u \in Uuid |-> Unset]
    /\ map = {}
    /\ dim = [u \in Uuid |-> Unset] /\ idim = [u \in Uuid |-> Unset]
    /\ recs = [u \in Uuid |-> {}] /\ buf = [u \in Uuid |-> {}]
    /\ flushed = [u \in Uuid |-> {}]
    /\ wfile = {} /\ log = [u \in Uuid |-> {}]
    /\ ckpt = [u \in Uuid |-> NoCheckpoint]
    /\ pc = [c \in Client |-> "idle"]
    /\ tgt = [c \in Client |-> NoUuid]
    /\ arg = [c \in Client |-> NoArg]
    /\ used = {} /\ served = {} /\ deleted = {}
    /\ acked = [u \in Uuid |-> {}]
    /\ next = 1 /\ crashes = 0

-----------------------------------------------------------------------------
(* Engine::create_collection.  A name that is taken is an error and        *)
(* changes nothing, whether or not get_or_create looked for it first.      *)

(* The catalog's transaction.                                              *)
CreateCatalog(c, n, d) ==
    /\ up /\ pc[c] = "idle"
    /\ \A u \in Uuid : name[u] # n
    /\ \E u \in Uuid \ used :
         /\ name' = [name EXCEPT ![u] = n] /\ cdim' = [cdim EXCEPT ![u] = d]
         /\ used' = used \cup {u}
         /\ Start(c, u, [NoArg EXCEPT !.d = d], "open")
    /\ UNCHANGED <<up, memory, files, served, deleted, acked, next, crashes>>

(* Collection::open with the configuration of the request: an empty log    *)
(* file is created, and the index has the configured dimension.            *)
CreateOpen(c) ==
    LET u == tgt[c] IN
    /\ pc[c] = "open"
    /\ wfile' = wfile \cup {u}
    /\ dim' = [dim EXCEPT ![u] = arg[c].d] /\ idim' = [idim EXCEPT ![u] = arg[c].d]
    /\ Goto(c, "insert")
    /\ UNCHANGED <<up, catalog, map, recs, buf, flushed, log, ckpt, history>>

(* It fails: so does the request, and the catalog entry stays.             *)
CreateOpenFails(c) ==
    /\ pc[c] = "open" /\ "open" \in Faults
    /\ End(c)
    /\ UNCHANGED <<up, catalog, memory, files, history>>

CreateInsert(c) ==
    /\ pc[c] = "insert"
    /\ map' = map \cup {tgt[c]} /\ served' = served \cup {tgt[c]}
    /\ End(c)
    /\ UNCHANGED <<up, catalog, dim, idim, recs, buf, flushed, files,
                   used, deleted, acked, next, crashes>>

-----------------------------------------------------------------------------
(* Engine::delete_collection.  An id the catalog does not know is an error *)
(* and changes nothing.                                                    *)

DeleteCatalogAfterFiles(c, u) ==
    /\ up /\ pc[c] = "idle" /\ u \in Catalogued
    /\ EarlyDelete \/ u \in served
    /\ wfile' = wfile \ {u} /\ log' = [log EXCEPT ![u] = {}]
    /\ Start(c, u, NoArg, "unmap")
    /\ UNCHANGED <<up, catalog, memory, ckpt, history>>

DeleteCatalog(c, u) ==
    /\ up /\ pc[c] = "idle" /\ u \in Catalogued
    /\ EarlyDelete \/ u \in served
    /\ name' = [name EXCEPT ![u] = NoName]
    /\ Start(c, u, NoArg, "unmap")
    /\ UNCHANGED <<up, cdim, memory, files, history>>

DeleteUnmapForgotten(c) ==
    /\ pc[c] = "unmap"
    /\ Goto(c, "rmwal")
    /\ UNCHANGED <<up, catalog, memory, files, history>>

DeleteUnmap(c) ==
    /\ pc[c] = "unmap"
    /\ map' = map \ {tgt[c]} /\ Goto(c, "rmwal")
    /\ UNCHANGED <<up, catalog, dim, idim, recs, buf, flushed, files, history>>

(* The log file is unlinked.  A request that still holds the collection    *)
(* keeps writing to the inode, which no open will find.                    *)
DeleteWal(c) ==
    /\ pc[c] = "rmwal"
    /\ wfile' = wfile \ {tgt[c]} /\ log' = [log EXCEPT ![tgt[c]] = {}]
    /\ Goto(c, "rmckpt")
    /\ UNCHANGED <<up, catalog, memory, ckpt, history>>

DeleteCheckpoint(c) ==
    /\ pc[c] = "rmckpt"
    /\ ckpt' = [ckpt EXCEPT ![tgt[c]] = NoCheckpoint]
    /\ deleted' = deleted \cup {tgt[c]}
    /\ End(c)
    /\ UNCHANGED <<up, catalog, memory, wfile, log, used, served, acked, next, crashes>>

-----------------------------------------------------------------------------
(* Requests to one collection find it in the map and keep its Arc; one     *)
(* that does not find it is an error.                                      *)

Lookup(c, u, step, a) ==
    /\ up /\ pc[c] = "idle" /\ u \in map
    /\ Start(c, u, a, step)
    /\ UNCHANGED <<up, catalog, memory, files, history>>

(* Engine::add and upsert.  `ok' is FALSE for a batch that is rejected for *)
(* its own sake: vectors of two dimensions, or an id given twice.          *)
LookupForWrite(c, u) ==
    /\ next <= MaxRec
    /\ \E d \in Dim, ok \in IF BadBatches THEN BOOLEAN ELSE {TRUE} :
         Lookup(c, u, "write", [d |-> d, ok |-> ok, recs |-> {}])

(* Engine::checkpoint.                                                     *)
LookupForCheckpoint(c, u) == Lookup(c, u, "ckpt", NoArg)

(* The request returns Ok.                                                 *)
Return(c) ==
    /\ acked' = [acked EXCEPT ![tgt[c]] = @ \cup arg[c].recs]
    /\ End(c)

WriteCheckNotPersisting(c) ==
    LET u == tgt[c]
        d == IF dim[u] = Unset THEN arg[c].d ELSE dim[u]
    IN
    /\ pc[c] = "write" /\ ~Locked(u)
    /\ dim' = [dim EXCEPT ![u] = d]
    /\ IF arg[c].ok /\ arg[c].d = d THEN Goto(c, "append") ELSE End(c)
    /\ UNCHANGED <<up, catalog, map, idim, recs, buf, flushed, files, history>>

(* Under the mutex: the first vector fixes an unset dimension, in memory   *)
(* even if the batch is then rejected.  An accepted batch that fixed it    *)
(* also writes it to the catalog, and only warns if that fails, as it does *)
(* when the collection has been deleted.                                   *)
WriteCheck(c) ==
    LET u == tgt[c]
        inferred == dim[u] = Unset
        d == IF inferred THEN arg[c].d ELSE dim[u]
        valid == arg[c].ok /\ arg[c].d = d
    IN
    /\ pc[c] = "write" /\ ~Locked(u)
    /\ dim' = [dim EXCEPT ![u] = d]
    /\ \/ inferred /\ valid /\ u \in Catalogued /\ cdim' = [cdim EXCEPT ![u] = d]
       \/ /\ ~(inferred /\ valid /\ u \in Catalogued) \/ "persist" \in Faults
          /\ cdim' = cdim
    /\ IF valid THEN Goto(c, "append") ELSE End(c)
    /\ UNCHANGED <<up, name, map, idim, recs, buf, flushed, files, history>>

(* Do the vectors of rs go into an index of dimension d?  UsearchIndex::add *)
(* refuses any other.                                                      *)
Fits(rs, d) == \A r \in rs : r[2] = d

(* write_ops and flush_if_needed.  A flush that fails has already taken    *)
(* the buffer, and the request returns the error: the record stays in the  *)
(* log and in memory.  A request that gets this far may find that an       *)
(* auto_checkpoint is due.                                                 *)
WriteAppend(c) ==
    LET u == tgt[c]
        r == <<next, arg[c].d>>
        b == buf[u] \cup {r}
        flush == Cardinality(b) >= BatchSize
        fails == flush /\ ~Fits(b, idim[u])
    IN
    /\ pc[c] = "append" /\ next <= MaxRec
    /\ next' = next + 1
    /\ log' = IF u \in wfile THEN [log EXCEPT ![u] = @ \cup {r}] ELSE log
    /\ recs' = [recs EXCEPT ![u] = @ \cup {r}]
    /\ buf' = [buf EXCEPT ![u] = IF flush THEN {} ELSE b]
    /\ flushed' = [flushed EXCEPT ![u] = IF flush /\ ~fails THEN recs[u] \cup {r} ELSE @]
    /\ \/ fails /\ End(c) /\ acked' = acked
       \/ ~fails /\ End(c) /\ acked' = [acked EXCEPT ![u] = @ \cup {r}]
       \/ ~fails /\ Start(c, u, [arg[c] EXCEPT !.recs = {r}], "files") /\ acked' = acked
    /\ UNCHANGED <<up, catalog, map, dim, idim, wfile, ckpt, used, served, deleted, crashes>>

(* Collection::checkpoint, nothing to do: there are no records.            *)
CheckpointEmpty(c) ==
    /\ pc[c] = "ckpt" /\ ~Locked(tgt[c]) /\ recs[tgt[c]] = {}
    /\ Return(c)
    /\ UNCHANGED <<up, catalog, memory, files, used, served, deleted, next, crashes>>

CheckpointFilesOfBuffer(c) ==
    LET u == tgt[c] IN
    /\ pc[c] = "files" \/ (pc[c] = "ckpt" /\ ~Locked(u))
    /\ recs[u] # {}
    /\ ckpt' = [ckpt EXCEPT ![u] = [recs |-> buf[u], flushed |-> flushed[u]]]
    /\ Goto(c, "advance")
    /\ UNCHANGED <<up, catalog, memory, wfile, log, history>>

(* The files are written, and the directory created again if need be.      *)
CheckpointFiles(c) ==
    LET u == tgt[c] IN
    /\ pc[c] = "files" \/ (pc[c] = "ckpt" /\ ~Locked(u))
    /\ recs[u] # {}
    /\ ckpt' = [ckpt EXCEPT ![u] = [recs |-> recs[u], flushed |-> flushed[u]]]
    /\ Goto(c, "advance")
    /\ UNCHANGED <<up, catalog, memory, wfile, log, history>>

CheckpointAdvanceInserting(c) ==
    /\ pc[c] = "advance"
    /\ \E n \in Name : name' = [name EXCEPT ![tgt[c]] = n]
    /\ Goto(c, "prune")
    /\ UNCHANGED <<up, cdim, memory, files, history>>

(* advance_log_offset: an error if the collection has been deleted.        *)
CheckpointAdvance(c) ==
    /\ pc[c] = "advance"
    /\ IF tgt[c] \in Catalogued THEN Goto(c, "prune") ELSE End(c)
    /\ UNCHANGED <<up, catalog, memory, files, history>>

(* Wal::prune and the reopen of the log: the kept records are copied from  *)
(* the open handle into a file that is renamed over the path.              *)
CheckpointPrune(c) ==
    LET u == tgt[c] IN
    /\ pc[c] = "prune"
    /\ wfile' = wfile \cup {u}
    /\ log' = [log EXCEPT ![u] = recs[u] \ flushed[u]]
    /\ Return(c)
    /\ UNCHANGED <<up, catalog, memory, ckpt, used, served, deleted, next, crashes>>

-----------------------------------------------------------------------------
(* The process dies; catalog and files stay.                               *)
Crash ==
    /\ up /\ crashes < MaxCrash
    /\ up' = FALSE /\ crashes' = crashes + 1
    /\ map' = {} /\ pc' = [c \in Client |-> "idle"]
    /\ tgt' = [c \in Client |-> NoUuid] /\ arg' = [c \in Client |-> NoArg]
    /\ UNCHANGED <<catalog, dim, idim, recs, buf, flushed, files,
                   used, served, deleted, acked, next>>

(* Collection::open of a catalogued collection: the checkpoint is loaded,  *)
(* the tail of the log replayed, and the buffer flushed if it is full.     *)
Tail(u) == log[u] \ ckpt[u].flushed

Full(u) == Cardinality(Tail(u)) >= BatchSize

Opens(u) == Full(u) => Fits(Tail(u), cdim[u])

(* Engine::open: every collection in the catalog, or none.                 *)
Restart ==
    /\ ~up /\ \A u \in Catalogued : Opens(u)
    /\ up' = TRUE
    /\ map' = Catalogued /\ served' = served \cup Catalogued
    /\ dim' = cdim /\ idim' = cdim
    /\ recs' = [u \in Uuid |-> ckpt[u].recs \cup log[u]]
    /\ buf' = [u \in Uuid |-> IF Full(u) THEN {} ELSE Tail(u)]
    /\ flushed' = [u \in Uuid |-> IF Full(u) THEN recs'[u] ELSE ckpt[u].flushed]
    /\ wfile' = wfile \cup Catalogued
    /\ UNCHANGED <<catalog, log, ckpt, requests, used, deleted, acked, next, crashes>>

-----------------------------------------------------------------------------
Next ==
    \/ \E c \in Client :
         \/ \E n \in Name, d \in Dim \cup {Unset} : CreateCatalog(c, n, d)
         \/ CreateOpen(c) \/ CreateOpenFails(c) \/ CreateInsert(c)
         \/ \E u \in Uuid : DeleteCatalog(c, u) \/ LookupForWrite(c, u)
                              \/ LookupForCheckpoint(c, u)
         \/ DeleteUnmap(c) \/ DeleteWal(c) \/ DeleteCheckpoint(c)
         \/ WriteCheck(c) \/ WriteAppend(c)
         \/ CheckpointEmpty(c) \/ CheckpointFiles(c) \/ CheckpointAdvance(c)
         \/ CheckpointPrune(c)
    \/ Crash
    \/ Restart

Spec == Init /\ [][Next]_vars

-----------------------------------------------------------------------------
Records == (1..next - 1) \X Dim

(* Types; and a record is in the buffer or flushed, never in both.         *)
TypeOK ==
    /\ up \in BOOLEAN
    /\ name \in [Uuid -> Name \cup {NoName}] /\ cdim \in [Uuid -> Dim \cup {Unset}]
    /\ map \subseteq served /\ served \subseteq used /\ used \subseteq Uuid
    /\ deleted \subseteq served
    /\ dim \in [Uuid -> Dim \cup {Unset}] /\ idim \in [Uuid -> Dim \cup {Unset}]
    /\ wfile \subseteq used
    /\ \A u \in Uuid :
         /\ recs[u] \subseteq Records /\ log[u] \subseteq Records
         /\ buf[u] \subseteq recs[u] /\ flushed[u] \subseteq recs[u]
         /\ buf[u] \cap flushed[u] = {}
         /\ ckpt[u].flushed \subseteq ckpt[u].recs
         /\ ckpt[u].recs \subseteq Records
    /\ tgt \in [Client -> Uuid \cup {NoUuid}]
    /\ \A c \in Client :
         pc[c] \in {"idle", "open", "insert", "unmap", "rmwal", "rmckpt", "write", "ckpt"}
                     \cup Holding

(* All vectors of an open collection have the same dimension, also the ones *)
(* that were written before and after a restart.                           *)
OneDimension == \A u \in map : \A r, q \in recs[u] : r[2] = q[2]

(* If the process died now, Engine::open would succeed: no collection's    *)
(* log holds vectors its index would refuse.                               *)
EngineReopens == \A u \in Catalogued : Opens(u)

(* A record whose write returned Ok is in the files of its collection, and *)
(* served while the collection is, until the collection is deleted.        *)
AckedSurvive ==
    \A u \in Catalogued :
        /\ acked[u] \subseteq ckpt[u].recs \cup log[u]
        /\ u \in map => acked[u] \subseteq recs[u]

(* Once delete_collection has returned, the collection is neither served   *)
(* nor catalogued, and no restart brings it back.                          *)
DeletedStaysGone == deleted \cap (map \cup Catalogued) = {}

(* When no request is running, the collections served are the catalogued   *)
(* ones, except those whose creation failed after the catalog entry.       *)
ServedWhenIdle ==
    up /\ (\A c \in Client : pc[c] = "idle") => map = Catalogued \cap served
=============================================================================
