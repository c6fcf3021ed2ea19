--------------------------------- MODULE Api ---------------------------------
(***************************************************************************)
(* rekha-api: the HTTP handlers, native and Chroma-compatible, of the node *)
(* that leads the cluster, in front of the engine, the catalog and raft.   *)
(*                                                                         *)
(* Each request runs in a task of its own.  What a handler does between    *)
(* two points where others can interfere is one action: a catalog          *)
(* transaction, an access to the collection map, work under a collection's *)
(* mutex, a raft proposal.  Bodies that validation refuses change nothing  *)
(* and are answered at once.  A body is reduced to what the code inspects: *)
(* ids, whether the length of each embedding is between 1 and the limit,   *)
(* and the lengths of the optional columns of metadata and documents.      *)
(* Files, restarts, dimensions and what a record holds are the business of *)
(* Engine and Collection.                                                  *)
(***************************************************************************)
EXTENDS Naturals, Sequences, FiniteSets

CONSTANTS
    Req,        \* concurrent requests
    Name, Cid,  \* collection names (of one tenant and database) and ids
    Rid, BadId, \* record ids; BadId is one that is empty or too long
    Bodies,     \* request bodies (see Body)
    Mixes,      \* the sets of operations that clients send together
    Node,       \* raft node ids; node 1 is the server modelled here
    MaxBatch, MaxQueries, MaxResults,   \* the MAX_* limits
    MaxFail     \* bound on failed opens and proposals

CollectionKinds == {"create", "get_or_create", "remove", "list", "get_coll"}
WriteKinds      == {"add", "upsert", "update", "delete"}
ReadKinds       == {"query", "get", "count"}
MemberKinds     == {"add_learner", "remove_member"}
AllKinds        == CollectionKinds \cup WriteKinds \cup ReadKinds \cup MemberKinds

None == "none"

(* Of the columns of metadata and documents, the length: {} if absent.     *)
Body(b) ==
    /\ b.ids \in Seq(Rid \cup {BadId}) /\ b.embs \in Seq(BOOLEAN)
    /\ b.metas \subseteq Nat /\ b.docs \subseteq Nat
    /\ b.k \in Nat /\ b.filtered \in BOOLEAN

(* Record ids have a greatest length.  A name that reads as a UUID is left *)
(* out: resolve_collection takes it for an id.                             *)
ASSUME ApiAssumption ==
    /\ IsFiniteSet(Rid) /\ BadId \notin Rid /\ \A b \in Bodies : Body(b)
    /\ Name \cap Cid = {} /\ None \notin Name
    /\ Mixes \subseteq SUBSET AllKinds
    /\ Node \subseteq Nat /\ 1 \in Node
    /\ {MaxBatch, MaxQueries, MaxResults, MaxFail} \subseteq Nat

VARIABLES
    mix,         \* the operations that clients send in this behaviour
    name,        \* the catalog: the name of each collection, or None
    served,      \* Engine::collections
    recs,        \* the ids of their records
    registered,  \* collections of the raft state machine
    voters, learners,  \* the raft membership
    req,         \* each request in progress (see Idle)
    resp,        \* the response sent by the last step, or None
    used,        \* history: ids drawn so far
    cause,       \* history: why catalog and state machine may differ
    removed,     \* history: nodes removed and not added again
    fails

engine   == <<name, served, recs, used>>
cluster  == <<voters, learners, removed>>
scope    == <<mix, fails>>
vars     == <<engine, registered, cluster, req, resp, cause, scope>>

(* via: "native" or "chroma"; target: the name or id in the path; cid: the *)
(* collection it stands for; todo: what is left to count; rows: the sizes  *)
(* of the result lists so far; met: the requests that ran at the same      *)
(* time, as far as it matters (see Disturbance).                           *)
Idle == [kind |-> None, via |-> None, pc |-> "idle", target |-> None,
         cid |-> None, body |-> None, todo |-> {}, rows |-> <<>>, met |-> {}]

(* History: what a request may do to the others.                           *)
Disturbance(kind) ==
    CASE kind \in {"create", "get_or_create"} -> {"create"}
      [] kind = "remove"                      -> {"remove"}
      [] kind \in WriteKinds                  -> {"write"}
      [] OTHER                                -> {}

Running == {r \in Req : req[r].pc # "idle"}

Catalogued == {u \in Cid : name[u] # None}

(* An id names itself; resolve_collection and the catalog's two indexes.   *)
Bearers(t) == {u \in Catalogued : t \in {u, name[u]}}

Init ==
    /\ mix \in Mixes
    /\ name = [u \in Cid |-> None] /\ served = {}
    /\ recs = [u \in Cid |-> {}]
    /\ registered = {} /\ voters = {1} /\ learners = {}
    /\ req = [r \in Req |-> Idle] /\ resp = {}
    /\ used = {} /\ cause = {} /\ removed = {} /\ fails = 0

Goto(r, step) == req' = [req EXCEPT ![r].pc = step] /\ resp' = {}

(* The handler returns.                                                    *)
Respond(r, outcome) ==
    /\ req' = [req EXCEPT ![r] = Idle]
    /\ resp' = {[Idle EXCEPT !.pc = outcome, !.kind = req[r].kind, !.via = req[r].via,
                             !.target = req[r].target, !.met = req[r].met]}

-----------------------------------------------------------------------------
(* Validation in the handlers.                                             *)

Entries(s) == {s[i] : i \in DOMAIN s}

ColumnsMatch(b) ==
    \A n \in b.metas \cup b.docs : n = Len(b.ids)

ValidIds(b) == Len(b.ids) \in 1..MaxBatch /\ BadId \notin Entries(b.ids)

ValidEmbeddings(b) == b.embs # <<>> /\ FALSE \notin Entries(b.embs)

ValidAdd(b) ==
    ValidIds(b) /\ ValidEmbeddings(b) /\ Len(b.ids) = Len(b.embs) /\ ColumnsMatch(b)

ValidUpsert(b) ==
    ValidIds(b) /\ ValidEmbeddings(b) /\ Len(b.ids) = Len(b.embs) /\ ColumnsMatch(b)

ValidUpdate(b) == ValidIds(b) /\ ColumnsMatch(b)

ValidQuery(b) ==
    ValidEmbeddings(b) /\ Len(b.embs) <= MaxQueries /\ b.k \in 1..MaxResults

(* What the native handlers let through to the engine.                     *)
NativeAccepts(kind, b) ==
    CASE kind = "add"    -> ValidAdd(b)
      [] kind = "upsert" -> ValidUpsert(b)
      [] kind = "update" -> ValidUpdate(b)
      [] kind = "delete" -> ValidIds(b)
      [] kind = "query"  -> ValidQuery(b)
      [] OTHER           -> TRUE

ValidChromaAdd(b) ==
    /\ Len(b.ids) \in 1..MaxBatch /\ Len(b.ids) = Len(b.embs)
    /\ BadId \notin Entries(b.ids) /\ FALSE \notin Entries(b.embs)
    /\ ColumnsMatch(b)

(* The Chroma handlers of update and delete look at the number of ids      *)
(* only, that of query not at the embeddings.                              *)
ChromaAccepts(kind, b) ==
    CASE kind \in {"add", "upsert"}    -> ValidChromaAdd(b)
      [] kind \in {"update", "delete"} -> Len(b.ids) \in 1..MaxBatch
      [] kind = "query" -> Len(b.embs) \in 1..MaxQueries /\ b.k \in 1..MaxResults
      [] OTHER          -> TRUE

Accepts(via, kind, b) ==
    kind \in WriteKinds \cup {"query"} =>
        IF via = "native" THEN NativeAccepts(kind, b) ELSE ChromaAccepts(kind, b)

FirstStep(kind, via) ==
    CASE kind = "get_or_create"                  -> "lookup"
      [] kind = "create"                         -> "insert"
      [] kind = "list"                           -> "scan"
      [] kind = "get_coll"                       -> "show"
      [] kind \in MemberKinds                    -> kind
      [] kind = "remove"                         -> IF via = "native" THEN "erase" ELSE "find"
      [] kind \in WriteKinds \cup ReadKinds       -> IF via = "native" THEN "act" ELSE "resolve"

(* A request arrives; if its body is refused, that is the answer.          *)
Accept(r, kind, via, target, b) ==
    LET new == [Idle EXCEPT !.kind = kind, !.via = via, !.target = target,
                            !.pc = FirstStep(kind, via), !.body = b,
                            !.cid = IF via = "native" THEN target ELSE None,
                            !.met = UNION {Disturbance(req[s].kind) : s \in Running}]
    IN
    /\ req[r].pc = "idle" /\ kind \in mix
    /\ IF Accepts(via, kind, b)
       THEN /\ req' = [s \in Req |-> IF s = r THEN new
                                     ELSE IF s \in Running
                                     THEN [req[s] EXCEPT !.met = @ \cup Disturbance(kind)]
                                     ELSE req[s]]
            /\ resp' = {}
       ELSE req' = req /\ resp' = {[Idle EXCEPT !.pc = "invalid"]}
    /\ UNCHANGED <<engine, registered, cluster, cause, scope>>

(* A Chroma path is resolved before the records are touched.               *)
Resolve(r) ==
    /\ req[r].pc = "resolve"
    /\ \/ Bearers(req[r].target) = {} /\ Respond(r, "not_found")
       \/ \E u \in Bearers(req[r].target) :
            req' = [req EXCEPT ![r].cid = u, ![r].pc = "act"] /\ resp' = {}
    /\ UNCHANGED <<engine, registered, cluster, cause, scope>>

(* Showing a collection: the native handler goes on to count its records.  *)
GetCollection(r) ==
    /\ req[r].pc = "show" /\ req[r].via = "native"
    /\ IF Bearers(req[r].target) = {} THEN Respond(r, "not_found") ELSE Goto(r, "count")
    /\ UNCHANGED <<engine, registered, cluster, cause, scope>>

GetCollectionChroma(r) ==
    /\ req[r].pc = "show" /\ req[r].via = "chroma"
    /\ Respond(r, IF Bearers(req[r].target) = {} THEN "not_found" ELSE "ok")
    /\ UNCHANGED <<engine, registered, cluster, cause, scope>>

-----------------------------------------------------------------------------
(* Creating a collection.                                                  *)

(* Not the code: get_or_create does not look the name up.                  *)
GetOrCreateNotLooking(r) ==
    /\ req[r].pc = "lookup" /\ Goto(r, "insert")
    /\ UNCHANGED <<engine, registered, cluster, cause, scope>>

(* get_or_create: a collection of that name is the answer.                 *)
GetOrCreate(r) ==
    /\ req[r].pc = "lookup"
    /\ IF Bearers(req[r].target) # {} THEN Respond(r, "ok") ELSE Goto(r, "insert")
    /\ UNCHANGED <<engine, registered, cluster, cause, scope>>

(* Not the code: the name index is not consulted.                          *)
CreateInsertUnchecked(r) ==
    /\ req[r].pc = "insert"
    /\ \E u \in Cid \ used :
         /\ name' = [name EXCEPT ![u] = req[r].target] /\ used' = used \cup {u}
         /\ req' = [req EXCEPT ![r].cid = u, ![r].pc = "open"] /\ resp' = {}
    /\ UNCHANGED <<served, recs, registered, cluster, cause, scope>>

(* The catalog's transaction; a taken name is an internal error.           *)
CreateInsert(r) ==
    LET n == req[r].target IN
    /\ req[r].pc = "insert"
    /\ \/ Bearers(n) # {} /\ Respond(r, "exists") /\ UNCHANGED <<name, used>>
       \/ /\ Bearers(n) = {}
          /\ \E u \in Cid \ used :
               /\ name' = [name EXCEPT ![u] = n] /\ used' = used \cup {u}
               /\ req' = [req EXCEPT ![r].cid = u, ![r].pc = "open"] /\ resp' = {}
    /\ UNCHANGED <<served, recs, registered, cluster, cause, scope>>

(* Not the code: the collection is never put into the map.                 *)
CreateOpenForgotten(r) ==
    /\ req[r].pc = "open"
    /\ IF req[r].via = "native" THEN Goto(r, "count") ELSE Respond(r, "created")
    /\ UNCHANGED <<engine, registered, cluster, cause, scope>>

(* Collection::open, then the insert into the map.  The Chroma handlers    *)
(* answer without telling raft.                                            *)
CreateOpen(r) ==
    LET u == req[r].cid IN
    /\ req[r].pc = "open"
    /\ served' = served \cup {u}
    /\ IF req[r].via = "native" THEN Goto(r, "count") /\ cause' = cause
       ELSE Respond(r, "created") /\ cause' = cause \cup {<<"chroma", u>>}
    /\ UNCHANGED <<name, recs, used, registered, cluster, scope>>

(* Collection::open fails; the catalog keeps the entry.                    *)
CreateOpenFails(r) ==
    /\ req[r].pc = "open" /\ fails < MaxFail
    /\ Respond(r, "io") /\ cause' = cause \cup {<<"open", req[r].cid>>}
    /\ fails' = fails + 1
    /\ UNCHANGED <<mix, engine, registered, cluster>>

(* The count of one collection: of the one created, of one listed, or of   *)
(* the one asked for.                                                      *)
Count(r) ==
    LET q == req[r] IN
    /\ q.pc = "count"
    /\ \/ q.cid \notin served /\ Respond(r, "not_found")
       \/ q.cid \in served /\ q.kind = "create" /\ Goto(r, "propose")
       \/ q.cid \in served /\ q.kind # "create" /\ Respond(r, "ok")
    /\ UNCHANGED <<engine, registered, cluster, cause, scope>>

(* client_write of AddCollection: only the leader's succeeds.              *)
ProposeAdd(r) ==
    LET u == req[r].cid IN
    /\ req[r].pc = "propose" /\ req[r].kind = "create"
    /\ 1 \in voters
    /\ registered' = registered \cup {u} /\ Respond(r, "created")
    /\ UNCHANGED <<engine, cluster, cause, scope>>

-----------------------------------------------------------------------------
(* Deleting a collection.                                                  *)

(* The Chroma handler finds it by its name first.                          *)
DeleteChroma(r) ==
    /\ req[r].pc = "find"
    /\ \/ Bearers(req[r].target) = {} /\ Respond(r, "not_found")
       \/ \E u \in Bearers(req[r].target) :
            req' = [req EXCEPT ![r].cid = u, ![r].pc = "erase"] /\ resp' = {}
    /\ UNCHANGED <<engine, registered, cluster, cause, scope>>

(* The catalog's transaction; an id it does not know is an internal error. *)
Erase(r) ==
    LET u == req[r].cid IN
    /\ req[r].pc = "erase"
    /\ IF u \in Catalogued THEN name' = [name EXCEPT ![u] = None] /\ Goto(r, "unmap")
       ELSE Respond(r, "missing") /\ name' = name
    /\ UNCHANGED <<served, recs, used, registered, cluster, cause, scope>>

(* Not the code: the deletion is not proposed to raft.                     *)
UnmapAndRespond(r) ==
    /\ req[r].pc = "unmap"
    /\ served' = served \ {req[r].cid} /\ Respond(r, "ok")
    /\ UNCHANGED <<name, recs, used, registered, cluster, cause, scope>>

Unmap(r) ==
    /\ req[r].pc = "unmap"
    /\ served' = served \ {req[r].cid} /\ Goto(r, "propose")
    /\ UNCHANGED <<name, recs, used, registered, cluster, cause, scope>>

(* It may overtake the AddCollection of a handler still at work.           *)
ProposeRemove(r) ==
    LET u == req[r].cid IN
    /\ req[r].pc = "propose" /\ req[r].kind = "remove"
    /\ 1 \in voters
    /\ registered' = registered \ {u} /\ Respond(r, "ok")
    /\ cause' = IF \E s \in Running : req[s].kind = "create" /\ req[s].cid = u
                THEN cause \cup {<<"overtaken", u>>} ELSE cause
    /\ UNCHANGED <<engine, cluster, scope>>

(* client_write fails, before or after the operation is committed, or      *)
(* because this node leads no longer.  The request is refused, and what it *)
(* did to the engine stays done.                                           *)
ProposeFails(r) ==
    LET u == req[r].cid IN
    /\ req[r].pc = "propose" /\ Respond(r, "unreplicated")
    /\ \/ 1 \notin voters /\ fails' = fails
       \/ fails < MaxFail /\ fails' = fails + 1
    /\ registered' \in {registered, IF req[r].kind = "create"
                                    THEN registered \cup {u} ELSE registered \ {u}}
    /\ cause' = cause \cup {<<"proposal", u>>}
    /\ UNCHANGED <<mix, engine, cluster>>

-----------------------------------------------------------------------------
(* Listing collections.                                                    *)

ListChroma(r) ==
    /\ req[r].pc = "scan" /\ req[r].via = "chroma"
    /\ Respond(r, "ok")
    /\ UNCHANGED <<engine, registered, cluster, cause, scope>>

(* The catalog's snapshot.                                                 *)
ListScan(r) ==
    /\ req[r].pc = "scan" /\ req[r].via = "native"
    /\ req' = [req EXCEPT ![r].todo = Catalogued, ![r].pc = "listing"] /\ resp' = {}
    /\ UNCHANGED <<engine, registered, cluster, cause, scope>>

(* The native handler counts each of them in turn, and the first that is   *)
(* not served fails the whole list.                                        *)
ListNext(r) ==
    /\ req[r].pc = "listing"
    /\ \/ req[r].todo = {} /\ Respond(r, "ok")
       \/ \E u \in req[r].todo :
            IF u \in served
            THEN req' = [req EXCEPT ![r].todo = @ \ {u}] /\ resp' = {}
            ELSE Respond(r, "not_found")
    /\ UNCHANGED <<engine, registered, cluster, cause, scope>>

-----------------------------------------------------------------------------
(* Records: the engine's add, upsert, update and delete.                   *)

SliceLengths(b) == ColumnsMatch(b)

(* check_dimensions and the query's own check may refuse embeddings.       *)
Unfit(b) == IF b.embs = <<>> THEN {FALSE} ELSE BOOLEAN

(* Not the code: update does not compare the lengths.                      *)
UpdateAcceptsAnyLength(u, b) == Entries(b.ids) \subseteq recs[u]

UpdateAccepts(u, b) == SliceLengths(b) /\ Entries(b.ids) \subseteq recs[u]

UpsertAccepts(b) == Len(b.ids) = Len(b.embs) /\ SliceLengths(b)

(* No id may exist already, or be given twice.                             *)
AddAccepts(u, b) ==
    /\ UpsertAccepts(b)
    /\ Entries(b.ids) \cap recs[u] = {}
    /\ Cardinality(Entries(b.ids)) = Len(b.ids)

EngineAccepts(kind, u, b) ==
    CASE kind = "add"    -> AddAccepts(u, b)
      [] kind = "upsert" -> UpsertAccepts(b)
      [] kind = "update" -> UpdateAccepts(u, b)
      [] OTHER           -> TRUE

(* add_ops, upsert_ops and update_ops index every given column by the      *)
(* position of the id: a shorter one is a panic under the lock.            *)
Panics(kind, b) ==
    /\ kind # "delete"
    /\ \/ \E n \in b.metas \cup b.docs : n < Len(b.ids)
       \/ kind # "update" /\ Len(b.embs) < Len(b.ids)

(* The records that are left; an update replaces records that exist.       *)
RecordsAfter(kind, u, b) ==
    IF kind = "delete" THEN recs[u] \ Entries(b.ids) ELSE recs[u] \cup Entries(b.ids)

Write(r) ==
    LET q == req[r] IN
    /\ q.pc = "act" /\ q.kind \in WriteKinds
    /\ \E unfit \in Unfit(q.body) :
         LET done == q.cid \in served /\ EngineAccepts(q.kind, q.cid, q.body)
                     /\ ~(unfit /\ q.kind \in {"add", "upsert"})
         IN  /\ Respond(r, CASE q.cid \notin served          -> "not_found"
                             [] q.cid \in served /\ ~done -> "invalid"
                             [] done -> IF Panics(q.kind, q.body) THEN "panic" ELSE "ok")
             /\ recs' = IF done /\ ~Panics(q.kind, q.body)
                        THEN [recs EXCEPT ![q.cid] = RecordsAfter(q.kind, q.cid, q.body)]
                        ELSE recs
    /\ UNCHANGED <<name, served, used, registered, cluster, cause, scope>>

-----------------------------------------------------------------------------
(* Records: query, get and count.                                          *)

Smaller(a, b) == IF a < b THEN a ELSE b

(* How many results Engine::query may return for one embedding.            *)
RowSizes(u, b) ==
    LET most == Smaller(b.k, Cardinality(recs[u]))
    IN  IF b.filtered THEN 0..most ELSE {most}

(* Not the code: short lists stay short.                                   *)
PaddedNever(rows) == rows

(* The native handler pads every list to the length of the first.          *)
Padded(rows) ==
    [i \in DOMAIN rows |-> IF rows[i] < rows[1] THEN rows[1] ELSE rows[i]]

(* What a handler makes of the lists it has collected.                     *)
Shown(via, rows) == IF via = "native" THEN Padded(rows) ELSE rows

(* One embedding after the other, each under the lock for itself.          *)
QueryNext(r) ==
    LET q == req[r] IN
    /\ q.pc = "act" /\ q.kind = "query"
    /\ \/ q.cid \notin served /\ Respond(r, "not_found")
       \/ q.cid \in served /\ Respond(r, "invalid")
       \/ /\ q.cid \in served
          /\ \E n \in RowSizes(q.cid, q.body) :
               LET rows == Append(q.rows, n) IN
               IF Len(rows) < Len(q.body.embs)
               THEN req' = [req EXCEPT ![r].rows = rows] /\ resp' = {}
               ELSE /\ req' = [req EXCEPT ![r] = Idle]
                    /\ resp' = {[q EXCEPT !.pc = "ok", !.rows = Shown(q.via, rows)]}
    /\ UNCHANGED <<engine, registered, cluster, cause, scope>>

QueryRecords(r) == req[r].via = "native" /\ QueryNext(r)

QueryRecordsChroma(r) == req[r].via = "chroma" /\ QueryNext(r)

(* Without ids the native handler does not look for the collection.        *)
GetRecords(r) ==
    LET q == req[r] IN
    /\ q.pc = "act" /\ q.kind = "get" /\ q.via = "native"
    /\ Respond(r, IF q.body.ids # <<>> /\ q.cid \notin served THEN "not_found" ELSE "ok")
    /\ UNCHANGED <<engine, registered, cluster, cause, scope>>

GetRecordsChroma(r) ==
    LET q == req[r] IN
    /\ q.pc = "act" /\ q.kind = "get" /\ q.via = "chroma"
    /\ Respond(r, IF q.cid \in served THEN "ok" ELSE "not_found")
    /\ UNCHANGED <<engine, registered, cluster, cause, scope>>

CountRecords(r) ==
    /\ req[r].pc = "act" /\ req[r].kind = "count"
    /\ Respond(r, IF req[r].cid \in served THEN "ok" ELSE "not_found")
    /\ UNCHANGED <<engine, registered, cluster, cause, scope>>

-----------------------------------------------------------------------------
(* Raft membership.                                                        *)

(* openraft's add_learner, for the node the request names.                 *)
AddLearner(r) ==
    LET n == req[r].target IN
    /\ req[r].pc = "add_learner"
    /\ IF 1 \in voters
       THEN /\ learners' = learners \cup ({n} \ voters)
            /\ removed' = removed \ {n} /\ Respond(r, "ok")
       ELSE Respond(r, "not_leader") /\ UNCHANGED <<learners, removed>>
    /\ UNCHANGED <<engine, registered, voters, cause, scope>>

(* The metrics are read: everyone but the node is to be a voter.           *)
RemoveMember(r) ==
    LET rest == (voters \cup learners) \ {req[r].target} IN
    /\ req[r].pc = "remove_member"
    /\ IF rest = {} THEN Respond(r, "invalid")
       ELSE req' = [req EXCEPT ![r].todo = rest, ![r].pc = "change"] /\ resp' = {}
    /\ UNCHANGED <<engine, registered, cluster, cause, scope>>

(* change_membership(new_members, retain = true): voters left out become   *)
(* learners.                                                               *)
ChangeMembership(r) ==
    /\ req[r].pc = "change"
    /\ IF 1 \in voters
       THEN /\ voters' = req[r].todo
            /\ learners' = (voters \cup learners) \ req[r].todo
            /\ removed' = removed \cup {req[r].target} /\ Respond(r, "ok")
       ELSE Respond(r, "not_leader") /\ UNCHANGED cluster
    /\ UNCHANGED <<engine, registered, cause, scope>>

-----------------------------------------------------------------------------
(* What clients send.  A native path holds an id, which a client may know  *)
(* from a list as soon as it is drawn; a Chroma path a name or, for count  *)
(* (they all resolve it the same way), an id.                              *)
BodyKinds == WriteKinds \cup {"query", "get"}

SendNative(r) ==
    \/ \E n \in Name : Accept(r, "create", "native", n, None)
    \/ Accept(r, "list", "native", None, None)
    \/ \E k \in {"remove", "get_coll", "count"}, u \in used : Accept(r, k, "native", u, None)
    \/ \E k \in BodyKinds, u \in used, b \in Bodies : Accept(r, k, "native", u, b)

SendChroma(r) ==
    \/ \E k \in {"create", "get_or_create", "remove", "get_coll"}, n \in Name :
         Accept(r, k, "chroma", n, None)
    \/ Accept(r, "list", "chroma", None, None)
    \/ \E t \in Name \cup used : Accept(r, "count", "chroma", t, None)
    \/ \E k \in BodyKinds, n \in Name, b \in Bodies : Accept(r, k, "chroma", n, b)

SendInternal(r) ==
    \E k \in MemberKinds, n \in Node : Accept(r, k, "native", n, None)

Next == \E r \in Req :
    \/ SendNative(r) \/ SendChroma(r) \/ SendInternal(r)
    \/ Resolve(r) \/ GetCollection(r) \/ GetCollectionChroma(r)
    \/ GetOrCreate(r) \/ CreateInsert(r) \/ CreateOpen(r) \/ CreateOpenFails(r)
    \/ Count(r) \/ ProposeAdd(r)
    \/ DeleteChroma(r) \/ Erase(r) \/ Unmap(r) \/ ProposeRemove(r) \/ ProposeFails(r)
    \/ ListChroma(r) \/ ListScan(r) \/ ListNext(r)
    \/ Write(r) \/ QueryRecords(r) \/ QueryRecordsChroma(r)
    \/ GetRecords(r) \/ GetRecordsChroma(r) \/ CountRecords(r)
    \/ AddLearner(r) \/ RemoveMember(r) \/ ChangeMembership(r)

Spec == Init /\ [][Next]_vars

-----------------------------------------------------------------------------
(* Properties.                                                             *)

Outcomes == {"ok", "created", "invalid", "not_found", "exists", "missing",
             "io", "unreplicated", "not_leader", "panic"}

(* Handlers are in one of their steps, the catalog holds a name once, and  *)
(* the cluster has a voter and nobody is voter and learner at once.        *)
TypeOK ==
    /\ name \in [Cid -> Name \cup {None}]
    /\ \A u, v \in Catalogued : name[u] = name[v] => u = v
    /\ Catalogued \cup served \cup registered \subseteq used /\ used \subseteq Cid
    /\ recs \in [Cid -> SUBSET Rid]
    /\ voters # {} /\ voters \cup learners \cup removed \subseteq Node
    /\ voters \cap learners = {}
    /\ \A r \in Req : req[r].pc \in {"idle", "resolve", "show", "lookup", "insert", "open",
           "count", "propose", "find", "erase", "unmap", "scan", "listing", "act", "add_learner",
           "remove_member", "change"}
    /\ \A a \in resp : a.pc \in Outcomes
    /\ fails \in 0..MaxFail

(* No request panics with the collection's mutex held, which would poison  *)
(* it for every later one: whatever a handler lets through, the engine     *)
(* refuses before it indexes a column by position.  The Chroma update      *)
(* handler does not compare lengths at all (chroma.rs:443-469).            *)
NeverPanics == \A a \in resp : a.pc # "panic"

(* A list, the creation of a collection, and a request for a collection    *)
(* that the catalog has by that name or id, answer 404 only if another     *)
(* request created or deleted a collection meanwhile, or a creation that   *)
(* failed half way left an entry in the catalog that nothing serves.       *)
NotFoundOnlyOnRace ==
    \A a \in resp :
        a.pc = "not_found" /\ (a.kind \in {"list", "create"} \/ Bearers(a.target) # {}) =>
            \/ a.met \cap {"create", "remove"} # {}
            \/ a.kind # "create" /\ \E u \in Cid : <<"open", u>> \in cause

(* get_or_create is refused for a name that exists only if another request *)
(* created a collection meanwhile; alone it "should return same"           *)
(* (api_tests.rs:540).                                                     *)
GetOrCreateRefusedOnlyOnRace ==
    \A a \in resp : a.kind = "get_or_create" /\ a.pc = "exists" =>
        "create" \in a.met

(* When no request is in progress, the raft state machine and the catalog  *)
(* hold the same collections, but for those that a Chroma handler created, *)
(* that failed to open, whose proposal failed, or whose deletion overtook  *)
(* their creation.                                                         *)
RegistrationExplained ==
    Running = {} =>
        \A u \in (registered \ Catalogued) \cup (Catalogued \ registered) :
            \E why \in {"chroma", "open", "proposal", "overtaken"} : <<why, u>> \in cause

(* No list of a native query is shorter than the first, and they are all   *)
(* as long ("inner vecs are all length k", lib.rs:676-677) unless a filter *)
(* or a write in between gave later embeddings more results.               *)
RowsPadded ==
    \A a \in resp : a.kind = "query" /\ a.via = "native" /\ a.pc = "ok" =>
        \A i \in DOMAIN a.rows :
            /\ a.rows[i] >= a.rows[1]
            /\ a.rows[i] > a.rows[1] => a.body.filtered \/ "write" \in a.met

(* "Remove node" (README.md:165): a node that was removed is not given a   *)
(* vote again by later removals of other nodes.                            *)
RemovedStaysOut == removed \cap voters = {}

=============================================================================
