---------------------------- MODULE EngineProofs ----------------------------
(***************************************************************************)
(* What Engine guarantees for every number of concurrent requests, ids,    *)
(* names, records and crashes, and every batch size.                       *)
(***************************************************************************)
EXTENDS Engine, TLAPS

(* The steps of a creation after the catalog's transaction, of a deletion  *)
(* after it, and of a request that holds a collection it found in the map. *)
Creating == {"open", "insert"}
Deleting == {"unmap", "rmwal", "rmckpt"}
Using    == {"write", "ckpt"} \cup Holding

Step   == {"idle"} \cup Creating \cup Deleting \cup Using
Record == Nat \X Dim
Arg    == [d : Dim \cup {Unset}, ok : BOOLEAN, recs : SUBSET Record]

RequestShapes ==
    /\ pc \in [Client -> Step] /\ tgt \in [Client -> Uuid \cup {NoUuid}]
    /\ arg \in [Client -> Arg]

Shapes ==
    /\ RequestShapes
    /\ up \in BOOLEAN
    /\ name \in [Uuid -> Name \cup {NoName}] /\ cdim \in [Uuid -> Dim \cup {Unset}]
    /\ dim \in [Uuid -> Dim \cup {Unset}] /\ idim \in [Uuid -> Dim \cup {Unset}]
    /\ recs \in [Uuid -> SUBSET Record] /\ buf \in [Uuid -> SUBSET Record]
    /\ flushed \in [Uuid -> SUBSET Record] /\ log \in [Uuid -> SUBSET Record]
    /\ acked \in [Uuid -> SUBSET Record]
    /\ ckpt \in [Uuid -> [recs : SUBSET Record, flushed : SUBSET Record]]
    /\ next \in Nat \ {0}

(* The history sets, and what is on disk or catalogued, are about ids that *)
(* were drawn.                                                             *)
Ids ==
    /\ map \subseteq served /\ served \subseteq used /\ used \subseteq Uuid
    /\ deleted \subseteq served /\ wfile \subseteq used /\ Catalogued \subseteq used

(* A record is in the buffer or flushed; a checkpoint's flushed records    *)
(* are among its records; records have been numbered.                      *)
Buffers ==
    \A u \in Uuid :
        /\ recs[u] \subseteq Records /\ log[u] \subseteq Records
        /\ buf[u] \subseteq recs[u] /\ flushed[u] \subseteq recs[u]
        /\ buf[u] \cap flushed[u] = {}
        /\ ckpt[u].flushed \subseteq ckpt[u].recs /\ ckpt[u].recs \subseteq Records

(* What a request may count on at each of its steps.                       *)
Requests ==
    /\ \A c \in Client :
         /\ pc[c] # "idle" => up /\ tgt[c] \in Uuid
         /\ pc[c] \in Creating => tgt[c] \in Catalogued \ served
         /\ pc[c] \in Deleting => tgt[c] \in served \ Catalogued
         /\ pc[c] \in {"rmwal", "rmckpt"} => tgt[c] \notin map
         /\ pc[c] \in Using => tgt[c] \in served
         /\ pc[c] \in {"write", "append"} => arg[c].d \in Dim
    /\ \A c, e \in Client :
         pc[c] \in Creating /\ pc[e] \in Creating /\ tgt[c] = tgt[e] => c = e

(* What was put in the map stays there while it is catalogued, and leaves  *)
(* it with its deletion.                                                   *)
Serving ==
    /\ up => Catalogued \cap served \subseteq map
    /\ ~up => map = {}
    /\ \A u \in map \ Catalogued : \E c \in Client : pc[c] = "unmap" /\ tgt[c] = u

(* The mutex of a collection.                                              *)
Mutex ==
    \A c, e \in Client :
        pc[c] \in Holding /\ pc[e] \in Holding /\ tgt[c] = tgt[e] => c = e

(* Nothing was ever written to a collection that was never served.         *)
Untouched ==
    \A u \in Uuid \ served :
        /\ log[u] = {} /\ ckpt[u] = NoCheckpoint /\ acked[u] = {} /\ recs[u] = {}

(* The records of a served collection are those an open would find, and    *)
(* acknowledged ones are among them.                                       *)
Durable ==
    /\ \A u \in Catalogued : acked[u] \subseteq ckpt[u].recs \cup log[u]
    /\ \A u \in Catalogued \cap map :
         u \in wfile /\ recs[u] = ckpt[u].recs \cup log[u]
    /\ \A c \in Client :
         /\ pc[c] = "insert" => tgt[c] \in wfile
         /\ pc[c] \in Using => arg[c].recs \subseteq recs[tgt[c]]
         /\ pc[c] \in {"advance", "prune"} /\ tgt[c] \in Catalogued
               => ckpt[tgt[c]] = [recs |-> recs[tgt[c]], flushed |-> flushed[tgt[c]]]

(* The dimension in the catalog is the one in memory, and that of all      *)
(* records.                                                                *)
Dimensions ==
    /\ \A u \in Catalogued \cap map : dim[u] = cdim[u]
    /\ \A u \in Catalogued : Fits(ckpt[u].recs \cup log[u], cdim[u])
    /\ \A u \in map : Fits(recs[u], dim[u])
    /\ \A c \in Client :
         /\ pc[c] = "open" => arg[c].d = cdim[tgt[c]]
         /\ pc[c] = "insert" => dim[tgt[c]] = cdim[tgt[c]]
         /\ pc[c] = "write" => arg[c].ok
         /\ pc[c] = "append" => arg[c].d = dim[tgt[c]]

(* What holds whatever dimensions the vectors have.                        *)
Inv ==
    /\ Shapes /\ Ids /\ Buffers /\ Requests /\ Serving /\ Mutex /\ Untouched
    /\ DeletedStaysGone /\ Durable

-----------------------------------------------------------------------------
(* Types.                                                                  *)

(* A request that goes on, starts or ends does so with a legal step.       *)
LEMMA RequestTypes ==
    ASSUME RequestShapes, NEW c \in Client
    PROVE  /\ \A s \in Step : Goto(c, s) => RequestShapes'
           /\ \A u \in Uuid \cup {NoUuid}, a \in Arg, s \in Step :
                 Start(c, u, a, s) => RequestShapes'
           /\ End(c) => RequestShapes'
<1>1. \A u \in Uuid \cup {NoUuid}, a \in Arg, s \in Step :
         Start(c, u, a, s) => RequestShapes'
  BY DEF RequestShapes, Start
<1>2. NoArg \in Arg /\ "idle" \in Step
  BY DEF NoArg, Arg, Step
<1> QED BY <1>1, <1>2 DEF RequestShapes, Goto, End

(* Every action keeps the variables in their types.                        *)
LEMMA ShapesStep == Shapes /\ Requests /\ [Next]_vars => Shapes'
<1> SUFFICES ASSUME Shapes, Requests, [Next]_vars PROVE Shapes'
  OBVIOUS
<1>1. ASSUME NEW c \in Client, NEW n \in Name, NEW d \in Dim \cup {Unset}, CreateCatalog(c, n, d)
      PROVE Shapes'
  <2>1. PICK u \in Uuid : /\ name' = [name EXCEPT ![u] = n] /\ cdim' = [cdim EXCEPT ![u] = d]
                          /\ Start(c, u, [NoArg EXCEPT !.d = d], "open")
    BY <1>1 DEF CreateCatalog
  <2>2. [NoArg EXCEPT !.d = d] \in Arg
    BY DEF NoArg, Arg
  <2>3. RequestShapes'
    BY <2>1, <2>2, RequestTypes DEF Shapes, Step, Creating
  <2> QED BY <1>1, <2>1, <2>3 DEF CreateCatalog, Shapes, memory, files
<1>2. ASSUME NEW c \in Client, CreateOpen(c) PROVE Shapes'
  BY <1>2 DEF CreateOpen, Goto, catalog, history, Shapes, RequestShapes, Arg, Step,
       Creating
<1>3. ASSUME NEW c \in Client, CreateOpenFails(c) PROVE Shapes'
  BY <1>3 DEF CreateOpenFails, End, Start, NoArg, catalog, memory, files, history, Shapes,
       RequestShapes, Arg, Step
<1>4. ASSUME NEW c \in Client, CreateInsert(c) PROVE Shapes'
  BY <1>4 DEF CreateInsert, End, Start, NoArg, catalog, files, Shapes, RequestShapes, Arg,
       Step
<1>5. ASSUME NEW c \in Client, NEW u \in Uuid, DeleteCatalog(c, u)
      PROVE Shapes'
  BY <1>5 DEF DeleteCatalog, Start, NoArg, memory, files, history, Shapes, RequestShapes,
       Arg, Step, Deleting
<1>6. ASSUME NEW c \in Client, NEW u \in Uuid, LookupForWrite(c, u)
      PROVE Shapes'
  <2>1. PICK e \in Dim, ok \in BOOLEAN :
           Lookup(c, u, "write", [d |-> e, ok |-> ok, recs |-> {}])
    BY <1>6 DEF LookupForWrite
  <2>2. [d |-> e, ok |-> ok, recs |-> {}] \in Arg
    BY DEF Arg
  <2>3. RequestShapes'
    BY <2>1, <2>2, RequestTypes DEF Lookup, Shapes, Step, Using
  <2> QED BY <2>1, <2>3 DEF Lookup, Shapes, catalog, memory, files, history
<1>7. ASSUME NEW c \in Client, NEW u \in Uuid, LookupForCheckpoint(c, u)
      PROVE Shapes'
  BY <1>7 DEF LookupForCheckpoint, Lookup, Start, catalog, memory, files, history, NoArg,
       Shapes, RequestShapes, Arg, Step, Using
<1>8. ASSUME NEW c \in Client, DeleteUnmap(c) PROVE Shapes'
  BY <1>8 DEF DeleteUnmap, Goto, catalog, files, history, Shapes, RequestShapes, Step,
       Deleting
<1>9. ASSUME NEW c \in Client, DeleteWal(c) PROVE Shapes'
  BY <1>9 DEF DeleteWal, Goto, catalog, memory, history, Shapes, RequestShapes, Step,
       Deleting
<1>10. ASSUME NEW c \in Client, DeleteCheckpoint(c) PROVE Shapes'
  BY <1>10 DEF DeleteCheckpoint, NoCheckpoint, End, Start, NoArg, catalog, memory, Shapes,
       RequestShapes, Arg, Step
<1>11. ASSUME NEW c \in Client, WriteCheck(c) PROVE Shapes'
  <2> DEFINE u == tgt[c]
             d == IF dim[u] = Unset THEN arg[c].d ELSE dim[u]
  <2>1. u \in Uuid /\ d \in Dim \cup {Unset}
    BY <1>11 DEF WriteCheck, Shapes, Requests
  <2>2. /\ cdim' \in {cdim, [cdim EXCEPT ![u] = d]} /\ dim' = [dim EXCEPT ![u] = d]
        /\ Goto(c, "append") \/ End(c)
    BY <1>11 DEF WriteCheck
  <2>3. RequestShapes'
    BY <2>2, RequestTypes DEF Shapes, Step, Using, Holding
  <2> QED BY <1>11, <2>1, <2>2, <2>3 DEF WriteCheck, Shapes, files, history
<1>12. ASSUME NEW c \in Client, WriteAppend(c) PROVE Shapes'
  <2> DEFINE u == tgt[c]
             r == <<next, arg[c].d>>
  <2>1. u \in Uuid /\ r \in Record
    BY <1>12 DEF WriteAppend, Shapes, Requests, Record
  <2>2. /\ next' = next + 1
        /\ log' \in {log, [log EXCEPT ![u] = @ \cup {r}]}
        /\ recs' = [recs EXCEPT ![u] = @ \cup {r}]
        /\ buf' \in {[buf EXCEPT ![u] = {}], [buf EXCEPT ![u] = @ \cup {r}]}
        /\ flushed' \in {[flushed EXCEPT ![u] = @], [flushed EXCEPT ![u] = recs[u] \cup {r}]}
        /\ acked' \in {acked, [acked EXCEPT ![u] = @ \cup {r}]}
        /\ End(c) \/ Start(c, u, [arg[c] EXCEPT !.recs = {r}], "files")
    BY <1>12 DEF WriteAppend
  <2> HIDE DEF u, r
  <2>3. RequestShapes'
    <3>1. [arg[c] EXCEPT !.recs = {r}] \in Arg
      <4>1. \A a \in Arg, S \in SUBSET Record : [a EXCEPT !.recs = S] \in Arg
        BY DEF Arg
      <4> QED BY <2>1, <4>1 DEF Shapes, RequestShapes
    <3> QED BY <2>1, <2>2, <3>1, RequestTypes DEF Shapes, Step, Using, Holding
  <2>4. /\ recs' \in [Uuid -> SUBSET Record] /\ buf' \in [Uuid -> SUBSET Record]
        /\ flushed' \in [Uuid -> SUBSET Record] /\ log' \in [Uuid -> SUBSET Record]
        /\ acked' \in [Uuid -> SUBSET Record]
    <3>1. \A S \in SUBSET Record : S \cup {r} \in SUBSET Record
      BY <2>1
    <3>2. /\ recs[u] \cup {r} \in SUBSET Record /\ buf[u] \cup {r} \in SUBSET Record
          /\ log[u] \cup {r} \in SUBSET Record /\ acked[u] \cup {r} \in SUBSET Record
      BY <2>1, <3>1 DEF Shapes
    <3> DEFINE F == [Uuid -> SUBSET Record]
    <3>3. \A f \in F, S \in SUBSET Record : [f EXCEPT ![u] = S] \in F
      BY <2>1
    <3>4. \A f \in F : f[u] \in SUBSET Record
      BY <2>1
    <3>5. recs \in F /\ buf \in F /\ flushed \in F /\ log \in F /\ acked \in F
      BY DEF Shapes
    <3> HIDE DEF F
    <3>6. recs' \in F /\ log' \in F /\ acked' \in F
      BY <2>2, <3>2, <3>3, <3>5
    <3>7. buf' \in F
      <4>1. {} \in SUBSET Record
        OBVIOUS
      <4> QED BY <2>2, <3>2, <3>3, <3>5, <4>1, SMTT(40)
    <3>8. flushed' \in F
      BY <2>2, <3>2, <3>3, <3>4, <3>5
    <3> QED BY <3>6, <3>7, <3>8 DEF F
  <2> QED BY <1>12, <2>2, <2>3, <2>4 DEF WriteAppend, Shapes, catalog
<1>13. ASSUME NEW c \in Client, CheckpointEmpty(c) PROVE Shapes'
  BY <1>13 DEF CheckpointEmpty, Return, End, Start, NoArg, catalog, memory, files, Shapes,
       RequestShapes, Arg, Step
<1>14. ASSUME NEW c \in Client, CheckpointFiles(c) PROVE Shapes'
  BY <1>14 DEF CheckpointFiles, Goto, catalog, memory, history, Shapes, RequestShapes,
       Step, Using, Holding
<1>15. ASSUME NEW c \in Client, CheckpointAdvance(c) PROVE Shapes'
  <2>1. RequestShapes'
    BY <1>15, RequestTypes DEF CheckpointAdvance, Shapes, Step, Using, Holding
  <2> QED BY <1>15, <2>1 DEF CheckpointAdvance, Shapes, catalog, memory, files, history
<1>16. ASSUME NEW c \in Client, CheckpointPrune(c) PROVE Shapes'
  <2>1. tgt[c] \in Uuid
    BY <1>16 DEF CheckpointPrune, Requests
  <2>2. RequestShapes'
    BY <1>16, RequestTypes DEF CheckpointPrune, Return, Shapes
  <2>3. log' \in [Uuid -> SUBSET Record]
    BY <1>16, <2>1 DEF CheckpointPrune, Shapes
  <2>4. acked' \in [Uuid -> SUBSET Record]
    BY <1>16, <2>1 DEF CheckpointPrune, Return, Shapes, RequestShapes, Arg
  <2> QED BY <1>16, <2>2, <2>3, <2>4 DEF CheckpointPrune, Shapes, catalog, memory
<1>17. CASE Crash
  BY <1>17 DEF Crash, NoArg, catalog, files, Shapes, RequestShapes, Arg, Step
<1>18. CASE Restart
  BY <1>18 DEF Restart, Tail, catalog, requests, Shapes, RequestShapes
<1>19. CASE UNCHANGED vars
  BY <1>19 DEF vars, catalog, memory, files, requests, history, Shapes, RequestShapes
<1> QED BY <1>1, <1>2, <1>3, <1>4, <1>5, <1>6, <1>7, <1>8, <1>9, <1>10, <1>11, <1>12,
     <1>13, <1>14, <1>15, <1>16, <1>17, <1>18, <1>19 DEF Next

(* Ids are drawn before they are used for anything.                        *)
LEMMA IdsStep == ~EarlyDelete /\ Shapes /\ Ids /\ Requests /\ [Next]_vars => Ids'
<1> SUFFICES ASSUME ~EarlyDelete, Shapes, Ids, Requests, [Next]_vars PROVE Ids'
  OBVIOUS
<1>1. ASSUME NEW c \in Client, NEW n \in Name, NEW d \in Dim \cup {Unset}, CreateCatalog(c, n, d)
      PROVE Ids'
  BY <1>1 DEF CreateCatalog, memory, files, Catalogued, Ids
<1>2. ASSUME NEW c \in Client, CreateOpen(c) PROVE Ids'
  BY <1>2 DEF CreateOpen, catalog, history, Catalogued, Ids, Requests, Creating
<1>3. ASSUME NEW c \in Client, CreateOpenFails(c) PROVE Ids'
  BY <1>3 DEF CreateOpenFails, catalog, memory, files, history, Catalogued, Ids
<1>4. ASSUME NEW c \in Client, CreateInsert(c) PROVE Ids'
  BY <1>4 DEF CreateInsert, catalog, files, Catalogued, Ids, Requests, Creating
<1>5. ASSUME NEW c \in Client, NEW u \in Uuid, DeleteCatalog(c, u) PROVE Ids'
  BY <1>5 DEF DeleteCatalog, Catalogued, memory, files, history, Ids
<1>6. ASSUME NEW c \in Client, NEW u \in Uuid, LookupForWrite(c, u) PROVE Ids'
  BY <1>6 DEF LookupForWrite, Lookup, catalog, memory, files, history, Catalogued, Ids
<1>7. ASSUME NEW c \in Client, NEW u \in Uuid, LookupForCheckpoint(c, u)
      PROVE Ids'
  BY <1>7 DEF LookupForCheckpoint, Lookup, catalog, memory, files, history, Catalogued,
       Ids
<1>8. ASSUME NEW c \in Client, DeleteUnmap(c) PROVE Ids'
  BY <1>8 DEF DeleteUnmap, catalog, files, history, Catalogued, Ids
<1>9. ASSUME NEW c \in Client, DeleteWal(c) PROVE Ids'
  BY <1>9 DEF DeleteWal, catalog, memory, history, Catalogued, Ids
<1>10. ASSUME NEW c \in Client, DeleteCheckpoint(c) PROVE Ids'
  BY <1>10 DEF DeleteCheckpoint, catalog, memory, Catalogued, Ids, Requests, Deleting
<1>11. ASSUME NEW c \in Client, WriteCheck(c) PROVE Ids'
  BY <1>11 DEF WriteCheck, Catalogued, files, history, Ids
<1>12. ASSUME NEW c \in Client, WriteAppend(c) PROVE Ids'
  BY <1>12 DEF WriteAppend, catalog, Catalogued, Ids
<1>13. ASSUME NEW c \in Client, CheckpointEmpty(c) PROVE Ids'
  BY <1>13 DEF CheckpointEmpty, catalog, memory, files, Catalogued, Ids
<1>14. ASSUME NEW c \in Client, CheckpointFiles(c) PROVE Ids'
  BY <1>14 DEF CheckpointFiles, catalog, memory, history, Catalogued, Ids
<1>15. ASSUME NEW c \in Client, CheckpointAdvance(c) PROVE Ids'
  BY <1>15 DEF CheckpointAdvance, Catalogued, catalog, memory, files, history, Ids
<1>16. ASSUME NEW c \in Client, CheckpointPrune(c) PROVE Ids'
  BY <1>16 DEF CheckpointPrune, catalog, memory, Catalogued, Ids, Requests, Using, Holding
<1>17. CASE Crash
  BY <1>17 DEF Crash, catalog, files, Catalogued, Ids
<1>18. CASE Restart
  BY <1>18 DEF Restart, Catalogued, catalog, Ids
<1>19. CASE UNCHANGED vars
  BY <1>19 DEF vars, catalog, memory, files, history, Ids, Catalogued
<1> QED BY <1>1, <1>2, <1>3, <1>4, <1>5, <1>6, <1>7, <1>8, <1>9, <1>10, <1>11, <1>12,
     <1>13, <1>14, <1>15, <1>16, <1>17, <1>18, <1>19 DEF Next

(* Every step of a request leaves what its next step, and the steps of     *)
(* others, count on.                                                       *)
LEMMA RequestsStep == ~EarlyDelete /\ Shapes /\ Ids /\ Requests /\ [Next]_vars => Requests'
<1> SUFFICES ASSUME ~EarlyDelete, Shapes, Ids, Requests, [Next]_vars PROVE Requests'
  OBVIOUS
<1>1. ASSUME NEW c \in Client, NEW n \in Name, NEW d \in Dim \cup {Unset}, CreateCatalog(c, n, d)
      PROVE Requests'
  BY <1>1 DEF CreateCatalog, Start, memory, Catalogued, Ids, Requests, Shapes,
       RequestShapes, Deleting, Using, Holding
<1>2. ASSUME NEW c \in Client, CreateOpen(c) PROVE Requests'
  BY <1>2 DEF CreateOpen, Goto, catalog, history, Catalogued, Requests, Creating,
       Deleting, Using, Holding
<1>3. ASSUME NEW c \in Client, CreateOpenFails(c) PROVE Requests'
  BY <1>3 DEF CreateOpenFails, End, Start, catalog, memory, history, Catalogued, Requests,
       Shapes, RequestShapes, Creating, Deleting, Using, Holding
<1>4. ASSUME NEW c \in Client, CreateInsert(c) PROVE Requests'
  BY <1>4 DEF CreateInsert, End, Start, catalog, Catalogued, Requests, Shapes,
       RequestShapes, Creating, Deleting, Using, Holding
<1>5. ASSUME NEW c \in Client, NEW u \in Uuid, DeleteCatalog(c, u)
      PROVE Requests'
  BY <1>5 DEF DeleteCatalog, Catalogued, Start, memory, history, Requests, Shapes,
       RequestShapes, Creating
<1>6. ASSUME NEW c \in Client, NEW u \in Uuid, LookupForWrite(c, u)
      PROVE Requests'
  BY <1>6 DEF LookupForWrite, Lookup, Start, catalog, memory, history, Catalogued, Ids,
       Requests, Shapes, RequestShapes, Creating, Deleting
<1>7. ASSUME NEW c \in Client, NEW u \in Uuid, LookupForCheckpoint(c, u)
      PROVE Requests'
  BY <1>7 DEF LookupForCheckpoint, Lookup, Start, catalog, memory, history, Catalogued,
       Ids, Requests, Shapes, RequestShapes, Creating, Deleting
<1>8. ASSUME NEW c \in Client, DeleteUnmap(c) PROVE Requests'
  BY <1>8 DEF DeleteUnmap, Goto, catalog, history, Catalogued, Requests, Creating,
       Deleting
<1>9. ASSUME NEW c \in Client, DeleteWal(c) PROVE Requests'
  BY <1>9 DEF DeleteWal, Goto, catalog, memory, history, Catalogued, Requests, Creating,
       Deleting
<1>10. ASSUME NEW c \in Client, DeleteCheckpoint(c) PROVE Requests'
  BY <1>10 DEF DeleteCheckpoint, End, Start, catalog, memory, Catalogued, Requests,
       Shapes, RequestShapes, Creating, Deleting, Using, Holding
<1>11. ASSUME NEW c \in Client, WriteCheck(c) PROVE Requests'
  <2>1. /\ Catalogued' = Catalogued /\ served' = served /\ map' = map /\ up' = up
        /\ Goto(c, "append") \/ End(c)
    BY <1>11 DEF WriteCheck, Catalogued, history
  <2>2. pc[c] = "write"
    BY <1>11 DEF WriteCheck
  <2>3. CASE Goto(c, "append")
    BY <2>1, <2>2, <2>3 DEF Goto, Requests, Creating, Deleting, Using
  <2>4. CASE End(c)
    BY <2>1, <2>4 DEF End, Start, Shapes, RequestShapes, Requests, Creating, Deleting,
         Using, Holding
  <2> QED BY <2>1, <2>3, <2>4
<1>12. ASSUME NEW c \in Client, WriteAppend(c) PROVE Requests'
  <2>1. /\ Catalogued' = Catalogued /\ served' = served /\ map' = map /\ up' = up
        /\ pc[c] = "append"
        /\ tgt' = tgt \/ End(c)
        /\ pc' = [pc EXCEPT ![c] = "files"] \/ End(c)
        /\ arg' = [arg EXCEPT ![c].recs = {<<next, arg[c].d>>}] \/ End(c)
    BY <1>12 DEF WriteAppend, Start, Catalogued, catalog, Shapes, RequestShapes
  <2>2. CASE End(c)
    BY <2>1, <2>2 DEF End, Start, Shapes, RequestShapes, Requests, Creating, Deleting,
         Using, Holding
  <2>3. CASE ~End(c)
    BY <2>1, <2>3 DEF Shapes, RequestShapes, Requests, Creating, Deleting, Using, Holding
  <2> QED BY <2>2, <2>3
<1>13. ASSUME NEW c \in Client, CheckpointEmpty(c) PROVE Requests'
  BY <1>13 DEF CheckpointEmpty, Return, End, Start, catalog, memory, Catalogued, Requests,
       Shapes, RequestShapes, Creating, Deleting, Using, Holding
<1>14. ASSUME NEW c \in Client, CheckpointFiles(c) PROVE Requests'
  BY <1>14 DEF CheckpointFiles, Goto, catalog, memory, history, Catalogued, Requests,
       Creating, Deleting, Using, Holding
<1>15. ASSUME NEW c \in Client, CheckpointAdvance(c) PROVE Requests'
  <2>1. /\ Catalogued' = Catalogued /\ served' = served /\ map' = map /\ up' = up
        /\ pc[c] = "advance"
        /\ Goto(c, "prune") \/ End(c)
    BY <1>15 DEF CheckpointAdvance, Catalogued, catalog, memory, history
  <2>2. CASE Goto(c, "prune")
    BY <2>1, <2>2 DEF Goto, Requests, Creating, Deleting, Using, Holding
  <2>3. CASE End(c)
    BY <2>1, <2>3 DEF End, Start, Shapes, RequestShapes, Requests, Creating, Deleting,
         Using, Holding
  <2> QED BY <2>1, <2>2, <2>3
<1>16. ASSUME NEW c \in Client, CheckpointPrune(c) PROVE Requests'
  BY <1>16 DEF CheckpointPrune, Return, End, Start, catalog, memory, Catalogued, Requests,
       Shapes, RequestShapes, Creating, Deleting, Using, Holding
<1>17. CASE Crash
  BY <1>17 DEF Crash, Requests, Creating, Deleting, Using, Holding
<1>18. CASE Restart
  BY <1>18 DEF Restart, requests, Requests, Creating, Deleting
<1>19. CASE UNCHANGED vars
  BY <1>19 DEF vars, catalog, memory, requests, history, Requests, Catalogued
<1> QED BY <1>1, <1>2, <1>3, <1>4, <1>5, <1>6, <1>7, <1>8, <1>9, <1>10, <1>11, <1>12,
     <1>13, <1>14, <1>15, <1>16, <1>17, <1>18, <1>19 DEF Next

(* Creation, deletion and start-up keep map and catalog together.          *)
LEMMA ServingStep == Shapes /\ Ids /\ Requests /\ Serving /\ [Next]_vars => Serving'
<1> SUFFICES ASSUME Shapes, Ids, Requests, Serving, [Next]_vars PROVE Serving'
  OBVIOUS
<1>1. ASSUME NEW c \in Client, NEW n \in Name, NEW d \in Dim \cup {Unset}, CreateCatalog(c, n, d)
      PROVE Serving'
  BY <1>1 DEF CreateCatalog, Start, memory, Serving, Catalogued, Ids
<1>2. ASSUME NEW c \in Client, CreateOpen(c) PROVE Serving'
  BY <1>2 DEF CreateOpen, Goto, catalog, history, Serving, Catalogued
<1>3. ASSUME NEW c \in Client, CreateOpenFails(c) PROVE Serving'
  BY <1>3 DEF CreateOpenFails, End, Start, catalog, memory, history, Serving, Catalogued
<1>4. ASSUME NEW c \in Client, CreateInsert(c) PROVE Serving'
  BY <1>4 DEF CreateInsert, End, Start, catalog, Serving, Catalogued, Requests, Creating
<1>5. ASSUME NEW c \in Client, NEW u \in Uuid, DeleteCatalog(c, u)
      PROVE Serving'
  BY <1>5 DEF DeleteCatalog, Catalogued, Start, memory, history, Serving, Shapes,
       RequestShapes
<1>6. ASSUME NEW c \in Client, NEW u \in Uuid, LookupForWrite(c, u)
      PROVE Serving'
  BY <1>6 DEF LookupForWrite, Lookup, Start, catalog, memory, history, Serving, Catalogued
<1>7. ASSUME NEW c \in Client, NEW u \in Uuid, LookupForCheckpoint(c, u)
      PROVE Serving'
  BY <1>7 DEF LookupForCheckpoint, Lookup, Start, catalog, memory, history, Serving,
       Catalogued
<1>8. ASSUME NEW c \in Client, DeleteUnmap(c) PROVE Serving'
  BY <1>8 DEF DeleteUnmap, Goto, catalog, history, Serving, Catalogued, Requests, Deleting
<1>9. ASSUME NEW c \in Client, DeleteWal(c) PROVE Serving'
  BY <1>9 DEF DeleteWal, Goto, catalog, memory, history, Serving, Catalogued
<1>10. ASSUME NEW c \in Client, DeleteCheckpoint(c) PROVE Serving'
  BY <1>10 DEF DeleteCheckpoint, End, Start, catalog, memory, Serving, Catalogued,
       RequestShapes
<1>11. ASSUME NEW c \in Client, WriteCheck(c) PROVE Serving'
  BY <1>11 DEF WriteCheck, Catalogued, Goto, End, Start, history, Serving, Shapes,
       RequestShapes
<1>12. ASSUME NEW c \in Client, WriteAppend(c) PROVE Serving'
  <2>1. /\ Catalogued' = Catalogued /\ served' = served /\ map' = map /\ up' = up
        /\ pc[c] = "append"
        /\ \A e \in Client : e # c => pc'[e] = pc[e] /\ tgt'[e] = tgt[e]
    BY <1>12 DEF WriteAppend, Start, End, Catalogued, catalog, Shapes, RequestShapes
  <2> QED BY <2>1 DEF Serving
<1>13. ASSUME NEW c \in Client, CheckpointEmpty(c) PROVE Serving'
  BY <1>13 DEF CheckpointEmpty, Return, End, Start, catalog, memory, Serving, Catalogued
<1>14. ASSUME NEW c \in Client, CheckpointFiles(c) PROVE Serving'
  BY <1>14 DEF CheckpointFiles, Goto, catalog, memory, history, Serving, Catalogued
<1>15. ASSUME NEW c \in Client, CheckpointAdvance(c) PROVE Serving'
  BY <1>15 DEF CheckpointAdvance, Catalogued, Goto, End, Start, catalog, memory, history,
       Serving, Shapes, RequestShapes
<1>16. ASSUME NEW c \in Client, CheckpointPrune(c) PROVE Serving'
  BY <1>16 DEF CheckpointPrune, Return, End, Start, catalog, memory, Serving, Catalogued
<1>17. CASE Crash
  BY <1>17 DEF Crash, Serving
<1>18. CASE Restart
  BY <1>18 DEF Restart, Catalogued, catalog, Serving
<1>19. CASE UNCHANGED vars
  BY <1>19 DEF vars, catalog, memory, requests, history, Serving, Catalogued
<1> QED BY <1>1, <1>2, <1>3, <1>4, <1>5, <1>6, <1>7, <1>8, <1>9, <1>10, <1>11, <1>12,
     <1>13, <1>14, <1>15, <1>16, <1>17, <1>18, <1>19 DEF Next

(* A request takes the mutex only when nobody holds it.                    *)
LEMMA MutexStep == Shapes /\ Requests /\ Mutex /\ [Next]_vars => Mutex'
<1> SUFFICES ASSUME Shapes, Requests, Mutex, [Next]_vars PROVE Mutex'
  OBVIOUS
<1>1. ASSUME NEW c \in Client, NEW n \in Name, NEW d \in Dim \cup {Unset}, CreateCatalog(c, n, d)
      PROVE Mutex'
  BY <1>1 DEF CreateCatalog, Start, Mutex, Holding
<1>2. ASSUME NEW c \in Client, CreateOpen(c) PROVE Mutex'
  BY <1>2 DEF CreateOpen, Goto, Mutex, Holding
<1>3. ASSUME NEW c \in Client, CreateOpenFails(c) PROVE Mutex'
  BY <1>3 DEF CreateOpenFails, End, Start, Mutex, Holding
<1>4. ASSUME NEW c \in Client, CreateInsert(c) PROVE Mutex'
  BY <1>4 DEF CreateInsert, End, Start, Mutex, Holding
<1>5. ASSUME NEW c \in Client, NEW u \in Uuid, DeleteCatalog(c, u)
      PROVE Mutex'
  BY <1>5 DEF DeleteCatalog, Start, Mutex, Holding
<1>6. ASSUME NEW c \in Client, NEW u \in Uuid, LookupForWrite(c, u)
      PROVE Mutex'
  BY <1>6 DEF LookupForWrite, Lookup, Start, Mutex, Holding
<1>7. ASSUME NEW c \in Client, NEW u \in Uuid, LookupForCheckpoint(c, u)
      PROVE Mutex'
  BY <1>7 DEF LookupForCheckpoint, Lookup, Start, Mutex, Holding
<1>8. ASSUME NEW c \in Client, DeleteUnmap(c) PROVE Mutex'
  BY <1>8 DEF DeleteUnmap, Goto, Mutex, Holding
<1>9. ASSUME NEW c \in Client, DeleteWal(c) PROVE Mutex'
  BY <1>9 DEF DeleteWal, Goto, Mutex, Holding
<1>10. ASSUME NEW c \in Client, DeleteCheckpoint(c) PROVE Mutex'
  BY <1>10 DEF DeleteCheckpoint, End, Start, Mutex, Holding
<1>11. ASSUME NEW c \in Client, WriteCheck(c) PROVE Mutex'
  BY <1>11 DEF WriteCheck, Locked, Holding, Goto, End, Start, Mutex, Shapes, RequestShapes
<1>12. ASSUME NEW c \in Client, WriteAppend(c) PROVE Mutex'
  BY <1>12 DEF WriteAppend, End, Start, Mutex, Shapes, RequestShapes, Holding
<1>13. ASSUME NEW c \in Client, CheckpointEmpty(c) PROVE Mutex'
  BY <1>13 DEF CheckpointEmpty, Holding, Return, End, Start, Mutex
<1>14. ASSUME NEW c \in Client, CheckpointFiles(c) PROVE Mutex'
  BY <1>14 DEF CheckpointFiles, Locked, Holding, Goto, Mutex
<1>15. ASSUME NEW c \in Client, CheckpointAdvance(c) PROVE Mutex'
  BY <1>15 DEF CheckpointAdvance, Goto, End, Start, Mutex, Shapes, RequestShapes, Holding
<1>16. ASSUME NEW c \in Client, CheckpointPrune(c) PROVE Mutex'
  BY <1>16 DEF CheckpointPrune, Return, End, Start, Mutex, Shapes, RequestShapes, Holding
<1>17. CASE Crash
  BY <1>17 DEF Crash, Mutex, Holding
<1>18. CASE Restart
  BY <1>18 DEF Restart, requests, Mutex
<1>19. CASE UNCHANGED vars
  BY <1>19 DEF vars, requests, Mutex
<1> QED BY <1>1, <1>2, <1>3, <1>4, <1>5, <1>6, <1>7, <1>8, <1>9, <1>10, <1>11, <1>12,
     <1>13, <1>14, <1>15, <1>16, <1>17, <1>18, <1>19 DEF Next

(* A flush moves the whole buffer, and an open takes from the log what the *)
(* checkpoint does not have.                                               *)
LEMMA BuffersStep == Shapes /\ Requests /\ Buffers /\ [Next]_vars => Buffers'
<1> SUFFICES ASSUME Shapes, Requests, Buffers, [Next]_vars PROVE Buffers'
  OBVIOUS
<1>1. ASSUME NEW c \in Client, NEW n \in Name, NEW d \in Dim \cup {Unset}, CreateCatalog(c, n, d)
      PROVE Buffers'
  BY <1>1 DEF CreateCatalog, memory, files, Buffers, Records
<1>2. ASSUME NEW c \in Client, CreateOpen(c) PROVE Buffers'
  BY <1>2 DEF CreateOpen, history, Buffers, Records
<1>3. ASSUME NEW c \in Client, CreateOpenFails(c) PROVE Buffers'
  BY <1>3 DEF CreateOpenFails, memory, files, history, Buffers, Records
<1>4. ASSUME NEW c \in Client, CreateInsert(c) PROVE Buffers'
  BY <1>4 DEF CreateInsert, files, Buffers, Records
<1>5. ASSUME NEW c \in Client, NEW u \in Uuid, DeleteCatalog(c, u)
      PROVE Buffers'
  BY <1>5 DEF DeleteCatalog, memory, files, history, Buffers, Records
<1>6. ASSUME NEW c \in Client, NEW u \in Uuid, LookupForWrite(c, u)
      PROVE Buffers'
  BY <1>6 DEF LookupForWrite, Lookup, memory, files, history, Buffers, Records
<1>7. ASSUME NEW c \in Client, NEW u \in Uuid, LookupForCheckpoint(c, u)
      PROVE Buffers'
  BY <1>7 DEF LookupForCheckpoint, Lookup, memory, files, history, Buffers, Records
<1>8. ASSUME NEW c \in Client, DeleteUnmap(c) PROVE Buffers'
  BY <1>8 DEF DeleteUnmap, files, history, Buffers, Records
<1>9. ASSUME NEW c \in Client, DeleteWal(c) PROVE Buffers'
  BY <1>9 DEF DeleteWal, memory, history, Buffers, Records
<1>10. ASSUME NEW c \in Client, DeleteCheckpoint(c) PROVE Buffers'
  BY <1>10 DEF DeleteCheckpoint, NoCheckpoint, memory, Buffers, Records
<1>11. ASSUME NEW c \in Client, WriteCheck(c) PROVE Buffers'
  BY <1>11 DEF WriteCheck, files, history, Buffers, Records
<1>12. ASSUME NEW c \in Client, WriteAppend(c) PROVE Buffers'
  BY <1>12 DEF WriteAppend, Buffers, Records, Shapes, Requests
<1>13. ASSUME NEW c \in Client, CheckpointEmpty(c) PROVE Buffers'
  BY <1>13 DEF CheckpointEmpty, memory, files, Buffers, Records
<1>14. ASSUME NEW c \in Client, CheckpointFiles(c) PROVE Buffers'
  BY <1>14 DEF CheckpointFiles, memory, history, Buffers, Records
<1>15. ASSUME NEW c \in Client, CheckpointAdvance(c) PROVE Buffers'
  BY <1>15 DEF CheckpointAdvance, memory, files, history, Buffers, Records
<1>16. ASSUME NEW c \in Client, CheckpointPrune(c) PROVE Buffers'
  BY <1>16 DEF CheckpointPrune, memory, Buffers, Records
<1>17. CASE Crash
  BY <1>17 DEF Crash, files, Buffers, Records
<1>18. CASE Restart
  BY <1>18 DEF Restart, Tail, Buffers, Records
<1>19. CASE UNCHANGED vars
  BY <1>19 DEF vars, memory, files, history, Buffers, Records
<1> QED BY <1>1, <1>2, <1>3, <1>4, <1>5, <1>6, <1>7, <1>8, <1>9, <1>10, <1>11, <1>12,
     <1>13, <1>14, <1>15, <1>16, <1>17, <1>18, <1>19 DEF Next

(* Only requests that found the collection in the map write to it.         *)
LEMMA UntouchedStep == Shapes /\ Ids /\ Requests /\ Untouched /\ [Next]_vars => Untouched'
<1> SUFFICES ASSUME Shapes, Ids, Requests, Untouched, [Next]_vars PROVE Untouched'
  OBVIOUS
<1>1. ASSUME NEW c \in Client, NEW n \in Name, NEW d \in Dim \cup {Unset}, CreateCatalog(c, n, d)
      PROVE Untouched'
  BY <1>1 DEF CreateCatalog, memory, files, Untouched
<1>2. ASSUME NEW c \in Client, CreateOpen(c) PROVE Untouched'
  BY <1>2 DEF CreateOpen, history, Untouched
<1>3. ASSUME NEW c \in Client, CreateOpenFails(c) PROVE Untouched'
  BY <1>3 DEF CreateOpenFails, memory, files, history, Untouched
<1>4. ASSUME NEW c \in Client, CreateInsert(c) PROVE Untouched'
  BY <1>4 DEF CreateInsert, files, Untouched
<1>5. ASSUME NEW c \in Client, NEW u \in Uuid, DeleteCatalog(c, u)
      PROVE Untouched'
  BY <1>5 DEF DeleteCatalog, memory, files, history, Untouched
<1>6. ASSUME NEW c \in Client, NEW u \in Uuid, LookupForWrite(c, u)
      PROVE Untouched'
  BY <1>6 DEF LookupForWrite, Lookup, memory, files, history, Untouched
<1>7. ASSUME NEW c \in Client, NEW u \in Uuid, LookupForCheckpoint(c, u)
      PROVE Untouched'
  BY <1>7 DEF LookupForCheckpoint, Lookup, memory, files, history, Untouched
<1>8. ASSUME NEW c \in Client, DeleteUnmap(c) PROVE Untouched'
  BY <1>8 DEF DeleteUnmap, files, history, Untouched
<1>9. ASSUME NEW c \in Client, DeleteWal(c) PROVE Untouched'
  BY <1>9 DEF DeleteWal, memory, history, Untouched
<1>10. ASSUME NEW c \in Client, DeleteCheckpoint(c) PROVE Untouched'
  BY <1>10 DEF DeleteCheckpoint, memory, Untouched
<1>11. ASSUME NEW c \in Client, WriteCheck(c) PROVE Untouched'
  BY <1>11 DEF WriteCheck, files, history, Untouched
<1>12. ASSUME NEW c \in Client, WriteAppend(c) PROVE Untouched'
  BY <1>12 DEF WriteAppend, Untouched, Shapes, Requests, Using, Holding
<1>13. ASSUME NEW c \in Client, CheckpointEmpty(c) PROVE Untouched'
  BY <1>13 DEF CheckpointEmpty, Return, memory, files, Untouched, Requests, Using
<1>14. ASSUME NEW c \in Client, CheckpointFiles(c) PROVE Untouched'
  BY <1>14 DEF CheckpointFiles, memory, history, Untouched
<1>15. ASSUME NEW c \in Client, CheckpointAdvance(c) PROVE Untouched'
  BY <1>15 DEF CheckpointAdvance, memory, files, history, Untouched
<1>16. ASSUME NEW c \in Client, CheckpointPrune(c) PROVE Untouched'
  BY <1>16 DEF CheckpointPrune, Return, memory, Untouched, Requests, Using, Holding
<1>17. CASE Crash
  BY <1>17 DEF Crash, files, Untouched
<1>18. CASE Restart
  BY <1>18 DEF Restart, Untouched, NoCheckpoint
<1>19. CASE UNCHANGED vars
  BY <1>19 DEF vars, memory, files, history, Untouched
<1> QED BY <1>1, <1>2, <1>3, <1>4, <1>5, <1>6, <1>7, <1>8, <1>9, <1>10, <1>11, <1>12,
     <1>13, <1>14, <1>15, <1>16, <1>17, <1>18, <1>19 DEF Next

(* What a served collection holds is in its files, at every step.          *)
LEMMA DurableStep == Shapes /\ Ids /\ Buffers /\ Requests /\ Serving /\ Mutex /\ Untouched /\ Durable /\ [Next]_vars => Durable'
<1> SUFFICES ASSUME Shapes, Ids, Buffers, Requests, Serving, Mutex, Untouched, Durable, [Next]_vars PROVE Durable'
  OBVIOUS
<1>1. ASSUME NEW c \in Client, NEW n \in Name, NEW d \in Dim \cup {Unset}, CreateCatalog(c, n, d)
      PROVE Durable'
  BY <1>1 DEF CreateCatalog, Start, memory, files, Durable, Ids, Untouched, Catalogued,
       Requests, Using, Holding
<1>2. ASSUME NEW c \in Client, CreateOpen(c) PROVE Durable'
  BY <1>2 DEF CreateOpen, Goto, catalog, history, Durable, Catalogued, Using, Holding
<1>3. ASSUME NEW c \in Client, CreateOpenFails(c) PROVE Durable'
  BY <1>3 DEF CreateOpenFails, End, Start, catalog, memory, files, history, Durable,
       Catalogued, Using, Holding
<1>4. ASSUME NEW c \in Client, CreateInsert(c) PROVE Durable'
  <2>1. /\ tgt[c] \in Catalogued \ served /\ tgt[c] \in Uuid /\ tgt[c] \in wfile
    BY <1>4 DEF CreateInsert, Requests, Durable, Creating
  <2>2. recs[tgt[c]] = ckpt[tgt[c]].recs \cup log[tgt[c]]
    BY <2>1 DEF Untouched, NoCheckpoint
  <2>3. /\ Catalogued' = Catalogued /\ map' = map \cup {tgt[c]} /\ acked' = acked
        /\ UNCHANGED <<recs, flushed, wfile, log, ckpt>>
        /\ \A e \in Client : e # c => pc'[e] = pc[e] /\ tgt'[e] = tgt[e] /\ arg'[e] = arg[e]
        /\ pc'[c] = "idle"
    BY <1>4 DEF CreateInsert, End, Start, Catalogued, catalog, files, Shapes,
         RequestShapes
  <2> QED BY <2>1, <2>2, <2>3 DEF Durable, Using, Holding
<1>5. ASSUME NEW c \in Client, NEW u \in Uuid, DeleteCatalog(c, u)
      PROVE Durable'
  BY <1>5 DEF DeleteCatalog, Catalogued, Start, memory, files, history, Durable, Using,
       Holding
<1>6. ASSUME NEW c \in Client, NEW u \in Uuid, LookupForWrite(c, u)
      PROVE Durable'
  BY <1>6 DEF LookupForWrite, Lookup, Start, catalog, memory, files, history, Durable,
       Catalogued, Shapes, RequestShapes
<1>7. ASSUME NEW c \in Client, NEW u \in Uuid, LookupForCheckpoint(c, u)
      PROVE Durable'
  <2>1. /\ Catalogued' = Catalogued /\ pc' = [pc EXCEPT ![c] = "ckpt"]
        /\ tgt' = [tgt EXCEPT ![c] = u] /\ arg' = [arg EXCEPT ![c] = NoArg]
        /\ NoArg.recs = {}
    BY <1>7 DEF LookupForCheckpoint, Lookup, Start, Catalogued, catalog, NoArg
  <2> QED BY <1>7, <2>1 DEF LookupForCheckpoint, Lookup, memory, files, history, Durable,
       Shapes, RequestShapes
<1>8. ASSUME NEW c \in Client, DeleteUnmap(c) PROVE Durable'
  BY <1>8 DEF DeleteUnmap, Goto, catalog, files, history, Durable, Catalogued, Using,
       Holding
<1>9. ASSUME NEW c \in Client, DeleteWal(c) PROVE Durable'
  BY <1>9 DEF DeleteWal, Goto, catalog, memory, history, Durable, Catalogued, Requests,
       Using, Creating, Deleting, Holding
<1>10. ASSUME NEW c \in Client, DeleteCheckpoint(c) PROVE Durable'
  BY <1>10 DEF DeleteCheckpoint, End, Start, catalog, memory, Durable, Serving, Untouched,
       Catalogued, Requests, Using, Holding
<1>11. ASSUME NEW c \in Client, WriteCheck(c) PROVE Durable'
  BY <1>11, SMTT(40) DEF WriteCheck, Catalogued, Goto, End, Start, files, history, Durable,
       Ids, Serving, Mutex, Shapes, RequestShapes, Using, Holding
<1>12. ASSUME NEW c \in Client, WriteAppend(c) PROVE Durable'
  <2> DEFINE u == tgt[c]
             r == <<next, arg[c].d>>
  <2>1. /\ pc[c] = "append" /\ u \in served /\ u \in Uuid
        /\ u \in Catalogued => u \in wfile /\ recs[u] = ckpt[u].recs \cup log[u]
    BY <1>12 DEF WriteAppend, Requests, Serving, Durable, Using, Holding
  <2>2. /\ Catalogued' = Catalogued /\ map' = map /\ wfile' = wfile /\ ckpt' = ckpt
        /\ recs' = [recs EXCEPT ![u] = @ \cup {r}]
        /\ u \in wfile => log' = [log EXCEPT ![u] = @ \cup {r}]
        /\ \A v \in Uuid : v # u => log'[v] = log[v] /\ flushed'[v] = flushed[v]
        /\ acked' = acked \/ acked' = [acked EXCEPT ![u] = @ \cup {r}]
        /\ \A e \in Client : e # c => pc'[e] = pc[e] /\ tgt'[e] = tgt[e] /\ arg'[e] = arg[e]
        /\ \/ pc'[c] = "idle"
           \/ pc'[c] = "files" /\ tgt'[c] = u /\ arg'[c].recs = {r}
    BY <1>12, <2>1 DEF WriteAppend, Start, End, Catalogued, catalog, Shapes,
         RequestShapes, Arg
  <2>3. \A v \in Catalogued : acked'[v] \subseteq ckpt'[v].recs \cup log'[v]
    BY <2>1, <2>2 DEF Durable, Shapes, Catalogued
  <2>4. \A v \in Catalogued \cap map : v \in wfile' /\ recs'[v] = ckpt'[v].recs \cup log'[v]
    BY <2>1, <2>2 DEF Durable, Shapes, Catalogued
  <2>5. \A e \in Client : pc[e] \in Holding /\ e # c => tgt[e] # u
    BY <2>1 DEF Mutex, Holding
  <2>6. ASSUME NEW e \in Client
        PROVE  /\ pc'[e] = "insert" => tgt'[e] \in wfile'
               /\ pc'[e] \in Using => arg'[e].recs \subseteq recs'[tgt'[e]]
               /\ pc'[e] \in {"advance", "prune"} /\ tgt'[e] \in Catalogued'
                     => ckpt'[tgt'[e]] = [recs |-> recs'[tgt'[e]], flushed |-> flushed'[tgt'[e]]]
    <3>1. CASE e = c
      BY <2>1, <2>2, <3>1 DEF Using, Holding, Shapes
    <3>2. CASE e # c
      <4>1. pc[e] # "idle" => tgt[e] \in Uuid
        BY DEF Requests
      <4>2. pc'[e] = pc[e] /\ tgt'[e] = tgt[e] /\ arg'[e] = arg[e]
        BY <2>2, <3>2
      <4>3. pc[e] = "insert" => tgt[e] \in wfile'
        BY <2>2 DEF Durable
      <4>4. pc[e] \in Using => arg[e].recs \subseteq recs'[tgt[e]]
        BY <2>2, <4>1 DEF Durable, Shapes, Using, Holding
      <4>5. ASSUME pc[e] \in {"advance", "prune"}, tgt[e] \in Catalogued
            PROVE  ckpt[tgt[e]] = [recs |-> recs'[tgt[e]], flushed |-> flushed'[tgt[e]]]
        <5>1. tgt[e] # u /\ tgt[e] \in Uuid
          BY <2>5, <3>2, <4>1, <4>5 DEF Holding
        <5>2. recs'[tgt[e]] = recs[tgt[e]] /\ flushed'[tgt[e]] = flushed[tgt[e]]
          BY <2>2, <5>1
        <5> QED BY <4>5, <5>2 DEF Durable
      <4> QED BY <2>2, <4>2, <4>3, <4>4, <4>5
    <3> QED BY <3>1, <3>2
  <2> HIDE DEF u, r
  <2> QED BY <2>2, <2>3, <2>4, <2>6 DEF Durable
<1>13. ASSUME NEW c \in Client, CheckpointEmpty(c) PROVE Durable'
  <2>1. /\ arg[c].recs = {} /\ tgt[c] \in Uuid
    BY <1>13 DEF CheckpointEmpty, Durable, Requests, Using
  <2>2. acked' = acked
    BY <1>13, <2>1 DEF CheckpointEmpty, Return, Shapes
  <2>3. /\ Catalogued' = Catalogued
        /\ \A e \in Client : e # c => pc'[e] = pc[e] /\ tgt'[e] = tgt[e] /\ arg'[e] = arg[e]
        /\ pc'[c] = "idle"
    BY <1>13 DEF CheckpointEmpty, Return, End, Start, Catalogued, catalog, Shapes,
         RequestShapes
  <2> QED BY <1>13, <2>2, <2>3 DEF CheckpointEmpty, memory, files, Durable, Using, Holding
<1>14. ASSUME NEW c \in Client, CheckpointFiles(c) PROVE Durable'
  BY <1>14 DEF CheckpointFiles, Goto, catalog, memory, history, Durable, Serving, Mutex,
       Catalogued, Shapes, Requests, Using, Holding
<1>15. ASSUME NEW c \in Client, CheckpointAdvance(c) PROVE Durable'
  BY <1>15 DEF CheckpointAdvance, Catalogued, Goto, End, Start, catalog, memory, files,
       history, Durable, Shapes, RequestShapes, Using, Holding
<1>16. ASSUME NEW c \in Client, CheckpointPrune(c) PROVE Durable'
  <2> DEFINE u == tgt[c]
  <2>1. /\ u \in Uuid /\ u \in served /\ arg[c].recs \subseteq recs[u]
        /\ u \in Catalogued => /\ u \in map /\ ckpt[u].recs = recs[u]
    <3>1. pc[c] = "prune"
      BY <1>16 DEF CheckpointPrune
    <3>2. u \in Uuid /\ u \in served /\ up
      BY <3>1 DEF Requests, Using, Holding
    <3>3. u \in Catalogued => ckpt[u] = [recs |-> recs[u], flushed |-> flushed[u]]
      BY <3>1 DEF Durable
    <3>4. arg[c].recs \subseteq recs[u]
      BY <3>1 DEF Durable, Using, Holding
    <3> QED BY <3>2, <3>3, <3>4 DEF Serving
  <2>2. /\ Catalogued' = Catalogued /\ map' = map /\ recs' = recs /\ flushed' = flushed
        /\ ckpt' = ckpt /\ wfile' = wfile \cup {u}
        /\ log' = [log EXCEPT ![u] = recs[u] \ flushed[u]]
        /\ acked' = [acked EXCEPT ![u] = @ \cup arg[c].recs]
        /\ \A e \in Client : e # c => pc'[e] = pc[e] /\ tgt'[e] = tgt[e] /\ arg'[e] = arg[e]
        /\ pc'[c] = "idle"
    BY <1>16 DEF CheckpointPrune, Return, End, Start, Catalogued, catalog, memory, Shapes,
         RequestShapes
  <2> HIDE DEF u
  <2>3. \A v \in Catalogued : acked'[v] \subseteq ckpt'[v].recs \cup log'[v]
    <3>1. u \in Catalogued => acked[u] \subseteq recs[u]
      BY <2>1 DEF Durable
    <3> QED BY <2>1, <2>2, <3>1 DEF Durable
  <2>4. \A v \in Catalogued \cap map : v \in wfile' /\ recs'[v] = ckpt'[v].recs \cup log'[v]
    BY <2>1, <2>2 DEF Durable
  <2> QED BY <2>2, <2>3, <2>4 DEF Durable, Using, Holding
<1>17. CASE Crash
  BY <1>17 DEF Crash, catalog, files, Durable, Catalogued, Using, Holding
<1>18. CASE Restart
  BY <1>18 DEF Restart, Catalogued, catalog, requests, Durable, Requests, Using, Holding
<1>19. CASE UNCHANGED vars
  BY <1>19 DEF vars, catalog, memory, files, requests, history, Durable, Catalogued
<1> QED BY <1>1, <1>2, <1>3, <1>4, <1>5, <1>6, <1>7, <1>8, <1>9, <1>10, <1>11, <1>12,
     <1>13, <1>14, <1>15, <1>16, <1>17, <1>18, <1>19 DEF Next

(* The first vectors of a collection fix its dimension, in memory and in   *)
(* the catalog; all later ones have it.                                    *)
LEMMA DimensionsStep == ~BadBatches /\ "persist" \notin Faults /\ Shapes /\ Ids /\ Buffers /\ Requests /\ Serving /\ Mutex /\ Untouched /\ Durable /\ Dimensions /\ [Next]_vars => Dimensions'
<1> SUFFICES ASSUME ~BadBatches, "persist" \notin Faults, Shapes, Ids, Buffers, Requests, Serving, Mutex, Untouched, Durable, Dimensions, [Next]_vars PROVE Dimensions'
  OBVIOUS
<1> USE EngineAssumption
<1>1. ASSUME NEW c \in Client, NEW n \in Name, NEW d \in Dim \cup {Unset}, CreateCatalog(c, n, d)
      PROVE Dimensions'
  <2>1. PICK u \in Uuid \ used :
           /\ name' = [name EXCEPT ![u] = n] /\ cdim' = [cdim EXCEPT ![u] = d]
           /\ Start(c, u, [NoArg EXCEPT !.d = d], "open")
    BY <1>1 DEF CreateCatalog
  <2>2. u \notin served /\ u \notin map /\ u \notin Catalogued
    BY <2>1 DEF Ids
  <2>3. Catalogued' \subseteq Catalogued \cup {u}
    BY <2>1 DEF Catalogued
  <2>4. log[u] = {} /\ ckpt[u].recs = {}
    BY <2>1, <2>2 DEF Untouched, NoCheckpoint
  <2>5. \A e \in Client : pc[e] # "idle" => tgt[e] \in Uuid /\ tgt[e] # u
    BY <2>1, <2>2 DEF Requests, Shapes, RequestShapes, Step
  <2>6. /\ dim' = dim /\ recs' = recs /\ map' = map /\ log' = log /\ ckpt' = ckpt
        /\ pc'[c] = "open" /\ tgt'[c] = u /\ arg'[c].d = d
        /\ \A e \in Client : e # c => pc'[e] = pc[e] /\ tgt'[e] = tgt[e] /\ arg'[e] = arg[e]
    BY <1>1, <2>1 DEF CreateCatalog, memory, files, Start, Shapes, RequestShapes
  <2>7. cdim'[u] = d /\ \A v \in Uuid : v # u => cdim'[v] = cdim[v]
    BY <2>1 DEF Shapes
  <2>8. \A v \in Catalogued' : Fits(ckpt'[v].recs \cup log'[v], cdim'[v])
    BY <2>3, <2>4, <2>6, <2>7 DEF Dimensions, Fits, Catalogued
  <2>9. \A v \in Catalogued' \cap map' : dim'[v] = cdim'[v]
    BY <2>2, <2>3, <2>6, <2>7 DEF Dimensions, Catalogued
  <2>10. ASSUME NEW e \in Client
         PROVE  /\ pc'[e] = "open" => arg'[e].d = cdim'[tgt'[e]]
                /\ pc'[e] = "insert" => dim'[tgt'[e]] = cdim'[tgt'[e]]
                /\ pc'[e] = "write" => arg'[e].ok
                /\ pc'[e] = "append" => arg'[e].d = dim'[tgt'[e]]
    BY <2>5, <2>6, <2>7 DEF Dimensions
  <2> QED BY <2>6, <2>8, <2>9, <2>10 DEF Dimensions
<1>2. ASSUME NEW c \in Client, CreateOpen(c) PROVE Dimensions'
  BY <1>2 DEF CreateOpen, Goto, catalog, Dimensions, Catalogued, Shapes, Requests, Using,
       Creating, Holding
<1>3. ASSUME NEW c \in Client, CreateOpenFails(c) PROVE Dimensions'
  BY <1>3 DEF CreateOpenFails, End, Start, catalog, memory, files, Dimensions, Catalogued,
       Shapes, RequestShapes
<1>4. ASSUME NEW c \in Client, CreateInsert(c) PROVE Dimensions'
  <2>1. /\ tgt[c] \in Catalogued \ served /\ tgt[c] \in Uuid
        /\ dim[tgt[c]] = cdim[tgt[c]]
    BY <1>4 DEF CreateInsert, Requests, Dimensions, Creating
  <2>2. recs[tgt[c]] = {}
    BY <2>1 DEF Untouched
  <2>3. /\ Catalogued' = Catalogued /\ map' = map \cup {tgt[c]}
        /\ UNCHANGED <<cdim, dim, recs, log, ckpt>>
        /\ \A e \in Client : e # c => pc'[e] = pc[e] /\ tgt'[e] = tgt[e] /\ arg'[e] = arg[e]
        /\ pc'[c] = "idle"
    BY <1>4 DEF CreateInsert, End, Start, Catalogued, catalog, files, Shapes,
         RequestShapes
  <2> QED BY <2>1, <2>2, <2>3 DEF Dimensions, Fits
<1>5. ASSUME NEW c \in Client, NEW u \in Uuid, DeleteCatalog(c, u)
      PROVE Dimensions'
  BY <1>5 DEF DeleteCatalog, Catalogued, Start, memory, files, Dimensions, Shapes
<1>6. ASSUME NEW c \in Client, NEW u \in Uuid, LookupForWrite(c, u)
      PROVE Dimensions'
  BY <1>6 DEF LookupForWrite, Lookup, Start, catalog, memory, files, Dimensions,
       Catalogued, Shapes, RequestShapes
<1>7. ASSUME NEW c \in Client, NEW u \in Uuid, LookupForCheckpoint(c, u)
      PROVE Dimensions'
  BY <1>7 DEF LookupForCheckpoint, Lookup, Start, catalog, memory, files, Dimensions,
       Catalogued, Shapes
<1>8. ASSUME NEW c \in Client, DeleteUnmap(c) PROVE Dimensions'
  BY <1>8 DEF DeleteUnmap, Goto, catalog, files, Dimensions, Catalogued, Shapes
<1>9. ASSUME NEW c \in Client, DeleteWal(c) PROVE Dimensions'
  BY <1>9 DEF DeleteWal, Goto, catalog, memory, Dimensions, Catalogued, Shapes,
       RequestShapes, Requests, Deleting
<1>10. ASSUME NEW c \in Client, DeleteCheckpoint(c) PROVE Dimensions'
  <2>1. /\ Catalogued' = Catalogued /\ map' = map /\ UNCHANGED <<cdim, dim, recs, log>>
        /\ tgt[c] \notin Catalogued /\ ckpt' = [ckpt EXCEPT ![tgt[c]] = NoCheckpoint]
        /\ \A e \in Client : e # c => pc'[e] = pc[e] /\ tgt'[e] = tgt[e] /\ arg'[e] = arg[e]
        /\ pc'[c] = "idle"
    BY <1>10 DEF DeleteCheckpoint, End, Start, Catalogued, catalog, memory, Shapes,
         RequestShapes, Requests, Deleting
  <2>2. \A v \in Catalogued : ckpt'[v] = ckpt[v]
    BY <2>1
  <2> QED BY <2>1, <2>2 DEF Dimensions
<1>11. ASSUME NEW c \in Client, WriteCheck(c) PROVE Dimensions'
  <2> DEFINE u == tgt[c]
             d == IF dim[u] = Unset THEN arg[c].d ELSE dim[u]
  <2>1. /\ u \in Uuid /\ u \in served /\ arg[c].ok /\ arg[c].d \in Dim /\ up
        /\ pc[c] = "write" /\ d \in Dim
    BY <1>11 DEF WriteCheck, Requests, Dimensions, Using, Shapes
  <2>2. /\ Catalogued' = Catalogued /\ map' = map /\ recs' = recs /\ log' = log /\ ckpt' = ckpt
        /\ dim' = [dim EXCEPT ![u] = d]
        /\ \A e \in Client : e # c => pc'[e] = pc[e] /\ tgt'[e] = tgt[e] /\ arg'[e] = arg[e]
        /\ \/ pc'[c] = "idle" /\ d # arg[c].d
           \/ pc'[c] = "append" /\ tgt'[c] = u /\ arg'[c] = arg[c] /\ d = arg[c].d
    BY <1>11, <2>1 DEF WriteCheck, Goto, End, Start, Catalogued, files, Shapes,
         RequestShapes
  <2>3. /\ dim[u] = Unset /\ u \in Catalogued => cdim' = [cdim EXCEPT ![u] = d]
        /\ ~(dim[u] = Unset /\ u \in Catalogued) => cdim' = cdim
    BY <1>11, <2>1 DEF WriteCheck
  <2>4. u \in Catalogued => u \in map /\ dim[u] = cdim[u]
    BY <2>1 DEF Serving, Dimensions
  <2>5. u \in Catalogued => cdim' = [cdim EXCEPT ![u] = d]
    BY <2>3, <2>4 DEF Shapes
  <2>6. \A r \in Record : r[2] # Unset
    BY DEF Record, Unset
  <2>7. u \in map /\ dim[u] = Unset => recs[u] = {}
    BY <2>1, <2>6 DEF Dimensions, Fits, Shapes
  <2>8. u \in Catalogued /\ dim[u] = Unset => ckpt[u].recs \cup log[u] = {}
    BY <2>1, <2>4, <2>7 DEF Durable
  <2>9. /\ \A v \in Uuid : v # u => dim'[v] = dim[v] /\ cdim'[v] = cdim[v]
        /\ dim'[u] = d
        /\ u \in Catalogued => cdim'[u] = d
        /\ dim[u] # Unset => d = dim[u]
    <3>1. dim' = [dim EXCEPT ![u] = d]
      BY <2>2
    <3>2. cdim' = cdim \/ cdim' = [cdim EXCEPT ![u] = d]
      BY <2>3
    <3> QED BY <2>1, <2>5, <3>1, <3>2 DEF Shapes
  <2> HIDE DEF u, d
  <2>10. \A v \in Catalogued : Fits(ckpt'[v].recs \cup log'[v], cdim'[v])
    BY <2>2, <2>4, <2>8, <2>9 DEF Dimensions, Fits, Catalogued
  <2>11. \A v \in map : Fits(recs'[v], dim'[v])
    BY <2>2, <2>7, <2>9 DEF Dimensions, Fits
  <2>12. \A v \in Catalogued \cap map : dim'[v] = cdim'[v]
    BY <2>9 DEF Dimensions, Catalogued
  <2>13. ASSUME NEW e \in Client
         PROVE  /\ pc'[e] = "open" => arg'[e].d = cdim'[tgt'[e]]
                /\ pc'[e] = "insert" => dim'[tgt'[e]] = cdim'[tgt'[e]]
                /\ pc'[e] = "write" => arg'[e].ok
                /\ pc'[e] = "append" => arg'[e].d = dim'[tgt'[e]]
    <3>1. CASE e = c
      BY <2>2, <2>9, <3>1
    <3>2. CASE e # c
      <4>1. pc[e] # "idle" => tgt[e] \in Uuid
        BY DEF Requests
      <4>2. pc[e] \in {"open", "insert"} => tgt[e] # u
        BY <2>1 DEF Requests, Creating
      <4>3. pc[e] = "append" /\ tgt[e] = u => dim[u] = arg[e].d /\ dim[u] # Unset
        BY DEF Dimensions, Requests, Unset
      <4> QED BY <2>2, <2>9, <3>2, <4>1, <4>2, <4>3 DEF Dimensions
    <3> QED BY <3>1, <3>2
  <2> QED BY <2>2, <2>10, <2>11, <2>12, <2>13 DEF Dimensions
<1>12. ASSUME NEW c \in Client, WriteAppend(c) PROVE Dimensions'
  <2> DEFINE u == tgt[c]
             r == <<next, arg[c].d>>
  <2>1. /\ u \in Uuid /\ u \in served /\ up /\ arg[c].d = dim[u]
    BY <1>12 DEF WriteAppend, Requests, Dimensions, Using, Holding
  <2>2. u \in Catalogued => dim[u] = cdim[u]
    BY <2>1 DEF Dimensions, Serving
  <2>3. /\ Catalogued' = Catalogued /\ map' = map /\ UNCHANGED <<cdim, dim, ckpt>>
        /\ log' = log \/ log' = [log EXCEPT ![u] = @ \cup {r}]
        /\ recs' = [recs EXCEPT ![u] = @ \cup {r}]
        /\ \A e \in Client : e # c => pc'[e] = pc[e] /\ tgt'[e] = tgt[e] /\ arg'[e] = arg[e]
        /\ pc'[c] \in {"idle", "files"}
    BY <1>12 DEF WriteAppend, Start, End, Catalogued, catalog, Shapes, RequestShapes
  <2>4. r[2] = dim[u]
    BY <2>1
  <2> HIDE DEF u, r
  <2>5. \A v \in Uuid : /\ recs'[v] \subseteq recs[v] \cup {r} /\ log'[v] \subseteq log[v] \cup {r}
                        /\ v # u => recs'[v] = recs[v] /\ log'[v] = log[v]
    BY <2>1, <2>3 DEF Shapes
  <2>6. \A v \in Catalogued : Fits(ckpt'[v].recs \cup log'[v], cdim'[v])
    BY <2>2, <2>3, <2>4, <2>5 DEF Dimensions, Fits, Catalogued
  <2>7. \A v \in map : Fits(recs'[v], dim'[v])
    BY <2>3, <2>4, <2>5 DEF Dimensions, Fits
  <2>8. \A v \in Catalogued' \cap map' : dim'[v] = cdim'[v]
    BY <2>3 DEF Dimensions
  <2>9. ASSUME NEW e \in Client
        PROVE  /\ pc'[e] = "open" => arg'[e].d = cdim'[tgt'[e]]
               /\ pc'[e] = "insert" => dim'[tgt'[e]] = cdim'[tgt'[e]]
               /\ pc'[e] = "write" => arg'[e].ok
               /\ pc'[e] = "append" => arg'[e].d = dim'[tgt'[e]]
    <3>1. CASE e = c
      BY <2>3, <3>1
    <3>2. CASE e # c
      BY <2>3, <3>2 DEF Dimensions
    <3> QED BY <3>1, <3>2
  <2> QED BY <2>3, <2>6, <2>7, <2>8, <2>9 DEF Dimensions
<1>13. ASSUME NEW c \in Client, CheckpointEmpty(c) PROVE Dimensions'
  BY <1>13 DEF CheckpointEmpty, Return, End, Start, catalog, memory, files, Dimensions,
       Catalogued, Shapes
<1>14. ASSUME NEW c \in Client, CheckpointFiles(c) PROVE Dimensions'
  <2>1. /\ Catalogued' = Catalogued /\ map' = map /\ UNCHANGED <<cdim, dim, recs, log, tgt, arg>>
        /\ ckpt' = [ckpt EXCEPT ![tgt[c]] = [recs |-> recs[tgt[c]], flushed |-> flushed[tgt[c]]]]
        /\ pc' = [pc EXCEPT ![c] = "advance"] /\ pc[c] \in {"files", "ckpt"}
    BY <1>14 DEF CheckpointFiles, Goto, Catalogued, catalog, memory
  <2>2. tgt[c] \in Catalogued => Fits(recs[tgt[c]] \cup log[tgt[c]], cdim[tgt[c]])
    <3>1. tgt[c] \in served /\ up
      BY <2>1 DEF Requests, Using, Holding
    <3>2. tgt[c] \in Catalogued => tgt[c] \in map
      BY <3>1 DEF Serving
    <3> QED BY <3>2 DEF Dimensions, Fits
  <2>3. \A v \in Catalogued : Fits(ckpt'[v].recs \cup log'[v], cdim'[v])
    BY <2>1, <2>2 DEF Dimensions, Shapes, Catalogued
  <2> QED BY <2>1, <2>3 DEF Dimensions, RequestShapes
<1>15. ASSUME NEW c \in Client, CheckpointAdvance(c) PROVE Dimensions'
  BY <1>15 DEF CheckpointAdvance, Catalogued, Goto, End, Start, catalog, memory, files,
       Dimensions, Shapes, RequestShapes
<1>16. ASSUME NEW c \in Client, CheckpointPrune(c) PROVE Dimensions'
  <2>1. /\ Catalogued' = Catalogued /\ map' = map /\ UNCHANGED <<cdim, dim, recs, ckpt>>
        /\ log' = [log EXCEPT ![tgt[c]] = recs[tgt[c]] \ flushed[tgt[c]]]
        /\ \A e \in Client : e # c => pc'[e] = pc[e] /\ tgt'[e] = tgt[e] /\ arg'[e] = arg[e]
        /\ pc'[c] = "idle" /\ pc[c] = "prune"
    BY <1>16 DEF CheckpointPrune, Return, End, Start, Catalogued, catalog, memory, Shapes,
         RequestShapes
  <2>2. tgt[c] \in Catalogued => recs[tgt[c]] \subseteq ckpt[tgt[c]].recs \cup log[tgt[c]]
    <3>1. tgt[c] \in served /\ up
      BY <2>1 DEF Requests, Using, Holding
    <3>2. tgt[c] \in Catalogued => tgt[c] \in map
      BY <3>1 DEF Serving
    <3> QED BY <3>2 DEF Durable
  <2>3. \A v \in Catalogued : log'[v] \subseteq ckpt[v].recs \cup log[v]
    BY <2>1, <2>2
  <2>4. \A v \in Catalogued : Fits(ckpt'[v].recs \cup log'[v], cdim'[v])
    BY <2>1, <2>3 DEF Dimensions, Fits
  <2>5. ASSUME NEW e \in Client
        PROVE  /\ pc'[e] = "open" => arg'[e].d = cdim'[tgt'[e]]
               /\ pc'[e] = "insert" => dim'[tgt'[e]] = cdim'[tgt'[e]]
               /\ pc'[e] = "write" => arg'[e].ok
               /\ pc'[e] = "append" => arg'[e].d = dim'[tgt'[e]]
    BY <2>1 DEF Dimensions
  <2> QED BY <2>1, <2>4, <2>5 DEF Dimensions
<1>17. CASE Crash
  BY <1>17 DEF Crash, catalog, files, Dimensions, Catalogued
<1>18. CASE Restart
  BY <1>18 DEF Restart, Catalogued, catalog, requests, Dimensions, Requests
<1>19. CASE UNCHANGED vars
  BY <1>19 DEF vars, catalog, memory, files, requests, Dimensions, Catalogued
<1> QED BY <1>1, <1>2, <1>3, <1>4, <1>5, <1>6, <1>7, <1>8, <1>9, <1>10, <1>11, <1>12,
     <1>13, <1>14, <1>15, <1>16, <1>17, <1>18, <1>19 DEF Next

(* No step brings a deleted collection back.                               *)
LEMMA DeletedStep == Shapes /\ Ids /\ Requests /\ DeletedStaysGone /\ [Next]_vars => DeletedStaysGone'
<1> SUFFICES ASSUME Shapes, Ids, Requests, DeletedStaysGone, [Next]_vars PROVE DeletedStaysGone'
  OBVIOUS
<1>1. ASSUME NEW c \in Client, NEW n \in Name, NEW d \in Dim \cup {Unset}, CreateCatalog(c, n, d)
      PROVE DeletedStaysGone'
  BY <1>1 DEF CreateCatalog, memory, DeletedStaysGone, Catalogued, Ids
<1>2. ASSUME NEW c \in Client, CreateOpen(c) PROVE DeletedStaysGone'
  BY <1>2 DEF CreateOpen, catalog, history, DeletedStaysGone, Catalogued
<1>3. ASSUME NEW c \in Client, CreateOpenFails(c) PROVE DeletedStaysGone'
  BY <1>3 DEF CreateOpenFails, catalog, memory, history, DeletedStaysGone, Catalogued
<1>4. ASSUME NEW c \in Client, CreateInsert(c) PROVE DeletedStaysGone'
  BY <1>4 DEF CreateInsert, catalog, DeletedStaysGone, Catalogued, Requests, Creating
<1>5. ASSUME NEW c \in Client, NEW u \in Uuid, DeleteCatalog(c, u)
      PROVE DeletedStaysGone'
  BY <1>5 DEF DeleteCatalog, Catalogued, memory, history, DeletedStaysGone
<1>6. ASSUME NEW c \in Client, NEW u \in Uuid, LookupForWrite(c, u)
      PROVE DeletedStaysGone'
  BY <1>6 DEF LookupForWrite, Lookup, catalog, memory, history, DeletedStaysGone,
       Catalogued
<1>7. ASSUME NEW c \in Client, NEW u \in Uuid, LookupForCheckpoint(c, u)
      PROVE DeletedStaysGone'
  BY <1>7 DEF LookupForCheckpoint, Lookup, catalog, memory, history, DeletedStaysGone,
       Catalogued
<1>8. ASSUME NEW c \in Client, DeleteUnmap(c) PROVE DeletedStaysGone'
  BY <1>8 DEF DeleteUnmap, catalog, history, DeletedStaysGone, Catalogued
<1>9. ASSUME NEW c \in Client, DeleteWal(c) PROVE DeletedStaysGone'
  BY <1>9 DEF DeleteWal, catalog, memory, history, DeletedStaysGone, Catalogued
<1>10. ASSUME NEW c \in Client, DeleteCheckpoint(c) PROVE DeletedStaysGone'
  BY <1>10 DEF DeleteCheckpoint, catalog, memory, DeletedStaysGone, Catalogued, Requests,
       Deleting
<1>11. ASSUME NEW c \in Client, WriteCheck(c) PROVE DeletedStaysGone'
  BY <1>11 DEF WriteCheck, Catalogued, history, DeletedStaysGone
<1>12. ASSUME NEW c \in Client, WriteAppend(c) PROVE DeletedStaysGone'
  BY <1>12 DEF WriteAppend, catalog, DeletedStaysGone, Catalogued
<1>13. ASSUME NEW c \in Client, CheckpointEmpty(c) PROVE DeletedStaysGone'
  BY <1>13 DEF CheckpointEmpty, catalog, memory, DeletedStaysGone, Catalogued
<1>14. ASSUME NEW c \in Client, CheckpointFiles(c) PROVE DeletedStaysGone'
  BY <1>14 DEF CheckpointFiles, catalog, memory, history, DeletedStaysGone, Catalogued
<1>15. ASSUME NEW c \in Client, CheckpointAdvance(c) PROVE DeletedStaysGone'
  BY <1>15 DEF CheckpointAdvance, Catalogued, catalog, memory, history, DeletedStaysGone
<1>16. ASSUME NEW c \in Client, CheckpointPrune(c) PROVE DeletedStaysGone'
  BY <1>16 DEF CheckpointPrune, catalog, memory, DeletedStaysGone, Catalogued
<1>17. CASE Crash
  BY <1>17 DEF Crash, catalog, DeletedStaysGone, Catalogued
<1>18. CASE Restart
  BY <1>18 DEF Restart, Catalogued, catalog, DeletedStaysGone
<1>19. CASE UNCHANGED vars
  BY <1>19 DEF vars, catalog, memory, history, DeletedStaysGone, Catalogued
<1> QED BY <1>1, <1>2, <1>3, <1>4, <1>5, <1>6, <1>7, <1>8, <1>9, <1>10, <1>11, <1>12,
     <1>13, <1>14, <1>15, <1>16, <1>17, <1>18, <1>19 DEF Next

-----------------------------------------------------------------------------
(* The theorems.                                                           *)

LEMMA InitInv == Init => Inv /\ Dimensions
<1> SUFFICES ASSUME Init PROVE Inv /\ Dimensions
  OBVIOUS
<1>1. Shapes
  BY DEF Init, Shapes, RequestShapes, NoCheckpoint, NoArg, Arg, Step
<1>2. /\ Catalogued = {}
      /\ Ids /\ Buffers /\ Requests /\ Serving /\ Mutex /\ Untouched
      /\ DeletedStaysGone /\ Durable /\ Dimensions
  BY DEF Init, Catalogued, Ids, Buffers, Requests, Serving, Mutex, Untouched,
       DeletedStaysGone, Durable, Dimensions, NoCheckpoint, Creating, Deleting, Using,
       Holding
<1> QED BY <1>1, <1>2 DEF Inv

(* Unless a client deletes a collection that is still being created, every *)
(* step preserves the invariant.                                           *)
LEMMA InvStep == ~EarlyDelete /\ Inv /\ [Next]_vars => Inv'
  BY ShapesStep, IdsStep, BuffersStep, RequestsStep, ServingStep, MutexStep,
       UntouchedStep, DeletedStep, DurableStep DEF Inv

(* What the invariant says about the properties.                           *)
LEMMA InvImplies == Inv => TypeOK /\ ServedWhenIdle /\ AckedSurvive
<1> SUFFICES ASSUME Inv PROVE TypeOK /\ ServedWhenIdle /\ AckedSurvive
  OBVIOUS
<1>1. TypeOK
  BY DEF Inv, Shapes, RequestShapes, Step, Creating, Deleting, Using, Ids, Buffers, TypeOK
<1>2. ServedWhenIdle
  BY DEF Inv, Serving, Ids, ServedWhenIdle
<1>3. AckedSurvive
  BY DEF Inv, Durable, AckedSurvive
<1> QED BY <1>1, <1>2, <1>3

(* The variables have their types; in particular a record of an open       *)
(* collection is in its buffer or flushed, never in both, and only ids     *)
(* that creation or start-up served are ever deleted.                      *)
THEOREM EngineTypeCorrect == ~EarlyDelete => (Spec => []TypeOK)
<1> SUFFICES ASSUME ~EarlyDelete PROVE Spec => []TypeOK
  OBVIOUS
<1>1. Init => Inv
  BY InitInv
<1>2. Inv /\ [Next]_vars => Inv'
  BY InvStep
<1>3. Inv => TypeOK
  BY InvImplies
<1> QED BY <1>1, <1>2, <1>3, PTL DEF Spec

(* A record whose write returned Ok stays in the files of its collection   *)
(* until the collection is deleted, through concurrent checkpoints, failed *)
(* flushes, deletions of other collections, crashes and restarts.          *)
THEOREM EngineAckedSurvive == ~EarlyDelete => (Spec => []AckedSurvive)
<1> SUFFICES ASSUME ~EarlyDelete PROVE Spec => []AckedSurvive
  OBVIOUS
<1>1. Init => Inv
  BY InitInv
<1>2. Inv /\ [Next]_vars => Inv'
  BY InvStep
<1>3. Inv => AckedSurvive
  BY InvImplies
<1> QED BY <1>1, <1>2, <1>3, PTL DEF Spec

(* A collection whose deletion returned Ok is never served or catalogued   *)
(* again, whatever ran beside the deletion.                                *)
THEOREM EngineDeletedStaysGone == ~EarlyDelete => (Spec => []DeletedStaysGone)
<1> SUFFICES ASSUME ~EarlyDelete PROVE Spec => []DeletedStaysGone
  OBVIOUS
<1>1. Init => Inv
  BY InitInv
<1>2. Inv /\ [Next]_vars => Inv'
  BY InvStep
<1>3. Inv => DeletedStaysGone
  BY InvImplies DEF Inv
<1> QED BY <1>1, <1>2, <1>3, PTL DEF Spec

(* Without requests the map and the catalog agree.                         *)
THEOREM EngineServedWhenIdle == ~EarlyDelete => (Spec => []ServedWhenIdle)
<1> SUFFICES ASSUME ~EarlyDelete PROVE Spec => []ServedWhenIdle
  OBVIOUS
<1>1. Init => Inv
  BY InitInv
<1>2. Inv /\ [Next]_vars => Inv'
  BY InvStep
<1>3. Inv => ServedWhenIdle
  BY InvImplies
<1> QED BY <1>1, <1>2, <1>3, PTL DEF Spec

(* When the dimension of a collection is as safe as its records: the first *)
(* batch is not rejected for its own sake, and the catalog is writable.    *)
DimensionConditions == ~EarlyDelete /\ ~BadBatches /\ "persist" \notin Faults

(* All vectors of a served collection have one dimension, also those       *)
(* written before and after a restart.                                     *)
THEOREM EngineOneDimension == DimensionConditions => (Spec => []OneDimension)
<1> SUFFICES ASSUME DimensionConditions PROVE Spec => []OneDimension
  OBVIOUS
<1>1. Init => Inv /\ Dimensions
  BY InitInv
<1>2. Inv /\ Dimensions /\ [Next]_vars => (Inv /\ Dimensions)'
  BY InvStep, DimensionsStep DEF Inv, DimensionConditions
<1>3. Inv /\ Dimensions => OneDimension
  BY DEF Dimensions, OneDimension, Fits
<1> QED BY <1>1, <1>2, <1>3, PTL DEF Spec

(* At every moment a crash leaves files that Engine::open accepts.         *)
THEOREM EngineAlwaysReopens == DimensionConditions => (Spec => []EngineReopens)
<1> SUFFICES ASSUME DimensionConditions PROVE Spec => []EngineReopens
  OBVIOUS
<1>1. Init => Inv /\ Dimensions
  BY InitInv
<1>2. Inv /\ Dimensions /\ [Next]_vars => (Inv /\ Dimensions)'
  BY InvStep, DimensionsStep DEF Inv, DimensionConditions
<1>3. Inv /\ Dimensions => EngineReopens
  BY DEF Dimensions, EngineReopens, Fits, Opens, Tail
<1> QED BY <1>1, <1>2, <1>3, PTL DEF Spec

=============================================================================
