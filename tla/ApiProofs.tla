------------------------------ MODULE ApiProofs ------------------------------
(***************************************************************************)
(* What the HTTP handlers guarantee for any number of requests,            *)
(* collections, records and nodes, and any bodies.                         *)
(***************************************************************************)
EXTENDS Api, FiniteSetTheorems, TLAPS

Creates == {"create", "get_or_create"}
OnRecords == WriteKinds \cup ReadKinds

PcSteps == {"idle", "resolve", "show", "lookup", "insert", "open", "count", "propose", "find",
            "erase", "unmap", "scan", "listing", "act", "add_learner", "remove_member", "change"}

Kinds   == AllKinds \cup {None}
Vias    == {None, "native", "chroma"}
Pcs     == PcSteps \cup Outcomes
Targets == Name \cup Cid \cup Node \cup {None}
BodyOr  == Bodies \cup {None}
Todos   == SUBSET (Cid \cup Node)
Lists   == Seq(Nat)
Meets   == SUBSET {"create", "remove", "write"}

Request == [kind : Kinds, via : Vias, pc : Pcs, target : Targets, cid : Targets,
            body : BodyOr, todo : Todos, rows : Lists, met : Meets]

(* Which requests take which step.                                         *)
Fits(step, kind, via, todo) ==
    /\ step \in PcSteps \ {"idle"}
    /\ step = "resolve" => kind \in OnRecords /\ via = "chroma"
    /\ step = "show" => kind = "get_coll"
    /\ step = "lookup" => kind = "get_or_create"
    /\ step \in {"insert", "open"} => kind \in Creates
    /\ step = "count" => kind \in {"create", "get_coll"} /\ via = "native"
    /\ step = "propose" => kind \in {"create", "remove"}
    /\ step \in {"find", "erase", "unmap"} => kind = "remove"
    /\ step = "find" => via = "chroma"
    /\ step \in {"scan", "listing"} => kind = "list"
    /\ step = "act" => kind \in OnRecords
    /\ step \in MemberKinds => kind = step
    /\ step = "change" => kind = "remove_member" /\ todo # {} /\ todo \subseteq Node

AtStep(q) == q = Idle \/ Fits(q.pc, q.kind, q.via, q.todo)

(* The path of a native request for one collection holds its id.           *)
ById(q) == q.via = "native" /\ q.kind \in OnRecords \cup {"remove", "get_coll"}

(* The steps that work on one collection.                                  *)
OnOne == {"open", "count", "propose", "erase", "unmap", "act"}

(* What a request carries.                                                 *)
Carries(q) ==
    /\ q.pc # "idle" => q.via \in {"native", "chroma"}
    /\ q.kind \in WriteKinds \cup {"query", "get"} =>
          q.body \in Bodies /\ Accepts(q.via, q.kind, q.body)
    /\ q.kind \in Creates => q.target \in Name
    /\ q.kind = "get_or_create" => q.via = "chroma"
    /\ q.kind \in MemberKinds => q.target \in Node
    /\ ById(q) => q.cid = q.target /\ q.cid \in used
    /\ q.pc \in OnOne => q.cid \in used
    /\ q.pc = "listing" => q.todo \subseteq used
    /\ q.pc = "resolve" => q.rows = <<>>

Records ==
    /\ name \in [Cid -> Name \cup {None}]
    /\ Catalogued \cup served \cup registered \subseteq used /\ used \subseteq Cid
    /\ recs \in [Cid -> SUBSET Rid]
    /\ fails \in 0..MaxFail

Requests ==
    /\ req \in [Req -> Request] /\ resp \subseteq Request
    /\ \A r \in Req : AtStep(req[r]) /\ Carries(req[r])

Shapes == Records /\ Requests

Members ==
    /\ voters # {} /\ voters \cup learners \cup removed \subseteq Node
    /\ voters \cap learners = {}

OneName == \A u, v \in Catalogued : name[u] = name[v] => u = v

(* Requests that run at the same time have met.                            *)
Met == \A r, s \in Running : r # s => Disturbance(req[s].kind) \subseteq req[r].met

(* A catalogued collection that is not served is being opened, or failed   *)
(* to.                                                                     *)
Unserved ==
    \A u \in Catalogued \ served :
        <<"open", u>> \in cause \/ \E s \in Req : req[s].pc = "open" /\ req[s].cid = u

(* s creates u, and has drawn its id; s removes u from the rest.           *)
Makes(s, u) == req[s].kind \in Creates /\ req[s].pc \in {"open", "count", "propose"} /\ req[s].cid = u
Removes(s, u) == req[s].kind = "remove" /\ req[s].pc \in {"unmap", "propose"} /\ req[s].cid = u

OneMaker == \A r, s \in Req, u \in Cid : Makes(r, u) /\ Makes(s, u) => r = s

Erased == \A s \in Req, u \in Cid : Removes(s, u) => u \notin Catalogued

(* What a request has seen still holds, or it met the one who changed it.  *)
Sees(r) ==
    /\ req[r].pc = "insert" /\ req[r].kind = "get_or_create" =>
          Bearers(req[r].target) = {} \/ "create" \in req[r].met
    /\ req[r].pc = "count" /\ req[r].kind = "create" =>
          req[r].cid \in served \/ "remove" \in req[r].met
    /\ req[r].pc = "act" /\ req[r].via = "chroma" =>
          req[r].cid \in Catalogued \/ "remove" \in req[r].met
    /\ req[r].pc = "listing" =>
          req[r].todo \subseteq Catalogued \/ "remove" \in req[r].met

Seen == \A r \in Req : Sees(r)

Explained(u) == \E why \in {"chroma", "open", "proposal", "overtaken"} : <<why, u>> \in cause

(* Without a write in between, every list of an unfiltered query holds as  *)
(* much as the collection does.                                            *)
HasRows(r) ==
    req[r].pc = "act" /\ req[r].kind = "query" /\ ~req[r].body.filtered
                      /\ "write" \notin req[r].met =>
        \A i \in DOMAIN req[r].rows :
            req[r].rows[i] = Smaller(req[r].body.k, Cardinality(recs[req[r].cid]))

Rows == \A r \in Req : HasRows(r)
-----------------------------------------------------------------------------
(* What the steps do to the requests.                                      *)

Others(r) == \A s \in Req \ {r} : req'[s] = req[s]

(* r is answered.                                                          *)
Ends(r, outcome) ==
    /\ req'[r] = Idle /\ Others(r)
    /\ \A a \in resp' : /\ a.pc = outcome /\ a.kind = req[r].kind /\ a.via = req[r].via
                        /\ a.target = req[r].target /\ a.met = req[r].met

(* r goes on, with some of its fields changed.                             *)
Goes(r, step, u, todo, rows) ==
    /\ req'[r] \in Request /\ Others(r) /\ resp' = {}
    /\ req'[r].pc = step /\ req'[r].cid = u /\ req'[r].todo = todo /\ req'[r].rows = rows
    /\ req'[r].kind = req[r].kind /\ req'[r].via = req[r].via /\ req'[r].target = req[r].target
    /\ req'[r].body = req[r].body /\ req'[r].met = req[r].met

LEMMA IdleFacts ==
    /\ Idle \in Request /\ Idle.kind = None /\ Idle.via = None /\ Idle.pc = "idle"
    /\ Idle.target = None /\ Idle.cid = None /\ Idle.body = None /\ Idle.todo = {}
    /\ Idle.rows = <<>> /\ Idle.met = {}
<1>1. <<>> \in Seq(Nat)
  OBVIOUS
<1>2. /\ None \in Kinds /\ None \in Vias /\ "idle" \in Pcs /\ None \in Targets
      /\ None \in BodyOr /\ {} \in Todos /\ <<>> \in Lists /\ {} \in Meets
  BY <1>1 DEF Kinds, Vias, Pcs, PcSteps, Targets, BodyOr, Todos, Lists, Meets
<1> QED BY <1>2 DEF Idle, Request

LEMMA Responds ==
    ASSUME NEW r \in Req, req \in [Req -> Request]
    PROVE  \A outcome \in Outcomes : Respond(r, outcome) =>
              Ends(r, outcome) /\ req' \in [Req -> Request] /\ resp' \subseteq Request
<1> SUFFICES ASSUME NEW outcome \in Outcomes, Respond(r, outcome)
             PROVE  Ends(r, outcome) /\ req' \in [Req -> Request] /\ resp' \subseteq Request
  OBVIOUS
<1>1. req'[r] = Idle /\ Others(r) /\ req' \in [Req -> Request]
  BY IdleFacts DEF Respond, Others
<1> DEFINE a == [Idle EXCEPT !.pc = outcome, !.kind = req[r].kind, !.via = req[r].via,
                             !.target = req[r].target, !.met = req[r].met]
<1>2. resp' = {a}
  BY DEF Respond
<1>3. /\ a \in Request /\ a.pc = outcome /\ a.kind = req[r].kind /\ a.via = req[r].via
      /\ a.target = req[r].target /\ a.met = req[r].met
  <2> DEFINE x(i, q) == [i EXCEPT !.pc = outcome, !.kind = q.kind, !.via = q.via,
                                  !.target = q.target, !.met = q.met]
  <2>1. outcome \in Pcs
    BY DEF Pcs
  <2> HIDE DEF a
  <2>2. ASSUME NEW i \in Request, NEW q \in Request
        PROVE  /\ x(i, q) \in Request /\ x(i, q).pc = outcome /\ x(i, q).kind = q.kind
               /\ x(i, q).via = q.via /\ x(i, q).target = q.target /\ x(i, q).met = q.met
    BY <2>1 DEF Request
  <2> QED BY <2>2, IdleFacts, Zenon DEF a
<1> QED BY <1>1, <1>2, <1>3 DEF Ends

(* r goes to another step and changes nothing else of itself.              *)
On(r, step) == Goes(r, step, req[r].cid, req[r].todo, req[r].rows)

Typed == req' \in [Req -> Request] /\ resp' \subseteq Request

LEMMA Moves ==
    ASSUME NEW r \in Req, req \in [Req -> Request]
    PROVE  /\ \A step \in PcSteps : Goto(r, step) => On(r, step) /\ Typed
           /\ \A step \in PcSteps, u \in Targets :
                 (req' = [req EXCEPT ![r].cid = u, ![r].pc = step] /\ resp' = {}) =>
                    Goes(r, step, u, req[r].todo, req[r].rows) /\ Typed
           /\ \A step \in PcSteps, todo \in Todos :
                 (req' = [req EXCEPT ![r].todo = todo, ![r].pc = step] /\ resp' = {}) =>
                    Goes(r, step, req[r].cid, todo, req[r].rows) /\ Typed
           /\ \A todo \in Todos :
                 (req' = [req EXCEPT ![r].todo = todo] /\ resp' = {}) =>
                    Goes(r, req[r].pc, req[r].cid, todo, req[r].rows) /\ Typed
           /\ \A rows \in Lists :
                 (req' = [req EXCEPT ![r].rows = rows] /\ resp' = {}) =>
                    Goes(r, req[r].pc, req[r].cid, req[r].todo, rows) /\ Typed
<1> USE DEF Others, Goes, On, Typed
<1>1. req[r] \in Request
  OBVIOUS
<1>2. \A step \in PcSteps : step \in Pcs
  BY DEF Pcs
<1>3. ASSUME NEW step \in PcSteps, Goto(r, step) PROVE On(r, step) /\ Typed
  <2>1. [req[r] EXCEPT !.pc = step] \in Request
    BY <1>1, <1>2 DEF Request
  <2> QED BY <1>1, <1>3, <2>1 DEF Goto, Request
<1>4. ASSUME NEW step \in PcSteps, NEW u \in Targets, resp' = {},
             req' = [req EXCEPT ![r].cid = u, ![r].pc = step]
      PROVE  Goes(r, step, u, req[r].todo, req[r].rows) /\ Typed
  <2> DEFINE q == [req[r] EXCEPT !.cid = u, !.pc = step]
  <2>1. q \in Request
    BY <1>1, <1>2 DEF Request
  <2>2. req' = [req EXCEPT ![r] = q]
    BY <1>4
  <2> QED BY <1>1, <1>4, <2>1, <2>2 DEF Request
<1>5. ASSUME NEW step \in PcSteps, NEW todo \in Todos, resp' = {},
             req' = [req EXCEPT ![r].todo = todo, ![r].pc = step]
      PROVE  Goes(r, step, req[r].cid, todo, req[r].rows) /\ Typed
  <2> DEFINE q == [req[r] EXCEPT !.todo = todo, !.pc = step]
  <2>1. q \in Request
    BY <1>1, <1>2 DEF Request
  <2>2. req' = [req EXCEPT ![r] = q]
    BY <1>5
  <2> QED BY <1>1, <1>5, <2>1, <2>2 DEF Request
<1>6. ASSUME NEW todo \in Todos, resp' = {}, req' = [req EXCEPT ![r].todo = todo]
      PROVE  Goes(r, req[r].pc, req[r].cid, todo, req[r].rows) /\ Typed
  <2>1. [req[r] EXCEPT !.todo = todo] \in Request
    BY <1>1 DEF Request
  <2> QED BY <1>1, <1>6, <2>1 DEF Request
<1>7. ASSUME NEW rows \in Lists, resp' = {}, req' = [req EXCEPT ![r].rows = rows]
      PROVE  Goes(r, req[r].pc, req[r].cid, req[r].todo, rows) /\ Typed
  <2>1. [req[r] EXCEPT !.rows = rows] \in Request
    BY <1>1 DEF Request
  <2> QED BY <1>1, <1>7, <2>1 DEF Request
<1> QED BY <1>3, <1>4, <1>5, <1>6, <1>7

(* What the engine accepts has columns as long as its ids: the code that   *)
(* indexes them by position does not panic.                                *)
LEMMA AcceptedNeverPanics ==
    ASSUME NEW kind \in WriteKinds, NEW u, NEW b \in Bodies, EngineAccepts(kind, u, b)
    PROVE  ~ Panics(kind, b)
<1>1. Len(b.ids) \in Nat /\ Len(b.embs) \in Nat
  BY ApiAssumption DEF Body
<1> QED BY <1>1 DEF WriteKinds, EngineAccepts, AddAccepts, UpsertAccepts, UpdateAccepts,
               SliceLengths, ColumnsMatch, Panics

(* Padding a list leaves a list.                                           *)
LEMMA PaddedList ==
    ASSUME NEW rows \in Lists
    PROVE  /\ Padded(rows) \in Lists /\ DOMAIN Padded(rows) = DOMAIN rows
           /\ \A i \in DOMAIN rows : Padded(rows)[i] = IF rows[i] < rows[1] THEN rows[1] ELSE rows[i]
<1>1. rows \in [1..Len(rows) -> Nat] /\ Len(rows) \in Nat /\ DOMAIN rows = 1..Len(rows)
  BY DEF Lists
<1>2. Padded(rows) \in [1..Len(rows) -> Nat]
  BY <1>1 DEF Padded
<1> QED BY <1>1, <1>2 DEF Padded, Lists

(* A query's next list, as an answer to one embedding.                     *)
LEMMA RowSize ==
    ASSUME Shapes, NEW u \in Cid, NEW b \in Bodies, NEW n \in RowSizes(u, b)
    PROVE  n \in Nat
<1>1. recs[u] \in SUBSET Rid /\ IsFiniteSet(Rid)
  BY ApiAssumption DEF Shapes, Records, Requests
<1>2. Cardinality(recs[u]) \in Nat
  BY <1>1, FS_Subset, FS_CardinalityType
<1>3. b.k \in Nat
  BY ApiAssumption DEF Body
<1> QED BY <1>2, <1>3 DEF RowSizes, Smaller

(* What each step does to its request and to the answers.                  *)
LEMMA Effects ==
    ASSUME Shapes, Members, NEW r \in Req
    PROVE
  /\ Resolve(r) => Typed /\ (\/ Bearers(req[r].target) = {} /\ Ends(r, "not_found")
                             \/ \E u \in Bearers(req[r].target) : Goes(r, "act", u, req[r].todo, req[r].rows))
  /\ GetCollection(r) => Typed /\ (\/ Bearers(req[r].target) = {} /\ Ends(r, "not_found")
                                   \/ On(r, "count"))
  /\ GetCollectionChroma(r) => Typed /\ (\/ Bearers(req[r].target) = {} /\ Ends(r, "not_found")
                                         \/ Ends(r, "ok"))
  /\ GetOrCreate(r) => Typed /\ (\/ Ends(r, "ok")
                                 \/ Bearers(req[r].target) = {} /\ On(r, "insert"))
  /\ CreateInsert(r) => Typed /\ (\/ Bearers(req[r].target) # {} /\ Ends(r, "exists") /\ UNCHANGED <<name, used>>
                                  \/ /\ Bearers(req[r].target) = {}
                                     /\ \E u \in Cid \ used : /\ name' = [name EXCEPT ![u] = req[r].target]
                                                              /\ used' = used \cup {u}
                                                              /\ Goes(r, "open", u, req[r].todo, req[r].rows))
  /\ CreateOpen(r) => Typed /\ (\/ req[r].via = "native" /\ On(r, "count")
                                \/ Ends(r, "created") /\ <<"chroma", req[r].cid>> \in cause')
  /\ CreateOpenFails(r) => Typed /\ Ends(r, "io")
  /\ Count(r) => Typed /\ (\/ req[r].cid \notin served /\ Ends(r, "not_found")
                           \/ req[r].cid \in served /\ req[r].kind = "create" /\ On(r, "propose")
                           \/ req[r].kind # "create" /\ Ends(r, "ok"))
  /\ ProposeAdd(r) => Typed /\ Ends(r, "created")
  /\ DeleteChroma(r) => Typed /\ (\/ Bearers(req[r].target) = {} /\ Ends(r, "not_found")
                                  \/ \E u \in Bearers(req[r].target) : Goes(r, "erase", u, req[r].todo, req[r].rows))
  /\ Erase(r) => Typed /\ (\/ name' = [name EXCEPT ![req[r].cid] = None] /\ On(r, "unmap")
                           \/ Ends(r, "missing") /\ name' = name)
  /\ Unmap(r) => Typed /\ On(r, "propose")
  /\ ProposeRemove(r) => Typed /\ Ends(r, "ok")
  /\ ProposeFails(r) => Typed /\ Ends(r, "unreplicated")
  /\ ListChroma(r) => Typed /\ Ends(r, "ok")
  /\ ListScan(r) => Typed /\ Goes(r, "listing", req[r].cid, Catalogued, req[r].rows)
  /\ ListNext(r) => Typed /\ (\/ Ends(r, "ok")
                              \/ \E u \in req[r].todo : Goes(r, "listing", req[r].cid, req[r].todo \ {u}, req[r].rows)
                              \/ (\E u \in req[r].todo : u \notin served) /\ Ends(r, "not_found"))
  /\ Write(r) => Typed /\ (\/ req[r].cid \notin served /\ Ends(r, "not_found")
                           \/ \E outcome \in {"invalid", "ok"} : Ends(r, outcome))
  /\ QueryNext(r) => Typed /\ (\/ req[r].cid \notin served /\ Ends(r, "not_found")
                               \/ Ends(r, "invalid")
                               \/ \E n \in RowSizes(req[r].cid, req[r].body) :
                                     Goes(r, "act", req[r].cid, req[r].todo, Append(req[r].rows, n))
                               \/ req'[r] = Idle /\ Others(r))
  /\ GetRecords(r) => Typed /\ (\/ req[r].cid \notin served /\ Ends(r, "not_found")
                                \/ Ends(r, "ok"))
  /\ GetRecordsChroma(r) => Typed /\ (\/ req[r].cid \notin served /\ Ends(r, "not_found")
                                      \/ Ends(r, "ok"))
  /\ CountRecords(r) => Typed /\ (\/ req[r].cid \notin served /\ Ends(r, "not_found")
                                  \/ Ends(r, "ok"))
  /\ AddLearner(r) => Typed /\ \E outcome \in {"ok", "not_leader"} : Ends(r, outcome)
  /\ RemoveMember(r) => Typed /\ (\/ Ends(r, "invalid")
                                  \/ /\ (voters \cup learners) \ {req[r].target} # {}
                                     /\ Goes(r, "change", req[r].cid, (voters \cup learners) \ {req[r].target}, req[r].rows))
  /\ ChangeMembership(r) => Typed /\ \E outcome \in {"ok", "not_leader"} : Ends(r, outcome)
<1> USE Responds, Moves DEF Typed
<1>1. req \in [Req -> Request] /\ req[r] \in Request
  BY DEF Shapes, Records, Requests
<1>2. /\ req[r].cid \in Targets /\ req[r].todo \in Todos /\ req[r].rows \in Lists
      /\ \A u \in Cid : u \in Targets
      /\ \A t : Bearers(t) \subseteq Cid
      /\ Catalogued \in Todos
  BY <1>1 DEF Request, Targets, Todos, Bearers, Catalogued
<1>3. ASSUME Resolve(r)
      PROVE  Typed /\ (\/ Bearers(req[r].target) = {} /\ Ends(r, "not_found")
                       \/ \E u \in Bearers(req[r].target) : Goes(r, "act", u, req[r].todo, req[r].rows))
  BY <1>1, <1>2, <1>3 DEF Resolve, PcSteps, Outcomes
<1>4. ASSUME GetCollection(r)
      PROVE  Typed /\ (\/ Bearers(req[r].target) = {} /\ Ends(r, "not_found")
                       \/ On(r, "count"))
  BY <1>1, <1>2, <1>4 DEF GetCollection, PcSteps, Outcomes
<1>5. ASSUME GetCollectionChroma(r)
      PROVE  Typed /\ (\/ Bearers(req[r].target) = {} /\ Ends(r, "not_found")
                       \/ Ends(r, "ok"))
  BY <1>1, <1>2, <1>5 DEF GetCollectionChroma, PcSteps, Outcomes
<1>6. ASSUME GetOrCreate(r)
      PROVE  Typed /\ (\/ Ends(r, "ok")
                       \/ Bearers(req[r].target) = {} /\ On(r, "insert"))
  BY <1>1, <1>2, <1>6 DEF GetOrCreate, PcSteps, Outcomes
<1>7. ASSUME CreateInsert(r)
      PROVE  Typed /\ (\/ Bearers(req[r].target) # {} /\ Ends(r, "exists") /\ UNCHANGED <<name, used>>
                       \/ /\ Bearers(req[r].target) = {}
                          /\ \E u \in Cid \ used : /\ name' = [name EXCEPT ![u] = req[r].target]
                                                   /\ used' = used \cup {u}
                                                   /\ Goes(r, "open", u, req[r].todo, req[r].rows))
  BY <1>1, <1>2, <1>7 DEF CreateInsert, PcSteps, Outcomes
<1>8. ASSUME CreateOpen(r)
      PROVE  Typed /\ (\/ req[r].via = "native" /\ On(r, "count")
                       \/ Ends(r, "created") /\ <<"chroma", req[r].cid>> \in cause')
  BY <1>1, <1>2, <1>8 DEF CreateOpen, PcSteps, Outcomes
<1>9. ASSUME CreateOpenFails(r) PROVE Typed /\ Ends(r, "io")
  BY <1>1, <1>2, <1>9 DEF CreateOpenFails, PcSteps, Outcomes
<1>10. ASSUME Count(r)
      PROVE  Typed /\ (\/ req[r].cid \notin served /\ Ends(r, "not_found")
                       \/ req[r].cid \in served /\ req[r].kind = "create" /\ On(r, "propose")
                       \/ req[r].kind # "create" /\ Ends(r, "ok"))
  BY <1>1, <1>2, <1>10 DEF Count, PcSteps, Outcomes
<1>11. ASSUME ProposeAdd(r) PROVE Typed /\ Ends(r, "created")
  BY <1>1, <1>2, <1>11 DEF ProposeAdd, PcSteps, Outcomes
<1>12. ASSUME DeleteChroma(r)
      PROVE  Typed /\ (\/ Bearers(req[r].target) = {} /\ Ends(r, "not_found")
                       \/ \E u \in Bearers(req[r].target) : Goes(r, "erase", u, req[r].todo, req[r].rows))
  BY <1>1, <1>2, <1>12 DEF DeleteChroma, PcSteps, Outcomes
<1>13. ASSUME Erase(r)
      PROVE  Typed /\ (\/ name' = [name EXCEPT ![req[r].cid] = None] /\ On(r, "unmap")
                       \/ Ends(r, "missing") /\ name' = name)
  BY <1>1, <1>2, <1>13 DEF Erase, PcSteps, Outcomes
<1>14. ASSUME Unmap(r) PROVE Typed /\ On(r, "propose")
  BY <1>1, <1>2, <1>14 DEF Unmap, PcSteps, Outcomes
<1>15. ASSUME ProposeRemove(r) PROVE Typed /\ Ends(r, "ok")
  BY <1>1, <1>2, <1>15 DEF ProposeRemove, PcSteps, Outcomes
<1>16. ASSUME ProposeFails(r) PROVE Typed /\ Ends(r, "unreplicated")
  BY <1>1, <1>2, <1>16 DEF ProposeFails, PcSteps, Outcomes
<1>17. ASSUME ListChroma(r) PROVE Typed /\ Ends(r, "ok")
  BY <1>1, <1>2, <1>17, SMTT(40) DEF ListChroma, PcSteps, Outcomes
<1>18. ASSUME ListScan(r) PROVE Typed /\ Goes(r, "listing", req[r].cid, Catalogued, req[r].rows)
  BY <1>1, <1>2, <1>18, Zenon DEF ListScan, PcSteps, Outcomes
<1>19. ASSUME ListNext(r)
      PROVE  Typed /\ (\/ Ends(r, "ok")
                       \/ \E u \in req[r].todo : Goes(r, "listing", req[r].cid, req[r].todo \ {u}, req[r].rows)
                       \/ (\E u \in req[r].todo : u \notin served) /\ Ends(r, "not_found"))
  <2>1. \A u \in req[r].todo : req[r].todo \ {u} \in Todos
    BY <1>2 DEF Todos
  <2>2. CASE Respond(r, "ok")
    BY <1>1, <2>2 DEF Outcomes
  <2>3. ASSUME NEW u \in req[r].todo,
               IF u \in served
               THEN req' = [req EXCEPT ![r].todo = @ \ {u}] /\ resp' = {}
               ELSE Respond(r, "not_found")
        PROVE  \/ Typed /\ Goes(r, "listing", req[r].cid, req[r].todo \ {u}, req[r].rows)
               \/ Typed /\ u \notin served /\ Ends(r, "not_found")
    <3>1. CASE u \notin served
      BY <1>1, <2>3, <3>1 DEF Outcomes
    <3>2. CASE u \in served
      <4>1. req' = [req EXCEPT ![r].todo = req[r].todo \ {u}] /\ resp' = {}
        BY <1>1, <2>3, <3>2
      <4>2. Goes(r, req[r].pc, req[r].cid, req[r].todo \ {u}, req[r].rows) /\ Typed
        BY <1>1, <2>1, <4>1, Zenon
      <4> QED BY <1>19, <4>2 DEF ListNext
    <3> QED BY <3>1, <3>2
  <2>4. \/ Respond(r, "ok")
        \/ \E u \in req[r].todo :
              IF u \in served
              THEN req' = [req EXCEPT ![r].todo = @ \ {u}] /\ resp' = {}
              ELSE Respond(r, "not_found")
    BY <1>19 DEF ListNext
  <2> QED BY <2>2, <2>3, <2>4
<1>20. ASSUME Write(r)
      PROVE  Typed /\ (\/ req[r].cid \notin served /\ Ends(r, "not_found")
                       \/ \E outcome \in {"invalid", "ok"} : Ends(r, outcome))
  <2>1. req[r].body \in Bodies
    BY <1>20 DEF Write, Shapes, Records, Requests, Carries
  <2>2. ~ Panics(req[r].kind, req[r].body) \/ ~ EngineAccepts(req[r].kind, req[r].cid, req[r].body)
    BY <1>20, <2>1, AcceptedNeverPanics, SMTT(40) DEF Write
  <2> QED BY <1>1, <1>2, <2>2, <1>20 DEF Write, Outcomes
<1>21. ASSUME QueryNext(r)
      PROVE  Typed /\ (\/ req[r].cid \notin served /\ Ends(r, "not_found")
                       \/ Ends(r, "invalid")
                       \/ \E n \in RowSizes(req[r].cid, req[r].body) :
                             Goes(r, "act", req[r].cid, req[r].todo, Append(req[r].rows, n))
                       \/ req'[r] = Idle /\ Others(r))
  <2>1. req[r].body \in Bodies /\ req[r].cid \in Cid
    BY <1>21, Zenon DEF QueryNext, Shapes, Records, Requests, Carries, OnOne
  <2>2. \A n \in RowSizes(req[r].cid, req[r].body) : Append(req[r].rows, n) \in Lists
    BY <1>2, <2>1, RowSize DEF Lists
  <2>3. ASSUME NEW n \in RowSizes(req[r].cid, req[r].body), resp' = {},
               req' = [req EXCEPT ![r].rows = Append(req[r].rows, n)]
        PROVE  Typed /\ Goes(r, "act", req[r].cid, req[r].todo, Append(req[r].rows, n))
    <3>1. req[r].pc = "act"
      BY <1>21, Zenon DEF QueryNext
    <3>2. /\ Goes(r, req[r].pc, req[r].cid, req[r].todo, Append(req[r].rows, n))
          /\ Typed
      BY <1>1, <2>2, <2>3, Zenon
    <3> QED BY <3>1, <3>2, SMTT(40)
  <2>4. ASSUME NEW n \in RowSizes(req[r].cid, req[r].body), req' = [req EXCEPT ![r] = Idle],
               resp' = {[req[r] EXCEPT !.pc = "ok",
                                       !.rows = Shown(req[r].via, Append(req[r].rows, n))]}
        PROVE  Typed /\ req'[r] = Idle /\ Others(r)
    <3>1. Shown(req[r].via, Append(req[r].rows, n)) \in Lists
      BY <2>2, PaddedList DEF Shown
    <3>2. "ok" \in Pcs
      BY DEF Pcs, Outcomes
    <3>3. [req[r] EXCEPT !.pc = "ok", !.rows = Shown(req[r].via, Append(req[r].rows, n))] \in Request
      BY <1>1, <3>1, <3>2 DEF Request
    <3> QED BY <1>1, <2>4, <3>3, IdleFacts, Zenon DEF Others
  <2>5. \/ req[r].cid \notin served /\ Respond(r, "not_found")
        \/ Respond(r, "invalid")
        \/ \E n \in RowSizes(req[r].cid, req[r].body) :
              \/ req' = [req EXCEPT ![r].rows = Append(req[r].rows, n)] /\ resp' = {}
              \/ /\ req' = [req EXCEPT ![r] = Idle]
                 /\ resp' = {[req[r] EXCEPT !.pc = "ok",
                                            !.rows = Shown(req[r].via, Append(req[r].rows, n))]}
    BY <1>21, Zenon DEF QueryNext
  <2> QED BY <1>1, <2>3, <2>4, <2>5, ZenonT(60) DEF Outcomes
<1>22. ASSUME GetRecords(r)
      PROVE  Typed /\ (\/ req[r].cid \notin served /\ Ends(r, "not_found")
                       \/ Ends(r, "ok"))
  BY <1>1, <1>2, <1>22 DEF GetRecords, PcSteps, Outcomes
<1>23. ASSUME GetRecordsChroma(r)
      PROVE  Typed /\ (\/ req[r].cid \notin served /\ Ends(r, "not_found")
                       \/ Ends(r, "ok"))
  BY <1>1, <1>2, <1>23 DEF GetRecordsChroma, PcSteps, Outcomes
<1>24. ASSUME CountRecords(r)
      PROVE  Typed /\ (\/ req[r].cid \notin served /\ Ends(r, "not_found")
                       \/ Ends(r, "ok"))
  BY <1>1, <1>2, <1>24 DEF CountRecords, PcSteps, Outcomes
<1>25. ASSUME AddLearner(r) PROVE Typed /\ \E outcome \in {"ok", "not_leader"} : Ends(r, outcome)
  BY <1>1, <1>2, <1>25 DEF AddLearner, PcSteps, Outcomes
<1>26. ASSUME RemoveMember(r)
      PROVE  Typed /\ (\/ Ends(r, "invalid")
                       \/ /\ (voters \cup learners) \ {req[r].target} # {}
                          /\ Goes(r, "change", req[r].cid, (voters \cup learners) \ {req[r].target}, req[r].rows))
  <2>1. (voters \cup learners) \ {req[r].target} \in Todos
    BY DEF Members, Todos
  <2> QED BY <1>1, <1>2, <2>1, <1>26 DEF RemoveMember, PcSteps, Outcomes
<1>27. ASSUME ChangeMembership(r) PROVE Typed /\ \E outcome \in {"ok", "not_leader"} : Ends(r, outcome)
  BY <1>1, <1>2, <1>27 DEF ChangeMembership, PcSteps, Outcomes
<1> QED BY <1>3, <1>4, <1>5, <1>6, <1>7, <1>8, <1>9, <1>10, <1>11, <1>12,
    <1>13, <1>14, <1>15, <1>16, <1>17, <1>18, <1>19, <1>20, <1>21, <1>22,
    <1>23, <1>24, <1>25, <1>26, <1>27

(* What a client may ask for.                                              *)
Proper(kind, via, target, b) ==
    /\ kind \in AllKinds /\ via \in {"native", "chroma"} /\ target \in Targets /\ b \in BodyOr
    /\ kind \in WriteKinds \cup {"query", "get"} => b \in Bodies
    /\ kind \in Creates => target \in Name
    /\ kind = "get_or_create" => via = "chroma"
    /\ kind \in MemberKinds => target \in Node /\ via = "native"
    /\ via = "native" /\ kind \in OnRecords \cup {"remove", "get_coll"} => target \in used

(* A request of that kind has come in; the others have met it.             *)
Arrives(r, kind, via, target, b) ==
    /\ req[r] = Idle /\ resp' = {} /\ Accepts(via, kind, b)
    /\ req'[r].kind = kind /\ req'[r].via = via /\ req'[r].target = target /\ req'[r].body = b
    /\ req'[r].pc = FirstStep(kind, via) /\ req'[r].todo = {} /\ req'[r].rows = <<>>
    /\ req'[r].cid = (IF via = "native" THEN target ELSE None)
    /\ \A s \in Running : Disturbance(req[s].kind) \subseteq req'[r].met
    /\ \A s \in Req \ {r} :
          /\ req'[s].kind = req[s].kind /\ req'[s].via = req[s].via /\ req'[s].pc = req[s].pc
          /\ req'[s].target = req[s].target /\ req'[s].cid = req[s].cid
          /\ req'[s].body = req[s].body /\ req'[s].todo = req[s].todo
          /\ req'[s].rows = req[s].rows /\ req[s].met \subseteq req'[s].met
          /\ s \in Running => Disturbance(kind) \subseteq req'[s].met
          /\ s \notin Running => req'[s] = req[s]

LEMMA Disturbances == \A kind : Disturbance(kind) \in Meets
BY DEF Disturbance, Meets

LEMMA Sends ==
    ASSUME Shapes, NEW r \in Req, SendNative(r) \/ SendChroma(r) \/ SendInternal(r)
    PROVE  \E kind, via, target, b : Proper(kind, via, target, b) /\ Accept(r, kind, via, target, b)
<1>1. used \subseteq Cid /\ Name \subseteq Targets /\ Cid \subseteq Targets /\ Node \subseteq Targets
      /\ None \in Targets /\ None \in BodyOr /\ Bodies \subseteq BodyOr
  BY DEF Shapes, Records, Requests, Targets, BodyOr
<1> USE DEF Proper, AllKinds, CollectionKinds, WriteKinds, ReadKinds, MemberKinds, Creates,
            OnRecords, BodyKinds
<1>2. CASE SendNative(r)
  BY <1>1, <1>2 DEF SendNative
<1>3. CASE SendChroma(r)
  BY <1>1, <1>3 DEF SendChroma
<1>4. CASE SendInternal(r)
  BY <1>1, <1>4 DEF SendInternal
<1> QED BY <1>2, <1>3, <1>4

LEMMA FirstSteps ==
    ASSUME NEW kind \in AllKinds, NEW via
    PROVE  FirstStep(kind, via) \in PcSteps /\ FirstStep(kind, via) # "idle"
BY DEF FirstStep, PcSteps, AllKinds, CollectionKinds, WriteKinds, ReadKinds, MemberKinds

(* What Accept does.                                                       *)
LEMMA Accepted ==
    ASSUME Shapes, NEW r \in Req, NEW kind, NEW via, NEW target, NEW b,
           Proper(kind, via, target, b), Accept(r, kind, via, target, b)
    PROVE  /\ Typed
           /\ \/ Arrives(r, kind, via, target, b)
              \/ req' = req /\ \A a \in resp' : a.pc = "invalid" /\ a.kind = None
<1> DEFINE met == UNION {Disturbance(req[s].kind) : s \in Running}
           new == [Idle EXCEPT !.kind = kind, !.via = via, !.target = target,
                               !.pc = FirstStep(kind, via), !.body = b,
                               !.cid = IF via = "native" THEN target ELSE None, !.met = met]
           next(s) == IF s = r THEN new
                      ELSE IF s \in Running THEN [req[s] EXCEPT !.met = @ \cup Disturbance(kind)]
                      ELSE req[s]
<1>1. req \in [Req -> Request] /\ AtStep(req[r])
  BY DEF Shapes, Records, Requests
<1>2. req[r] = Idle
  BY <1>1, Zenon DEF Accept, AtStep, Fits
<1>3. /\ new \in Request /\ new.kind = kind /\ new.via = via /\ new.target = target
      /\ new.pc = FirstStep(kind, via) /\ new.body = b /\ new.todo = {} /\ new.rows = <<>>
      /\ new.cid = (IF via = "native" THEN target ELSE None) /\ new.met = met
  <2>1. met \in Meets
    BY Disturbances DEF Meets
  <2>2. /\ FirstStep(kind, via) \in Pcs /\ kind \in Kinds /\ via \in Vias /\ target \in Targets
        /\ None \in Targets /\ b \in BodyOr
    BY FirstSteps DEF Pcs, Proper, Kinds, Vias, Targets
  <2> DEFINE m == met
             p == FirstStep(kind, via)
             c == IF via = "native" THEN target ELSE None
             x(i) == [i EXCEPT !.kind = kind, !.via = via, !.target = target, !.pc = p,
                               !.body = b, !.cid = c, !.met = m]
  <2>3. new = x(Idle) /\ m \in Meets /\ p \in Pcs /\ c \in Targets
    BY <2>1, <2>2
  <2> HIDE DEF m, p, c
  <2>4. ASSUME NEW i \in Request
        PROVE  /\ x(i) \in Request /\ x(i).kind = kind /\ x(i).via = via /\ x(i).target = target
               /\ x(i).pc = p /\ x(i).body = b /\ x(i).todo = i.todo /\ x(i).rows = i.rows
               /\ x(i).cid = c /\ x(i).met = m
    BY <2>2, <2>3 DEF Request
  <2> HIDE DEF x
  <2> QED BY <2>3, <2>4, IdleFacts DEF m, p, c
<1> HIDE DEF new, met
<1>4. ASSUME NEW s \in Req, s # r
      PROVE  /\ next(s) \in Request
             /\ next(s).kind = req[s].kind /\ next(s).via = req[s].via /\ next(s).pc = req[s].pc
             /\ next(s).target = req[s].target /\ next(s).cid = req[s].cid
             /\ next(s).body = req[s].body /\ next(s).todo = req[s].todo
             /\ next(s).rows = req[s].rows /\ req[s].met \subseteq next(s).met
             /\ s \in Running => Disturbance(kind) \subseteq next(s).met
             /\ s \notin Running => next(s) = req[s]
  <2>1. req[s] \in Request
    BY <1>1
  <2>2. req[s].met \cup Disturbance(kind) \in Meets
    BY <2>1, Disturbances DEF Request, Meets
  <2> QED BY <1>4, <2>1, <2>2 DEF Request
<1>5. ASSUME Accepts(via, kind, b)
      PROVE  Typed /\ Arrives(r, kind, via, target, b)
  <2>1. req' = [s \in Req |-> next(s)] /\ resp' = {}
    BY <1>5, Zenon DEF Accept, new, met
  <2>2. next(r) = new
    OBVIOUS
  <2> HIDE DEF next
  <2>3. req' \in [Req -> Request]
    BY <1>3, <1>4, <2>1, <2>2
  <2> QED BY <1>2, <1>3, <1>4, <1>5, <2>1, <2>2, <2>3, SMTT(40) DEF Typed, Arrives, met
<1>6. ASSUME ~ Accepts(via, kind, b)
      PROVE  Typed /\ req' = req /\ \A a \in resp' : a.pc = "invalid" /\ a.kind = None
  <2>1. req' = req /\ resp' = {[Idle EXCEPT !.pc = "invalid"]}
    BY <1>6 DEF Accept
  <2>2. "invalid" \in Pcs
    BY DEF Pcs, Outcomes
  <2>3. \A i \in Request : [i EXCEPT !.pc = "invalid"] \in Request
                           /\ [i EXCEPT !.pc = "invalid"].pc = "invalid"
                           /\ [i EXCEPT !.pc = "invalid"].kind = i.kind
    BY <2>2 DEF Request
  <2> QED BY <1>1, <2>1, <2>3, IdleFacts DEF Typed
<1> QED BY <1>5, <1>6

LEMMA IdleCarries == AtStep(Idle) /\ Carries(Idle) /\ Carries(Idle)'
BY IdleFacts DEF AtStep, Carries, ById, OnOne, WriteKinds, Creates, MemberKinds, OnRecords,
   ReadKinds, None

(* It is enough to look at the request that makes the step.                *)
LEMMA KeepsRequests ==
    ASSUME Requests, Typed, used \subseteq used', NEW r \in Req, Others(r),
           (AtStep(req[r]) /\ Carries(req[r]))'
    PROVE  Requests'
<1>1. ASSUME NEW s \in Req PROVE (AtStep(req[s]) /\ Carries(req[s]))'
  <2>1. CASE s = r
    BY <2>1
  <2>2. CASE s # r
    <3>1. req'[s] = req[s]
      BY <2>2 DEF Others
    <3> QED BY <3>1 DEF Requests, AtStep, Carries, ById
  <2> QED BY <2>1, <2>2
<1> QED BY <1>1 DEF Requests, Typed

(* An answered request is forgotten.                                       *)
LEMMA EndsRequests ==
    ASSUME Requests, Typed, used \subseteq used', NEW r \in Req, Others(r), req'[r] = Idle
    PROVE  Requests'
BY IdleCarries, KeepsRequests

(* A request may go on to a step that fits it.                             *)
LEMMA GoesRequests ==
    ASSUME Requests, Typed, used \subseteq used', NEW r \in Req, req[r].pc # "idle",
           NEW step, NEW u, NEW todo, NEW rows, Goes(r, step, u, todo, rows),
           Fits(step, req[r].kind, req[r].via, todo),
           u = req[r].cid \/ ~ ById(req[r]),
           step \in OnOne => u \in used', step = "listing" => todo \subseteq used',
           step # "resolve"
    PROVE  Requests'
<1>1. AtStep(req[r])'
  BY DEF Goes, AtStep
<1>2. Carries(req[r])
  BY DEF Requests
<1>3. ById(req'[r]) <=> ById(req[r])
  BY DEF Goes, ById
<1>4. Carries(req[r])'
  BY <1>2, <1>3 DEF Goes, Carries
<1> QED BY <1>1, <1>4, KeepsRequests DEF Goes

(* Every step leaves its request at a step of its handler, with what that  *)
(* step needs.                                                             *)
LEMMA RequestsStep == Shapes /\ Members /\ [Next]_vars => Requests'
<1> SUFFICES ASSUME Shapes, Members, [Next]_vars PROVE Requests'
  OBVIOUS
<1>1. ASSUME NEW r \in Req, NEW kind, NEW via, NEW target, NEW b,
             Proper(kind, via, target, b), Accept(r, kind, via, target, b)
      PROVE  Requests'
  <2>1. Typed /\ used' = used
    BY <1>1, Accepted, Zenon DEF Accept, engine
  <2>2. CASE req' = req
    <3>1. ASSUME NEW s \in Req PROVE (AtStep(req[s]) /\ Carries(req[s]))'
      <4>1. AtStep(req[s]) /\ Carries(req[s])
        BY DEF Shapes, Requests
      <4> QED BY <2>1, <2>2, <4>1 DEF AtStep, Carries, ById
    <3> QED BY <2>1, <3>1 DEF Typed, Requests
  <2>3. CASE Arrives(r, kind, via, target, b)
    <3>1. (AtStep(req[r]))'
      BY <1>1, <2>3 DEF Arrives, Proper, AtStep, Fits, FirstStep, PcSteps, OnRecords, Creates, CollectionKinds, WriteKinds, ReadKinds, MemberKinds, AllKinds
    <3>2. (Carries(req[r]))'
      BY <1>1, <2>1, <2>3 DEF Arrives, Proper, Carries, ById, OnOne, FirstStep, OnRecords, Creates,
         None, CollectionKinds, WriteKinds, ReadKinds, MemberKinds, AllKinds
    <3>3. ASSUME NEW s \in Req, s # r PROVE (AtStep(req[s]) /\ Carries(req[s]))'
      <4>1. AtStep(req[s]) /\ Carries(req[s])
        BY DEF Shapes, Requests
      <4>2. CASE s \notin Running
        BY <2>1, <2>3, <3>3, <4>1, <4>2 DEF Arrives, AtStep, Carries, ById
      <4>3. CASE s \in Running
        <5>1. /\ req'[s].kind = req[s].kind /\ req'[s].via = req[s].via /\ req'[s].pc = req[s].pc
              /\ req'[s].target = req[s].target /\ req'[s].cid = req[s].cid
              /\ req'[s].body = req[s].body /\ req'[s].todo = req[s].todo
              /\ req'[s].rows = req[s].rows
          BY <2>3, <3>3 DEF Arrives
        <5>2. req[s] # Idle
          BY <4>3, IdleFacts DEF Running
        <5>3. AtStep(req'[s])
          BY <4>1, <5>1, <5>2 DEF AtStep
        <5>4. ById(req'[s]) <=> ById(req[s])
          BY <5>1 DEF ById
        <5>5. Carries(req[s])'
          BY <2>1, <4>1, <5>1, <5>4, SMTT(40) DEF Carries
        <5> QED BY <5>3, <5>5
      <4> QED BY <4>2, <4>3
    <3> QED BY <2>1, <3>1, <3>2, <3>3 DEF Typed, Requests
  <2> QED BY <1>1, <2>2, <2>3, Accepted, SMTT(40)
<1>2. ASSUME NEW r \in Req, Resolve(r) PROVE Requests'
  <2>1. Typed /\ used' = used /\ req[r].pc = "resolve"
    BY <1>2, Effects DEF Resolve, engine

  <2>2. CASE req'[r] = Idle /\ Others(r)
    BY <2>1, <2>2, EndsRequests DEF Shapes
  <2>3. AtStep(req[r]) /\ Carries(req[r]) /\ req[r] # Idle
    BY <2>1, IdleFacts DEF Shapes, Requests
  <2>4. Fits("resolve", req[r].kind, req[r].via, req[r].todo)
    BY <2>1, <2>3 DEF AtStep
  <2>5. ASSUME NEW u \in Bearers(req[r].target), Goes(r, "act", u, req[r].todo, req[r].rows)
        PROVE  Requests'
    <3>1. Fits("act", req[r].kind, req[r].via, req[r].todo)
      BY <1>2, <2>1, <2>3, <2>4, <2>5 DEF Resolve, Fits, Carries, PcSteps, OnRecords, MemberKinds, Creates, WriteKinds,
         ReadKinds
    <3>2. u = req[r].cid \/ ~ ById(req[r])
      BY <1>2, <2>3, <2>4 DEF Resolve, Fits, ById, Creates, OnRecords, WriteKinds, ReadKinds
    <3>3. "act" \in OnOne => u \in used'
      BY <1>2, <2>1, <2>3, <2>4, <2>5 DEF Resolve, Fits, Carries, ById, OnOne, Shapes, Records, Bearers, Catalogued
    <3>4. "act" = "listing" => req[r].todo \subseteq used'
      BY <1>2, <2>1, <2>3, <2>4 DEF Resolve, Carries, Shapes, Records, Bearers, Catalogued
    <3> QED BY <2>1, <2>5, <3>1, <3>2, <3>3, <3>4, GoesRequests DEF Shapes
  <2> QED BY <1>2, <2>2, <2>5, Effects DEF Resolve, Ends, On
<1>3. ASSUME NEW r \in Req, GetCollection(r) PROVE Requests'
  <2>1. Typed /\ used' = used /\ req[r].pc = "show"
    BY <1>3, Effects DEF GetCollection, engine

  <2>2. CASE req'[r] = Idle /\ Others(r)
    BY <2>1, <2>2, EndsRequests DEF Shapes
  <2>3. AtStep(req[r]) /\ Carries(req[r]) /\ req[r] # Idle
    BY <2>1, IdleFacts DEF Shapes, Requests
  <2>4. Fits("show", req[r].kind, req[r].via, req[r].todo)
    BY <2>1, <2>3 DEF AtStep
  <2>5. ASSUME Goes(r, "count", req[r].cid, req[r].todo, req[r].rows)
        PROVE  Requests'
    <3>1. Fits("count", req[r].kind, req[r].via, req[r].todo)
      BY <1>3, <2>1, <2>3, <2>4, <2>5 DEF GetCollection, Fits, Carries, PcSteps, OnRecords, MemberKinds, Creates, WriteKinds,
         ReadKinds
    <3>2. req[r].cid = req[r].cid \/ ~ ById(req[r])
      BY <1>3, <2>3, <2>4 DEF GetCollection, Fits, ById, Creates, OnRecords, WriteKinds, ReadKinds
    <3>3. "count" \in OnOne => req[r].cid \in used'
      BY <1>3, <2>1, <2>3, <2>4, <2>5 DEF GetCollection, Fits, Carries, ById, OnOne
    <3>4. "count" = "listing" => req[r].todo \subseteq used'
      BY <1>3, <2>1, <2>3, <2>4 DEF GetCollection, Carries
    <3> QED BY <2>1, <2>5, <3>1, <3>2, <3>3, <3>4, GoesRequests DEF Shapes
  <2> QED BY <1>3, <2>2, <2>5, Effects DEF GetCollection, Ends, On
<1>4. ASSUME NEW r \in Req, GetCollectionChroma(r) PROVE Requests'
  <2>1. Typed /\ used' = used /\ req[r].pc = "show"
    BY <1>4, Effects DEF GetCollectionChroma, engine

  <2>2. req'[r] = Idle /\ Others(r)
    BY <1>4, Effects DEF Ends
  <2> QED BY <2>1, <2>2, EndsRequests DEF Shapes
<1>5. ASSUME NEW r \in Req, GetOrCreate(r) PROVE Requests'
  <2>1. Typed /\ used' = used /\ req[r].pc = "lookup"
    BY <1>5, Effects DEF GetOrCreate, engine

  <2>2. CASE req'[r] = Idle /\ Others(r)
    BY <2>1, <2>2, EndsRequests DEF Shapes
  <2>3. AtStep(req[r]) /\ Carries(req[r]) /\ req[r] # Idle
    BY <2>1, IdleFacts DEF Shapes, Requests
  <2>4. Fits("lookup", req[r].kind, req[r].via, req[r].todo)
    BY <2>1, <2>3 DEF AtStep
  <2>5. ASSUME Goes(r, "insert", req[r].cid, req[r].todo, req[r].rows)
        PROVE  Requests'
    <3>1. Fits("insert", req[r].kind, req[r].via, req[r].todo)
      BY <1>5, <2>1, <2>3, <2>4, <2>5 DEF GetOrCreate, Fits, Carries, PcSteps, OnRecords, MemberKinds, Creates, WriteKinds,
         ReadKinds
    <3>2. req[r].cid = req[r].cid \/ ~ ById(req[r])
      BY <1>5, <2>3, <2>4 DEF GetOrCreate, Fits, ById, Creates, OnRecords, WriteKinds, ReadKinds
    <3>3. "insert" \in OnOne => req[r].cid \in used'
      BY <1>5, <2>1, <2>3, <2>4, <2>5 DEF GetOrCreate, Fits, Carries, ById, OnOne
    <3>4. "insert" = "listing" => req[r].todo \subseteq used'
      BY <1>5, <2>1, <2>3, <2>4, SMTT(40) DEF GetOrCreate, Carries
    <3> QED BY <2>1, <2>5, <3>1, <3>2, <3>3, <3>4, GoesRequests DEF Shapes
  <2> QED BY <1>5, <2>2, <2>5, Effects DEF GetOrCreate, Ends, On
<1>6. ASSUME NEW r \in Req, CreateInsert(r) PROVE Requests'
  <2>1. Typed /\ used \subseteq used' /\ req[r].pc = "insert"
    BY <1>6, Effects DEF CreateInsert

  <2>2. CASE req'[r] = Idle /\ Others(r)
    BY <2>1, <2>2, EndsRequests DEF Shapes
  <2>3. AtStep(req[r]) /\ Carries(req[r]) /\ req[r] # Idle
    BY <2>1, IdleFacts DEF Shapes, Requests
  <2>4. Fits("insert", req[r].kind, req[r].via, req[r].todo)
    BY <2>1, <2>3 DEF AtStep
  <2>5. ASSUME NEW u \in Cid, used' = used \cup {u}, Goes(r, "open", u, req[r].todo, req[r].rows)
        PROVE  Requests'
    <3>1. Fits("open", req[r].kind, req[r].via, req[r].todo)
      BY <1>6, <2>1, <2>3, <2>4, <2>5 DEF CreateInsert, Fits, Carries, PcSteps, OnRecords, MemberKinds, Creates, WriteKinds,
         ReadKinds
    <3>2. u = req[r].cid \/ ~ ById(req[r])
      BY <1>6, <2>3, <2>4 DEF CreateInsert, Fits, ById, Creates, OnRecords, WriteKinds, ReadKinds
    <3>3. "open" \in OnOne => u \in used'
      BY <1>6, <2>1, <2>3, <2>4, <2>5 DEF CreateInsert, Fits, Carries, ById, OnOne
    <3>4. "open" = "listing" => req[r].todo \subseteq used'
      BY <1>6, <2>1, <2>3, <2>4 DEF CreateInsert, Carries
    <3> QED BY <2>1, <2>5, <3>1, <3>2, <3>3, <3>4, GoesRequests DEF Shapes
  <2> QED BY <1>6, <2>2, <2>5, Effects DEF CreateInsert, Ends, On
<1>7. ASSUME NEW r \in Req, CreateOpen(r) PROVE Requests'
  <2>1. Typed /\ used' = used /\ req[r].pc = "open"
    BY <1>7, Effects DEF CreateOpen

  <2>2. CASE req'[r] = Idle /\ Others(r)
    BY <2>1, <2>2, EndsRequests DEF Shapes
  <2>3. AtStep(req[r]) /\ Carries(req[r]) /\ req[r] # Idle
    BY <2>1, IdleFacts DEF Shapes, Requests
  <2>4. Fits("open", req[r].kind, req[r].via, req[r].todo)
    BY <2>1, <2>3 DEF AtStep
  <2>5. ASSUME req[r].via = "native", Goes(r, "count", req[r].cid, req[r].todo, req[r].rows)
        PROVE  Requests'
    <3>1. Fits("count", req[r].kind, req[r].via, req[r].todo)
      BY <1>7, <2>1, <2>3, <2>4, <2>5 DEF CreateOpen, Fits, Carries, PcSteps, OnRecords, MemberKinds, Creates, WriteKinds,
         ReadKinds
    <3>2. req[r].cid = req[r].cid \/ ~ ById(req[r])
      BY <1>7, <2>3, <2>4 DEF CreateOpen, Fits, ById, Creates, OnRecords, WriteKinds, ReadKinds
    <3>3. "count" \in OnOne => req[r].cid \in used'
      BY <1>7, <2>1, <2>3, <2>4, <2>5 DEF CreateOpen, Fits, Carries, ById, OnOne
    <3>4. "count" = "listing" => req[r].todo \subseteq used'
      BY <1>7, <2>1, <2>3, <2>4 DEF CreateOpen, Carries
    <3> QED BY <2>1, <2>5, <3>1, <3>2, <3>3, <3>4, GoesRequests DEF Shapes
  <2> QED BY <1>7, <2>2, <2>5, Effects DEF CreateOpen, Ends, On
<1>8. ASSUME NEW r \in Req, CreateOpenFails(r) PROVE Requests'
  <2>1. Typed /\ used' = used /\ req[r].pc = "open"
    BY <1>8, Effects DEF CreateOpenFails, engine

  <2>2. req'[r] = Idle /\ Others(r)
    BY <1>8, Effects DEF Ends
  <2> QED BY <2>1, <2>2, EndsRequests DEF Shapes
<1>9. ASSUME NEW r \in Req, Count(r) PROVE Requests'
  <2>1. Typed /\ used' = used /\ req[r].pc = "count"
    BY <1>9, Effects DEF Count, engine

  <2>2. CASE req'[r] = Idle /\ Others(r)
    BY <2>1, <2>2, EndsRequests DEF Shapes
  <2>3. AtStep(req[r]) /\ Carries(req[r]) /\ req[r] # Idle
    BY <2>1, IdleFacts DEF Shapes, Requests
  <2>4. Fits("count", req[r].kind, req[r].via, req[r].todo)
    BY <2>1, <2>3 DEF AtStep
  <2>5. ASSUME req[r].kind = "create", Goes(r, "propose", req[r].cid, req[r].todo, req[r].rows)
        PROVE  Requests'
    <3>1. Fits("propose", req[r].kind, req[r].via, req[r].todo)
      BY <1>9, <2>1, <2>3, <2>4, <2>5 DEF Count, Fits, Carries, PcSteps, OnRecords, MemberKinds, Creates, WriteKinds,
         ReadKinds
    <3>2. req[r].cid = req[r].cid \/ ~ ById(req[r])
      BY <1>9, <2>3, <2>4 DEF Count, Fits, ById, Creates, OnRecords, WriteKinds, ReadKinds
    <3>3. "propose" \in OnOne => req[r].cid \in used'
      BY <1>9, <2>1, <2>3, <2>4, <2>5 DEF Count, Fits, Carries, ById, OnOne
    <3>4. "propose" = "listing" => req[r].todo \subseteq used'
      BY <1>9, <2>1, <2>3, <2>4 DEF Count, Carries
    <3> QED BY <2>1, <2>5, <3>1, <3>2, <3>3, <3>4, GoesRequests DEF Shapes
  <2> QED BY <1>9, <2>2, <2>5, Effects DEF Count, Ends, On
<1>10. ASSUME NEW r \in Req, ProposeAdd(r) PROVE Requests'
  <2>1. Typed /\ used' = used /\ req[r].pc = "propose"
    BY <1>10, Effects DEF ProposeAdd, engine

  <2>2. req'[r] = Idle /\ Others(r)
    BY <1>10, Effects DEF Ends
  <2> QED BY <2>1, <2>2, EndsRequests DEF Shapes
<1>11. ASSUME NEW r \in Req, DeleteChroma(r) PROVE Requests'
  <2>1. Typed /\ used' = used /\ req[r].pc = "find"
    BY <1>11, Effects DEF DeleteChroma, engine

  <2>2. CASE req'[r] = Idle /\ Others(r)
    BY <2>1, <2>2, EndsRequests DEF Shapes
  <2>3. AtStep(req[r]) /\ Carries(req[r]) /\ req[r] # Idle
    BY <2>1, IdleFacts DEF Shapes, Requests
  <2>4. Fits("find", req[r].kind, req[r].via, req[r].todo)
    BY <2>1, <2>3 DEF AtStep
  <2>5. ASSUME NEW u \in Bearers(req[r].target), Goes(r, "erase", u, req[r].todo, req[r].rows)
        PROVE  Requests'
    <3>1. Fits("erase", req[r].kind, req[r].via, req[r].todo)
      BY <1>11, <2>1, <2>3, <2>4, <2>5 DEF DeleteChroma, Fits, Carries, PcSteps, OnRecords, MemberKinds, Creates, WriteKinds,
         ReadKinds
    <3>2. u = req[r].cid \/ ~ ById(req[r])
      BY <1>11, <2>3, <2>4 DEF DeleteChroma, Fits, ById, Creates, OnRecords, WriteKinds, ReadKinds
    <3>3. "erase" \in OnOne => u \in used'
      BY <1>11, <2>1, <2>3, <2>4, <2>5 DEF DeleteChroma, Fits, Carries, ById, OnOne, Shapes, Records, Bearers, Catalogued
    <3>4. "erase" = "listing" => req[r].todo \subseteq used'
      BY <1>11, <2>1, <2>3, <2>4 DEF DeleteChroma, Carries, Shapes, Records, Bearers, Catalogued
    <3> QED BY <2>1, <2>5, <3>1, <3>2, <3>3, <3>4, GoesRequests DEF Shapes
  <2> QED BY <1>11, <2>2, <2>5, Effects DEF DeleteChroma, Ends, On
<1>12. ASSUME NEW r \in Req, Erase(r) PROVE Requests'
  <2>1. Typed /\ used' = used /\ req[r].pc = "erase"
    BY <1>12, Effects DEF Erase

  <2>2. CASE req'[r] = Idle /\ Others(r)
    BY <2>1, <2>2, EndsRequests DEF Shapes
  <2>3. AtStep(req[r]) /\ Carries(req[r]) /\ req[r] # Idle
    BY <2>1, IdleFacts DEF Shapes, Requests
  <2>4. Fits("erase", req[r].kind, req[r].via, req[r].todo)
    BY <2>1, <2>3 DEF AtStep
  <2>5. ASSUME Goes(r, "unmap", req[r].cid, req[r].todo, req[r].rows)
        PROVE  Requests'
    <3>1. Fits("unmap", req[r].kind, req[r].via, req[r].todo)
      BY <1>12, <2>1, <2>3, <2>4, <2>5 DEF Erase, Fits, Carries, PcSteps, OnRecords, MemberKinds, Creates, WriteKinds,
         ReadKinds
    <3>2. req[r].cid = req[r].cid \/ ~ ById(req[r])
      BY <1>12, <2>3, <2>4 DEF Erase, Fits, ById, Creates, OnRecords, WriteKinds, ReadKinds
    <3>3. "unmap" \in OnOne => req[r].cid \in used'
      BY <1>12, <2>1, <2>3, <2>4, <2>5 DEF Erase, Fits, Carries, ById, OnOne
    <3>4. "unmap" = "listing" => req[r].todo \subseteq used'
      BY <1>12, <2>1, <2>3, <2>4 DEF Erase, Carries
    <3> QED BY <2>1, <2>5, <3>1, <3>2, <3>3, <3>4, GoesRequests DEF Shapes
  <2> QED BY <1>12, <2>2, <2>5, Effects DEF Erase, Ends, On
<1>13. ASSUME NEW r \in Req, Unmap(r) PROVE Requests'
  <2>1. Typed /\ used' = used /\ req[r].pc = "unmap"
    BY <1>13, Effects DEF Unmap

  <2>2. CASE req'[r] = Idle /\ Others(r)
    BY <2>1, <2>2, EndsRequests DEF Shapes
  <2>3. AtStep(req[r]) /\ Carries(req[r]) /\ req[r] # Idle
    BY <2>1, IdleFacts DEF Shapes, Requests
  <2>4. Fits("unmap", req[r].kind, req[r].via, req[r].todo)
    BY <2>1, <2>3 DEF AtStep
  <2>5. ASSUME Goes(r, "propose", req[r].cid, req[r].todo, req[r].rows)
        PROVE  Requests'
    <3>1. Fits("propose", req[r].kind, req[r].via, req[r].todo)
      BY <1>13, <2>1, <2>3, <2>4, <2>5 DEF Unmap, Fits, Carries, PcSteps, OnRecords, MemberKinds, Creates, WriteKinds,
         ReadKinds
    <3>2. req[r].cid = req[r].cid \/ ~ ById(req[r])
      BY <1>13, <2>3, <2>4 DEF Unmap, Fits, ById, Creates, OnRecords, WriteKinds, ReadKinds
    <3>3. "propose" \in OnOne => req[r].cid \in used'
      BY <1>13, <2>1, <2>3, <2>4, <2>5 DEF Unmap, Fits, Carries, ById, OnOne
    <3>4. "propose" = "listing" => req[r].todo \subseteq used'
      BY <1>13, <2>1, <2>3, <2>4 DEF Unmap, Carries
    <3> QED BY <2>1, <2>5, <3>1, <3>2, <3>3, <3>4, GoesRequests DEF Shapes
  <2> QED BY <1>13, <2>2, <2>5, Effects DEF Unmap, Ends, On
<1>14. ASSUME NEW r \in Req, ProposeRemove(r) PROVE Requests'
  <2>1. Typed /\ used' = used /\ req[r].pc = "propose"
    BY <1>14, Effects DEF ProposeRemove, engine

  <2>2. req'[r] = Idle /\ Others(r)
    BY <1>14, Effects DEF Ends
  <2> QED BY <2>1, <2>2, EndsRequests DEF Shapes
<1>15. ASSUME NEW r \in Req, ProposeFails(r) PROVE Requests'
  <2>1. Typed /\ used' = used /\ req[r].pc = "propose"
    BY <1>15, Effects DEF ProposeFails, engine

  <2>2. req'[r] = Idle /\ Others(r)
    BY <1>15, Effects DEF Ends
  <2> QED BY <2>1, <2>2, EndsRequests DEF Shapes
<1>16. ASSUME NEW r \in Req, ListChroma(r) PROVE Requests'
  <2>1. Typed /\ used' = used /\ req[r].pc = "scan"
    BY <1>16, Effects DEF ListChroma, engine

  <2>2. req'[r] = Idle /\ Others(r)
    BY <1>16, Effects DEF Ends
  <2> QED BY <2>1, <2>2, EndsRequests DEF Shapes
<1>17. ASSUME NEW r \in Req, ListScan(r) PROVE Requests'
  <2>1. Typed /\ used' = used /\ req[r].pc = "scan"
    BY <1>17, Effects DEF ListScan, engine

  <2>2. CASE req'[r] = Idle /\ Others(r)
    BY <2>1, <2>2, EndsRequests DEF Shapes
  <2>3. AtStep(req[r]) /\ Carries(req[r]) /\ req[r] # Idle
    BY <2>1, IdleFacts DEF Shapes, Requests
  <2>4. Fits("scan", req[r].kind, req[r].via, req[r].todo)
    BY <2>1, <2>3 DEF AtStep
  <2>5. ASSUME Goes(r, "listing", req[r].cid, Catalogued, req[r].rows)
        PROVE  Requests'
    <3>1. Fits("listing", req[r].kind, req[r].via, Catalogued)
      BY <1>17, <2>1, <2>3, <2>4, <2>5 DEF ListScan, Fits, Carries, PcSteps, OnRecords, MemberKinds, Creates, WriteKinds,
         ReadKinds
    <3>2. req[r].cid = req[r].cid \/ ~ ById(req[r])
      BY <1>17, <2>3, <2>4 DEF ListScan, Fits, ById, Creates, OnRecords, WriteKinds, ReadKinds
    <3>3. "listing" \in OnOne => req[r].cid \in used'
      BY <1>17, <2>1, <2>3, <2>4, <2>5 DEF ListScan, Fits, Carries, ById, OnOne, Shapes, Records, Bearers, Catalogued
    <3>4. "listing" = "listing" => Catalogued \subseteq used'
      BY <1>17, <2>1, <2>3, <2>4, SMTT(40) DEF ListScan, Carries, Shapes, Records, Bearers,
           Catalogued
    <3> QED BY <2>1, <2>5, <3>1, <3>2, <3>3, <3>4, GoesRequests DEF Shapes
  <2> QED BY <1>17, <2>2, <2>5, Effects DEF ListScan, Ends, On
<1>18. ASSUME NEW r \in Req, ListNext(r) PROVE Requests'
  <2>1. Typed /\ used' = used /\ req[r].pc = "listing"
    BY <1>18, Effects DEF ListNext, engine

  <2>2. CASE req'[r] = Idle /\ Others(r)
    BY <2>1, <2>2, EndsRequests DEF Shapes
  <2>3. AtStep(req[r]) /\ Carries(req[r]) /\ req[r] # Idle
    BY <2>1, IdleFacts DEF Shapes, Requests
  <2>4. Fits("listing", req[r].kind, req[r].via, req[r].todo)
    BY <2>1, <2>3 DEF AtStep
  <2>5. ASSUME NEW u \in req[r].todo, Goes(r, "listing", req[r].cid, req[r].todo \ {u}, req[r].rows)
        PROVE  Requests'
    <3>1. Fits("listing", req[r].kind, req[r].via, req[r].todo \ {u})
      BY <1>18, <2>1, <2>3, <2>4, <2>5 DEF ListNext, Fits, Carries, PcSteps, OnRecords, MemberKinds, Creates, WriteKinds,
         ReadKinds
    <3>2. req[r].cid = req[r].cid \/ ~ ById(req[r])
      BY <1>18, <2>3, <2>4 DEF ListNext, Fits, ById, Creates, OnRecords, WriteKinds, ReadKinds
    <3>3. "listing" \in OnOne => req[r].cid \in used'
      BY <1>18, <2>1, <2>3, <2>4, <2>5 DEF ListNext, Fits, Carries, ById, OnOne
    <3>4. "listing" = "listing" => req[r].todo \ {u} \subseteq used'
      BY <1>18, <2>1, <2>3, <2>4 DEF ListNext, Carries
    <3> QED BY <2>1, <2>5, <3>1, <3>2, <3>3, <3>4, GoesRequests DEF Shapes
  <2> QED BY <1>18, <2>2, <2>5, Effects DEF ListNext, Ends, On
<1>19. ASSUME NEW r \in Req, Write(r) PROVE Requests'
  <2>1. Typed /\ used' = used /\ req[r].pc = "act"
    BY <1>19, Effects DEF Write

  <2>2. req'[r] = Idle /\ Others(r)
    BY <1>19, Effects, Zenon DEF Ends
  <2> QED BY <2>1, <2>2, EndsRequests, SMTT(40) DEF Shapes
<1>20. ASSUME NEW r \in Req, QueryNext(r) PROVE Requests'
  <2>1. Typed /\ used' = used /\ req[r].pc = "act"
    BY <1>20, Effects, Zenon DEF QueryNext, engine

  <2>2. CASE req'[r] = Idle /\ Others(r)
    BY <2>1, <2>2, EndsRequests DEF Shapes
  <2>3. AtStep(req[r]) /\ Carries(req[r]) /\ req[r] # Idle
    BY <2>1, IdleFacts DEF Shapes, Requests
  <2>4. Fits("act", req[r].kind, req[r].via, req[r].todo)
    BY <2>1, <2>3 DEF AtStep
  <2>5. ASSUME NEW n, Goes(r, "act", req[r].cid, req[r].todo, Append(req[r].rows, n))
        PROVE  Requests'
    <3>1. Fits("act", req[r].kind, req[r].via, req[r].todo)
      BY <1>20, <2>1, <2>3, <2>4, <2>5, ZenonT(60) DEF QueryNext, Fits, Carries, PcSteps,
           OnRecords, MemberKinds, Creates, WriteKinds, ReadKinds
    <3>2. req[r].cid = req[r].cid \/ ~ ById(req[r])
      BY <1>20, <2>3, <2>4, ZenonT(60) DEF QueryNext, Fits, ById, Creates, OnRecords,
           WriteKinds, ReadKinds
    <3>3. "act" \in OnOne => req[r].cid \in used'
      BY <1>20, <2>1, <2>3, <2>4, <2>5, ZenonT(60) DEF QueryNext, Fits, Carries, ById, OnOne
    <3>4. "act" = "listing" => req[r].todo \subseteq used'
      BY <1>20, <2>1, <2>3, <2>4, Zenon DEF QueryNext, Carries
    <3> QED BY <2>1, <2>5, <3>1, <3>2, <3>3, <3>4, GoesRequests, SMTT(40) DEF Shapes
  <2> QED BY <1>20, <2>2, <2>5, Effects, ZenonT(60) DEF QueryNext, Ends, On
<1>21. ASSUME NEW r \in Req, GetRecords(r) PROVE Requests'
  <2>1. Typed /\ used' = used /\ req[r].pc = "act"
    BY <1>21, Effects DEF GetRecords, engine

  <2>2. req'[r] = Idle /\ Others(r)
    BY <1>21, Effects DEF Ends
  <2> QED BY <2>1, <2>2, EndsRequests DEF Shapes
<1>22. ASSUME NEW r \in Req, GetRecordsChroma(r) PROVE Requests'
  <2>1. Typed /\ used' = used /\ req[r].pc = "act"
    BY <1>22, Effects DEF GetRecordsChroma, engine

  <2>2. req'[r] = Idle /\ Others(r)
    BY <1>22, Effects DEF Ends
  <2> QED BY <2>1, <2>2, EndsRequests DEF Shapes
<1>23. ASSUME NEW r \in Req, CountRecords(r) PROVE Requests'
  <2>1. Typed /\ used' = used /\ req[r].pc = "act"
    BY <1>23, Effects DEF CountRecords, engine

  <2>2. req'[r] = Idle /\ Others(r)
    BY <1>23, Effects DEF Ends
  <2> QED BY <2>1, <2>2, EndsRequests DEF Shapes
<1>24. ASSUME NEW r \in Req, AddLearner(r) PROVE Requests'
  <2>1. Typed /\ used' = used /\ req[r].pc = "add_learner"
    BY <1>24, Effects DEF AddLearner, engine

  <2>2. req'[r] = Idle /\ Others(r)
    BY <1>24, Effects DEF Ends
  <2> QED BY <2>1, <2>2, EndsRequests DEF Shapes
<1>25. ASSUME NEW r \in Req, RemoveMember(r) PROVE Requests'
  <2>1. Typed /\ used' = used /\ req[r].pc = "remove_member"
    BY <1>25, Effects DEF RemoveMember, engine

  <2>2. CASE req'[r] = Idle /\ Others(r)
    BY <2>1, <2>2, EndsRequests DEF Shapes
  <2>3. AtStep(req[r]) /\ Carries(req[r]) /\ req[r] # Idle
    BY <2>1, IdleFacts DEF Shapes, Requests
  <2>4. Fits("remove_member", req[r].kind, req[r].via, req[r].todo)
    BY <2>1, <2>3 DEF AtStep
  <2>5. ASSUME (voters \cup learners) \ {req[r].target} # {}, Goes(r, "change", req[r].cid, (voters \cup learners) \ {req[r].target}, req[r].rows)
        PROVE  Requests'
    <3>1. Fits("change", req[r].kind, req[r].via, (voters \cup learners) \ {req[r].target})
      BY <1>25, <2>1, <2>3, <2>4, <2>5 DEF RemoveMember, Fits, Carries, PcSteps, OnRecords, MemberKinds, Creates, WriteKinds,
         ReadKinds, Members
    <3>2. req[r].cid = req[r].cid \/ ~ ById(req[r])
      BY <1>25, <2>3, <2>4 DEF RemoveMember, Fits, ById, Creates, OnRecords, WriteKinds, ReadKinds
    <3>3. "change" \in OnOne => req[r].cid \in used'
      BY <1>25, <2>1, <2>3, <2>4, <2>5 DEF RemoveMember, Fits, Carries, ById, OnOne
    <3>4. "change" = "listing" => (voters \cup learners) \ {req[r].target} \subseteq used'
      BY <1>25, <2>1, <2>3, <2>4 DEF RemoveMember, Carries
    <3> QED BY <2>1, <2>5, <3>1, <3>2, <3>3, <3>4, GoesRequests DEF Shapes
  <2> QED BY <1>25, <2>2, <2>5, Effects DEF RemoveMember, Ends, On
<1>26. ASSUME NEW r \in Req, ChangeMembership(r) PROVE Requests'
  <2>1. Typed /\ used' = used /\ req[r].pc = "change"
    BY <1>26, Effects DEF ChangeMembership, engine

  <2>2. req'[r] = Idle /\ Others(r)
    BY <1>26, Effects DEF Ends
  <2> QED BY <2>1, <2>2, EndsRequests DEF Shapes
<1>27. CASE UNCHANGED vars
  BY <1>27 DEF vars, engine, cluster, scope, Shapes, Requests, AtStep,
     Carries, ById
<1> QED BY Sends, <1>1, <1>2, <1>3, <1>4, <1>5, <1>6, <1>7, <1>8, <1>9, <1>10,
    <1>11, <1>12, <1>13, <1>14, <1>15, <1>16, <1>17, <1>18, <1>19, <1>20,
    <1>21, <1>22, <1>23, <1>24, <1>25, <1>26, <1>27
    DEF Next, QueryRecords, QueryRecordsChroma

(* A request that is under way goes on, or is answered and forgotten.      *)
Proceeds(r) ==
    /\ Others(r) /\ r \in Running
    /\ \/ req'[r] = Idle
       \/ /\ req'[r].pc # "idle" /\ resp' = {}
          /\ req'[r].kind = req[r].kind /\ req'[r].via = req[r].via
          /\ req'[r].target = req[r].target /\ req'[r].body = req[r].body
          /\ req'[r].met = req[r].met

Unmoved == UNCHANGED <<engine, registered, cluster, cause, scope>>

(* All steps but those that let a request in.                              *)
Handles(r) ==
    \/ Resolve(r) \/ GetCollection(r) \/ GetCollectionChroma(r)
    \/ GetOrCreate(r) \/ CreateInsert(r) \/ CreateOpen(r)
    \/ CreateOpenFails(r) \/ Count(r) \/ ProposeAdd(r) \/ DeleteChroma(r)
    \/ Erase(r) \/ Unmap(r) \/ ProposeRemove(r) \/ ProposeFails(r)
    \/ ListChroma(r) \/ ListScan(r) \/ ListNext(r) \/ Write(r) \/ QueryNext(r)
    \/ GetRecords(r) \/ GetRecordsChroma(r) \/ CountRecords(r)
    \/ AddLearner(r) \/ RemoveMember(r) \/ ChangeMembership(r)

LEMMA HandlesProceed ==
    ASSUME Shapes, Members, NEW r \in Req, Handles(r)
    PROVE  Proceeds(r) /\ Typed
<1> USE DEF Proceeds
<1>1. CASE Resolve(r)
  BY <1>1, Effects DEF Resolve, Running, Ends, Goes, On
<1>2. CASE GetCollection(r)
  BY <1>2, Effects DEF GetCollection, Running, Ends, Goes, On
<1>3. CASE GetCollectionChroma(r)
  BY <1>3, Effects DEF GetCollectionChroma, Running, Ends, Goes, On
<1>4. CASE GetOrCreate(r)
  BY <1>4, Effects DEF GetOrCreate, Running, Ends, Goes, On
<1>5. CASE CreateInsert(r)
  BY <1>5, Effects, ZenonT(60) DEF CreateInsert, Running, Ends, Goes, On
<1>6. CASE CreateOpen(r)
  BY <1>6, Effects, ZenonT(60) DEF CreateOpen, Running, Ends, Goes, On
<1>7. CASE CreateOpenFails(r)
  BY <1>7, Effects DEF CreateOpenFails, Running, Ends, Goes, On
<1>8. CASE Count(r)
  BY <1>8, Effects DEF Count, Running, Ends, Goes, On
<1>9. CASE ProposeAdd(r)
  BY <1>9, Effects DEF ProposeAdd, Running, Ends, Goes, On
<1>10. CASE DeleteChroma(r)
  BY <1>10, Effects DEF DeleteChroma, Running, Ends, Goes, On
<1>11. CASE Erase(r)
  BY <1>11, Effects, ZenonT(60) DEF Erase, Running, Ends, Goes, On
<1>12. CASE Unmap(r)
  BY <1>12, Effects, ZenonT(60) DEF Unmap, Running, Ends, Goes, On
<1>13. CASE ProposeRemove(r)
  BY <1>13, Effects DEF ProposeRemove, Running, Ends, Goes, On
<1>14. CASE ProposeFails(r)
  BY <1>14, Effects DEF ProposeFails, Running, Ends, Goes, On
<1>15. CASE ListChroma(r)
  BY <1>15, Effects, Zenon DEF ListChroma, Running, Ends, Goes, On
<1>16. CASE ListScan(r)
  BY <1>16, Effects, ZenonT(60) DEF ListScan, Running, Ends, Goes, On
<1>17. CASE ListNext(r)
  BY <1>17, Effects DEF ListNext, Running, Ends, Goes, On
<1>18. CASE Write(r)
  BY <1>18, Effects, ZenonT(60) DEF Write, Running, Ends, Goes, On
<1>19. CASE QueryNext(r)
  BY <1>19, Effects, ZenonT(60) DEF QueryNext, Running, Ends, Goes, On
<1>20. CASE GetRecords(r)
  BY <1>20, Effects DEF GetRecords, Running, Ends, Goes, On
<1>21. CASE GetRecordsChroma(r)
  BY <1>21, Effects DEF GetRecordsChroma, Running, Ends, Goes, On
<1>22. CASE CountRecords(r)
  BY <1>22, Effects DEF CountRecords, Running, Ends, Goes, On
<1>23. CASE AddLearner(r)
  BY <1>23, Effects DEF AddLearner, Running, Ends, Goes, On
<1>24. CASE RemoveMember(r)
  BY <1>24, Effects, ZenonT(60) DEF RemoveMember, Running, Ends, Goes, On
<1>25. CASE ChangeMembership(r)
  BY <1>25, Effects DEF ChangeMembership, Running, Ends, Goes, On
<1> QED BY <1>1, <1>2, <1>3, <1>4, <1>5, <1>6, <1>7, <1>8, <1>9, <1>10, <1>11,
    <1>12, <1>13, <1>14, <1>15, <1>16, <1>17, <1>18, <1>19, <1>20, <1>21,
    <1>22, <1>23, <1>24, <1>25 DEF Handles

(* The steps of the system.                                                *)
LEMMA Steps ==
    ASSUME Shapes, Members, [Next]_vars
    PROVE  \/ \E r \in Req : Handles(r) /\ Proceeds(r) /\ Typed
           \/ /\ Unmoved /\ Typed
              /\ \E r \in Req : \E kind, via, target, b :
                    Proper(kind, via, target, b) /\ Arrives(r, kind, via, target, b)
           \/ /\ Unmoved /\ Typed /\ req' = req
              /\ resp' = resp \/ \A a \in resp' : a.pc = "invalid" /\ a.kind = None
<1>1. ASSUME NEW r \in Req, NEW kind, NEW via, NEW target, NEW b,
             Proper(kind, via, target, b), Accept(r, kind, via, target, b)
      PROVE  /\ Unmoved /\ Typed
             /\ \/ Arrives(r, kind, via, target, b)
                \/ req' = req /\ \A a \in resp' : a.pc = "invalid" /\ a.kind = None
  BY <1>1, Accepted, Zenon DEF Accept, Unmoved
<1>2. CASE UNCHANGED vars
  <2>1. Unmoved /\ req' = req /\ resp' = resp
    BY <1>2 DEF vars, Unmoved
  <2> QED BY <2>1 DEF Typed, Shapes, Requests
<1>3. CASE Next
  <2>1. PICK r \in Req : SendNative(r) \/ SendChroma(r) \/ SendInternal(r) \/ Handles(r)
    BY <1>3 DEF Next, Handles, QueryRecords, QueryRecordsChroma
  <2>2. CASE SendNative(r) \/ SendChroma(r) \/ SendInternal(r)
    <3>1. PICK kind, via, target, b :
             Proper(kind, via, target, b) /\ Accept(r, kind, via, target, b)
      BY <2>2, Sends
    <3> QED BY <1>1, <3>1
  <2>3. CASE Handles(r)
    BY <2>3, HandlesProceed
  <2> QED BY <2>1, <2>2, <2>3
<1> QED BY <1>2, <1>3


(* What the catalog, the map and the state machine hold has been drawn.    *)
LEMMA RecordsStep == Shapes /\ Members /\ [Next]_vars => Records'
<1> SUFFICES ASSUME Shapes, Members, [Next]_vars PROVE Records'
  OBVIOUS
<1>1. ASSUME NEW r \in Req, NEW kind, NEW via, NEW target, NEW b, Unmoved, Typed,
             Proper(kind, via, target, b), Arrives(r, kind, via, target, b)
      PROVE  Records'
  BY <1>1 DEF Unmoved, engine, scope, Shapes, Records, Catalogued
<1>2. ASSUME Unmoved, Typed, req' = req,
             resp' = resp \/ \A a \in resp' : a.pc = "invalid" /\ a.kind = None
      PROVE  Records'
  BY <1>2, SMTT(40) DEF Unmoved, engine, scope, Shapes, Records, Catalogued
<1>3. ASSUME NEW r \in Req, Proceeds(r), Typed,
             Resolve(r) \/ GetCollection(r) \/ GetCollectionChroma(r)
                \/ GetOrCreate(r) \/ Count(r) \/ DeleteChroma(r)
                \/ ListChroma(r) \/ ListScan(r) \/ ListNext(r) \/ QueryNext(r)
                \/ GetRecords(r) \/ GetRecordsChroma(r) \/ CountRecords(r)
                \/ AddLearner(r) \/ RemoveMember(r) \/ ChangeMembership(r)
      PROVE  Records'
  BY <1>3, Zenon DEF Resolve, GetCollection, GetCollectionChroma, GetOrCreate, Count,
       DeleteChroma, ListChroma, ListScan, ListNext, QueryNext, GetRecords, GetRecordsChroma,
       CountRecords, AddLearner, RemoveMember, ChangeMembership, engine, scope, Shapes,
       Records, Catalogued
<1>4. ASSUME NEW r \in Req, Proceeds(r), Typed, CreateInsert(r) PROVE Records'
  <2>1. req[r].target \in Name
    BY <1>4 DEF CreateInsert, Shapes, Requests, AtStep, Fits, Carries, Idle
  <2> QED BY <1>4, <2>1 DEF CreateInsert, scope, Shapes, Records, Catalogued
<1>5. ASSUME NEW r \in Req, Proceeds(r), Typed,
             CreateOpen(r) \/ ProposeAdd(r) \/ ProposeRemove(r)
                \/ ProposeFails(r) \/ CreateOpenFails(r)
      PROVE  Records'
  <2>1. req[r].cid \in used
    BY <1>5 DEF CreateOpen, ProposeAdd, ProposeRemove, ProposeFails, CreateOpenFails, Shapes, Requests, Carries, OnOne
  <2>2. MaxFail \in Nat
    BY ApiAssumption
  <2> QED BY <1>5, <2>1, <2>2 DEF CreateOpen, ProposeAdd, ProposeRemove, ProposeFails, CreateOpenFails, engine, scope, Shapes, Records, Catalogued
<1>6. ASSUME NEW r \in Req, Proceeds(r), Typed, Erase(r) \/ Unmap(r) PROVE Records'
  BY <1>6 DEF Erase, Unmap, engine, scope, Shapes, Records, Catalogued
<1>7. ASSUME NEW r \in Req, Proceeds(r), Typed, Write(r) PROVE Records'
  <2> DEFINE q == req[r]
             u == q.cid
             new == RecordsAfter(q.kind, u, q.body)
  <2>1. q.body \in Bodies /\ Accepts(q.via, q.kind, q.body) /\ q.via \in {"native", "chroma"}
        /\ u \in Cid /\ q.kind \in WriteKinds
    BY <1>7 DEF Write, Shapes, Records, Requests, Carries, OnOne
  <2>2. Entries(q.body.ids) \subseteq Rid \cup {BadId}
    BY <2>1, ApiAssumption DEF Body, Entries
  <2>3. recs[u] \subseteq Rid
    BY <2>1 DEF Shapes, Records
  <2>4. ASSUME EngineAccepts(q.kind, u, q.body) PROVE new \subseteq Rid
    <3>1. CASE q.kind = "delete"
      BY <2>3, <3>1 DEF RecordsAfter
    <3>2. CASE q.kind = "update"
      BY <2>3, <2>4, <3>2 DEF RecordsAfter, EngineAccepts, UpdateAccepts
    <3>3. CASE q.kind \in {"add", "upsert"}
      <4>1. BadId \notin Entries(q.body.ids)
        BY <2>1, <3>3 DEF Accepts, NativeAccepts, ChromaAccepts, ValidAdd, ValidUpsert, ValidIds,
           ValidChromaAdd, WriteKinds
      <4> QED BY <2>2, <2>3, <3>3, <4>1 DEF RecordsAfter
    <3> QED BY <2>1, <3>1, <3>2, <3>3 DEF WriteKinds
  <2>5. recs' = recs \/ (new \subseteq Rid /\ recs' = [recs EXCEPT ![u] = new])
    <3> DEFINE panics == Panics(q.kind, q.body)
               accepts == EngineAccepts(q.kind, u, q.body)
               kept == [recs EXCEPT ![u] = new]
               done(unfit) == u \in served /\ accepts /\ ~(unfit /\ q.kind \in {"add", "upsert"})
    <3>1. \E unfit \in Unfit(q.body) : recs' = IF done(unfit) /\ ~panics THEN kept ELSE recs
      BY <1>7 DEF Write
    <3> HIDE DEF panics, new, kept
    <3>2. recs' = recs \/ (accepts /\ recs' = kept)
      BY <3>1
    <3> QED BY <2>4, <3>2 DEF kept, accepts
  <2> HIDE DEF q, u, new
  <2>6. recs' \in [Cid -> SUBSET Rid]
    BY <2>1, <2>5 DEF Shapes, Records
  <2> QED BY <1>7, <2>6 DEF Write, scope, Shapes, Records, Catalogued
<1> QED BY Steps, <1>1, <1>2, <1>3, <1>4, <1>5, <1>6, <1>7 DEF Handles

(* Nobody is voter and learner, and there is a voter.                      *)
LEMMA MembersStep == Shapes /\ Members /\ [Next]_vars => Members'
<1> SUFFICES ASSUME Shapes, Members, [Next]_vars PROVE Members'
  OBVIOUS
<1>1. ASSUME NEW r \in Req, NEW kind, NEW via, NEW target, NEW b, Unmoved, Typed,
             Proper(kind, via, target, b), Arrives(r, kind, via, target, b)
      PROVE  Members'
  BY <1>1 DEF Unmoved, cluster, Members
<1>2. ASSUME Unmoved, Typed, req' = req,
             resp' = resp \/ \A a \in resp' : a.pc = "invalid" /\ a.kind = None
      PROVE  Members'
  BY <1>2, SMTT(40) DEF Unmoved, cluster, Members
<1>3. ASSUME NEW r \in Req, Proceeds(r), Typed,
             Resolve(r) \/ GetCollection(r) \/ GetCollectionChroma(r)
                \/ GetOrCreate(r) \/ CreateInsert(r) \/ CreateOpen(r)
                \/ CreateOpenFails(r) \/ Count(r) \/ ProposeAdd(r)
                \/ DeleteChroma(r) \/ Erase(r) \/ Unmap(r) \/ ProposeRemove(r)
                \/ ProposeFails(r) \/ ListChroma(r) \/ ListScan(r)
                \/ ListNext(r) \/ Write(r) \/ QueryNext(r) \/ GetRecords(r)
                \/ GetRecordsChroma(r) \/ CountRecords(r) \/ RemoveMember(r)
      PROVE  Members'
  BY <1>3, Zenon DEF Resolve, GetCollection, GetCollectionChroma, GetOrCreate, CreateInsert,
       CreateOpen, CreateOpenFails, Count, ProposeAdd, DeleteChroma, Erase, Unmap,
       ProposeRemove, ProposeFails, ListChroma, ListScan, ListNext, Write, QueryNext,
       GetRecords, GetRecordsChroma, CountRecords, RemoveMember, cluster, Members
<1>4. ASSUME NEW r \in Req, Proceeds(r), Typed, AddLearner(r) PROVE Members'
  <2>1. req[r].target \in Node
    BY <1>4 DEF AddLearner, Shapes, Requests, AtStep, Fits, Carries, Idle, MemberKinds
  <2> QED BY <1>4, <2>1 DEF AddLearner, Members
<1>5. ASSUME NEW r \in Req, Proceeds(r), Typed, ChangeMembership(r) PROVE Members'
  <2>1. req[r].todo # {} /\ req[r].todo \subseteq Node /\ req[r].target \in Node
    BY <1>5 DEF ChangeMembership, Shapes, Requests, AtStep, Fits, Carries, Idle, MemberKinds
  <2> QED BY <1>5, <2>1 DEF ChangeMembership, cluster, Members
<1> QED BY Steps, <1>1, <1>2, <1>3, <1>4, <1>5 DEF Handles

(* The catalog holds a name once.                                          *)
LEMMA OneNameStep == Shapes /\ Members /\ OneName /\ [Next]_vars => OneName'
<1> SUFFICES ASSUME Shapes, Members, OneName, [Next]_vars PROVE OneName'
  OBVIOUS
<1>1. ASSUME NEW r \in Req, NEW kind, NEW via, NEW target, NEW b, Unmoved, Typed,
             Proper(kind, via, target, b), Arrives(r, kind, via, target, b)
      PROVE  OneName'
  BY <1>1 DEF Unmoved, engine, OneName, Catalogued
<1>2. ASSUME Unmoved, Typed, req' = req,
             resp' = resp \/ \A a \in resp' : a.pc = "invalid" /\ a.kind = None
      PROVE  OneName'
  BY <1>2, SMTT(40) DEF Unmoved, engine, OneName, Catalogued
<1>3. ASSUME NEW r \in Req, Proceeds(r), Typed,
             Resolve(r) \/ GetCollection(r) \/ GetCollectionChroma(r)
                \/ GetOrCreate(r) \/ CreateOpen(r) \/ CreateOpenFails(r)
                \/ Count(r) \/ ProposeAdd(r) \/ DeleteChroma(r) \/ Unmap(r)
                \/ ProposeRemove(r) \/ ProposeFails(r) \/ ListChroma(r)
                \/ ListScan(r) \/ ListNext(r) \/ Write(r) \/ QueryNext(r)
                \/ GetRecords(r) \/ GetRecordsChroma(r) \/ CountRecords(r)
                \/ AddLearner(r) \/ RemoveMember(r) \/ ChangeMembership(r)
      PROVE  OneName'
  BY <1>3, Zenon DEF Resolve, GetCollection, GetCollectionChroma, GetOrCreate, CreateOpen,
       CreateOpenFails, Count, ProposeAdd, DeleteChroma, Unmap, ProposeRemove, ProposeFails,
       ListChroma, ListScan, ListNext, Write, QueryNext, GetRecords, GetRecordsChroma,
       CountRecords, AddLearner, RemoveMember, ChangeMembership, engine, OneName, Catalogued
<1>4. ASSUME NEW r \in Req, Proceeds(r), Typed, CreateInsert(r) PROVE OneName'
  <2>1. CASE name' = name
    BY <2>1 DEF OneName, Catalogued
  <2>2. ASSUME NEW u \in Cid, name' = [name EXCEPT ![u] = req[r].target],
               Bearers(req[r].target) = {}
        PROVE  OneName'
    <3>1. \A v \in Catalogued : name[v] # req[r].target
      BY <2>2 DEF Bearers
    <3>2. /\ name'[u] = req[r].target /\ \A v \in Cid \ {u} : name'[v] = name[v]
          /\ DOMAIN name' = Cid
      BY <2>2 DEF Shapes, Records
    <3> QED BY <3>1, <3>2 DEF OneName, Catalogued
  <2> QED BY <1>4, <2>1, <2>2 DEF CreateInsert
<1>5. ASSUME NEW r \in Req, Proceeds(r), Typed, Erase(r) PROVE OneName'
  BY <1>5 DEF Erase, Shapes, Records, OneName, Catalogued
<1> QED BY Steps, <1>1, <1>2, <1>3, <1>4, <1>5 DEF Handles

(* Requests that run at the same time have met.                            *)
LEMMA MetStep == Shapes /\ Members /\ Met /\ [Next]_vars => Met'
<1> SUFFICES ASSUME Shapes, Members, Met, [Next]_vars PROVE Met'
  OBVIOUS
<1>1. ASSUME NEW r \in Req, NEW kind, NEW via, NEW target, NEW b, Unmoved, Typed,
             Proper(kind, via, target, b), Arrives(r, kind, via, target, b)
      PROVE  Met'
  BY <1>1, IdleFacts, FirstSteps DEF Arrives, Proper, Met, Running
<1>2. ASSUME Unmoved, Typed, req' = req,
             resp' = resp \/ \A a \in resp' : a.pc = "invalid" /\ a.kind = None
      PROVE  Met'
  BY <1>2 DEF Met, Running
<1>3. ASSUME NEW r \in Req, Proceeds(r), Typed,
             Resolve(r) \/ GetCollection(r) \/ GetCollectionChroma(r)
                \/ GetOrCreate(r) \/ CreateInsert(r) \/ CreateOpen(r)
                \/ CreateOpenFails(r) \/ Count(r) \/ ProposeAdd(r)
                \/ DeleteChroma(r) \/ Erase(r) \/ Unmap(r) \/ ProposeRemove(r)
                \/ ProposeFails(r) \/ ListChroma(r) \/ ListScan(r)
                \/ ListNext(r) \/ Write(r) \/ QueryNext(r) \/ GetRecords(r)
                \/ GetRecordsChroma(r) \/ CountRecords(r) \/ AddLearner(r)
                \/ RemoveMember(r) \/ ChangeMembership(r)
      PROVE  Met'
  BY <1>3, IdleFacts DEF Proceeds, Others, Met, Running
<1> QED BY Steps, <1>1, <1>2, <1>3 DEF Handles

(* Who makes or removes a collection goes on to do so until it is          *)
(* answered, and only an insert or an erasure makes another do it.         *)
Tracks(r, u) ==
    /\ ~ CreateInsert(r) => (Makes(r, u)' => Makes(r, u))
    /\ ~ Erase(r) => (Removes(r, u)' => Removes(r, u))
    /\ Makes(r, u) => Makes(r, u)' \/ req'[r] = Idle
    /\ Removes(r, u) => Removes(r, u)' \/ req'[r] = Idle

LEMMA HandlesTracks ==
    ASSUME Shapes, Members, NEW r \in Req, Handles(r), NEW u
    PROVE  Tracks(r, u)
<1>1. req[r] = Idle \/ Fits(req[r].pc, req[r].kind, req[r].via, req[r].todo)
  BY DEF Shapes, Requests, AtStep
<1>2. CASE req'[r] = Idle
  BY <1>2, IdleFacts, SMTT(40) DEF Tracks, Makes, Removes, Creates, None
<1>3. CASE Resolve(r) /\ req'[r] # Idle
  BY <1>1, <1>3, Effects, IdleFacts DEF Resolve, Ends, Goes, On, Tracks, Makes, Removes,
     Fits, Creates
<1>4. CASE GetCollection(r) /\ req'[r] # Idle
  BY <1>1, <1>4, Effects, IdleFacts DEF GetCollection, Ends, Goes, On, Tracks, Makes, Removes,
     Fits, Creates
<1>5. CASE GetOrCreate(r) /\ req'[r] # Idle
  BY <1>1, <1>5, Effects, IdleFacts, Zenon DEF GetOrCreate, Ends, Goes, On, Tracks, Makes,
       Removes, Fits, Creates
<1>6. CASE CreateInsert(r) /\ req'[r] # Idle
  BY <1>1, <1>6, Effects, IdleFacts DEF CreateInsert, Ends, Goes, On, Tracks, Makes, Removes,
     Fits, Creates
<1>7. CASE CreateOpen(r) /\ req'[r] # Idle
  BY <1>1, <1>7, Effects, IdleFacts, ZenonT(60) DEF CreateOpen, Ends, Goes, On, Tracks, Makes,
       Removes, Fits, Creates
<1>8. CASE Count(r) /\ req'[r] # Idle
  BY <1>1, <1>8, Effects, IdleFacts DEF Count, Ends, Goes, On, Tracks, Makes, Removes,
     Fits, Creates
<1>9. CASE DeleteChroma(r) /\ req'[r] # Idle
  BY <1>1, <1>9, Effects, IdleFacts DEF DeleteChroma, Ends, Goes, On, Tracks, Makes, Removes,
     Fits, Creates
<1>10. CASE Erase(r) /\ req'[r] # Idle
  BY <1>1, <1>10, Effects, IdleFacts DEF Erase, Ends, Goes, On, Tracks, Makes, Removes,
     Fits, Creates
<1>11. CASE Unmap(r) /\ req'[r] # Idle
  BY <1>1, <1>11, Effects, IdleFacts, Zenon DEF Unmap, Ends, Goes, On, Tracks, Makes, Removes,
       Fits, Creates
<1>12. CASE ListScan(r) /\ req'[r] # Idle
  BY <1>1, <1>12, Effects, IdleFacts, ZenonT(60) DEF ListScan, Ends, Goes, On, Tracks, Makes,
       Removes, Fits, Creates
<1>13. CASE ListNext(r) /\ req'[r] # Idle
  BY <1>1, <1>13, Effects, IdleFacts, Zenon DEF ListNext, Ends, Goes, On, Tracks, Makes,
       Removes, Fits, Creates
<1>14. CASE QueryNext(r) /\ req'[r] # Idle
  BY <1>1, <1>14, Effects, IdleFacts, ZenonT(60) DEF QueryNext, Ends, Goes, On, Tracks, Makes,
       Removes, Fits, Creates
<1>15. CASE RemoveMember(r) /\ req'[r] # Idle
  BY <1>1, <1>15, Effects, IdleFacts DEF RemoveMember, Ends, Goes, On, Tracks, Makes, Removes,
     Fits, Creates
<1>16. ASSUME req'[r] # Idle
      PROVE  Resolve(r) \/ GetCollection(r) \/ GetOrCreate(r) \/ CreateInsert(r) \/ CreateOpen(r) \/ Count(r)
             \/ DeleteChroma(r) \/ Erase(r) \/ Unmap(r) \/ ListScan(r) \/ ListNext(r) \/ QueryNext(r) \/ RemoveMember(r)
  BY <1>16, Effects DEF Handles, Ends
<1> QED BY <1>2, <1>3, <1>4, <1>5, <1>6, <1>7, <1>8, <1>9, <1>10, <1>11,
    <1>12, <1>13, <1>14, <1>15, <1>16

(* A new request makes and removes nothing yet.                            *)
LEMMA ArrivesTracks ==
    ASSUME Shapes, NEW r \in Req, NEW kind, NEW via, NEW target, NEW b,
           Proper(kind, via, target, b), Arrives(r, kind, via, target, b)
    PROVE  /\ \A s \in Req, u \in Cid :
                 (Makes(s, u)' <=> Makes(s, u)) /\ (Removes(s, u)' <=> Removes(s, u))
           /\ \A s \in Req \ {r} : req[s].met \subseteq req'[s].met
           /\ req'[r].pc \notin {"idle", "open", "count", "propose", "unmap", "listing"}
           /\ req'[r].pc = "insert" => kind = "create"
           /\ req'[r].pc = "act" => via = "native"
<1>1. /\ req'[r].pc \notin {"idle", "open", "count", "propose", "unmap", "listing"}
      /\ req'[r].pc = "insert" => kind = "create"
      /\ req'[r].pc = "act" => via = "native"
  BY DEF Arrives, Proper, FirstStep, AllKinds, CollectionKinds, WriteKinds, ReadKinds, MemberKinds
<1>2. ASSUME NEW s \in Req, NEW u \in Cid
      PROVE  (Makes(s, u)' <=> Makes(s, u)) /\ (Removes(s, u)' <=> Removes(s, u))
  <2>1. CASE s = r
    BY <1>1, <2>1, IdleFacts DEF Arrives, Makes, Removes
  <2>2. CASE s # r
    BY <2>2 DEF Arrives, Makes, Removes
  <2> QED BY <2>1, <2>2
<1> QED BY <1>1, <1>2 DEF Arrives


(* A collection is created by one request.                                 *)
LEMMA OneMakerStep == Shapes /\ Members /\ OneMaker /\ [Next]_vars => OneMaker'
<1> SUFFICES ASSUME Shapes, Members, OneMaker, [Next]_vars PROVE OneMaker'
  OBVIOUS
<1>1. ASSUME NEW r \in Req, NEW kind, NEW via, NEW target, NEW b, Unmoved, Typed,
             Proper(kind, via, target, b), Arrives(r, kind, via, target, b)
      PROVE  OneMaker'
  BY <1>1, ArrivesTracks DEF OneMaker
<1>2. ASSUME Unmoved, Typed, req' = req,
             resp' = resp \/ \A a \in resp' : a.pc = "invalid" /\ a.kind = None
      PROVE  OneMaker'
  BY <1>2 DEF OneMaker, Makes
<1>3. ASSUME NEW r \in Req, Proceeds(r), Typed,
             Resolve(r) \/ GetCollection(r) \/ GetCollectionChroma(r)
                \/ GetOrCreate(r) \/ CreateOpen(r) \/ CreateOpenFails(r)
                \/ Count(r) \/ ProposeAdd(r) \/ DeleteChroma(r) \/ Erase(r)
                \/ Unmap(r) \/ ProposeRemove(r) \/ ProposeFails(r)
                \/ ListChroma(r) \/ ListScan(r) \/ ListNext(r) \/ Write(r)
                \/ QueryNext(r) \/ GetRecords(r) \/ GetRecordsChroma(r)
                \/ CountRecords(r) \/ AddLearner(r) \/ RemoveMember(r)
                \/ ChangeMembership(r)
      PROVE  OneMaker'
  <2>1. ASSUME NEW s \in Req, NEW u PROVE Makes(s, u)' => Makes(s, u)
    <3>1. CASE s = r
      <4>1. Handles(r) /\ ~ CreateInsert(r)
        BY <1>3, ZenonT(60) DEF Handles, CreateInsert, Resolve, GetCollection,
             GetCollectionChroma, GetOrCreate, CreateOpen, CreateOpenFails, Count, ProposeAdd,
             DeleteChroma, Erase, Unmap, ProposeRemove, ProposeFails, ListChroma, ListScan,
             ListNext, Write, QueryNext, GetRecords, GetRecordsChroma, CountRecords,
             AddLearner, RemoveMember, ChangeMembership
      <4> QED BY <3>1, <4>1, HandlesTracks, SMTT(40) DEF Tracks
    <3>2. CASE s # r
      BY <1>3, <3>2 DEF Proceeds, Others, Makes
    <3> QED BY <3>1, <3>2
  <2> QED BY <2>1 DEF OneMaker
<1>4. ASSUME NEW r \in Req, Proceeds(r), Typed, CreateInsert(r) PROVE OneMaker'
  <2>1. ASSUME NEW s \in Req, NEW u, s # r
        PROVE  (Makes(s, u)' => Makes(s, u)) /\ (Makes(s, u) => u \in used)
    BY <1>4, <2>1 DEF Proceeds, Others, Makes, Shapes, Requests, Carries, OnOne
  <2>2. ASSUME NEW u, Makes(r, u)' PROVE u \notin used
    BY <1>4, <2>2, Effects, IdleFacts DEF CreateInsert, Ends, Goes, Makes, Creates
  <2>3. ASSUME NEW s \in Req, NEW t \in Req, NEW u \in Cid, Makes(s, u)', Makes(t, u)'
        PROVE  s = t
    <3>1. CASE s = r
      BY <2>1, <2>2, <2>3, <3>1
    <3>2. CASE t = r
      BY <2>1, <2>2, <2>3, <3>2
    <3>3. CASE s # r /\ t # r
      BY <2>1, <2>3, <3>3 DEF OneMaker
    <3> QED BY <3>1, <3>2, <3>3
  <2> QED BY <2>3 DEF OneMaker
<1> QED BY Steps, <1>1, <1>2, <1>3, <1>4 DEF Handles

(* What a request removes from the map is no longer in the catalog.        *)
LEMMA ErasedStep == Shapes /\ Members /\ Erased /\ [Next]_vars => Erased'
<1> SUFFICES ASSUME Shapes, Members, Erased, [Next]_vars PROVE Erased'
  OBVIOUS
<1>1. ASSUME NEW r \in Req, NEW kind, NEW via, NEW target, NEW b, Unmoved, Typed,
             Proper(kind, via, target, b), Arrives(r, kind, via, target, b)
      PROVE  Erased'
  BY <1>1, ArrivesTracks DEF Unmoved, engine, Erased, Catalogued
<1>2. ASSUME Unmoved, Typed, req' = req,
             resp' = resp \/ \A a \in resp' : a.pc = "invalid" /\ a.kind = None
      PROVE  Erased'
  BY <1>2 DEF Unmoved, engine, Erased, Removes, Catalogued
<1>3. ASSUME NEW r \in Req, Proceeds(r), Typed,
             Resolve(r) \/ GetCollection(r) \/ GetCollectionChroma(r)
                \/ GetOrCreate(r) \/ CreateOpen(r) \/ CreateOpenFails(r)
                \/ Count(r) \/ ProposeAdd(r) \/ DeleteChroma(r) \/ Unmap(r)
                \/ ProposeRemove(r) \/ ProposeFails(r) \/ ListChroma(r)
                \/ ListScan(r) \/ ListNext(r) \/ Write(r) \/ QueryNext(r)
                \/ GetRecords(r) \/ GetRecordsChroma(r) \/ CountRecords(r)
                \/ AddLearner(r) \/ RemoveMember(r) \/ ChangeMembership(r)
      PROVE  Erased'
  <2>1. ASSUME NEW s \in Req, NEW u PROVE Removes(s, u)' => Removes(s, u)
    <3>1. CASE s = r
      <4>1. Handles(r) /\ ~ Erase(r)
        BY <1>3, ZenonT(60) DEF Handles, Erase, Resolve, GetCollection, GetCollectionChroma,
             GetOrCreate, CreateOpen, CreateOpenFails, Count, ProposeAdd, DeleteChroma, Unmap,
             ProposeRemove, ProposeFails, ListChroma, ListScan, ListNext, Write, QueryNext,
             GetRecords, GetRecordsChroma, CountRecords, AddLearner, RemoveMember,
             ChangeMembership
      <4> QED BY <3>1, <4>1, HandlesTracks, SMTT(40) DEF Tracks
    <3>2. CASE s # r
      BY <1>3, <3>2 DEF Proceeds, Others, Removes
    <3> QED BY <3>1, <3>2
  <2>2. name' = name
    BY <1>3, Zenon DEF Resolve, GetCollection, GetCollectionChroma, GetOrCreate, CreateOpen,
         CreateOpenFails, Count, ProposeAdd, DeleteChroma, Unmap, ProposeRemove, ProposeFails,
         ListChroma, ListScan, ListNext, Write, QueryNext, GetRecords, GetRecordsChroma,
         CountRecords, AddLearner, RemoveMember, ChangeMembership, engine
  <2> QED BY <2>1, <2>2 DEF Erased, Catalogued
<1>4. ASSUME NEW r \in Req, Proceeds(r), Typed, CreateInsert(r) PROVE Erased'
  <2>1. ASSUME NEW s \in Req, NEW u, Removes(s, u)' PROVE Removes(s, u) /\ u \in used
    <3>1. Removes(s, u)
      <4>1. CASE s = r
        <5>1. Handles(r) /\ ~ Erase(r)
          BY <1>4 DEF Handles, Erase, CreateInsert
        <5> QED BY <2>1, <4>1, <5>1, HandlesTracks DEF Tracks
      <4>2. CASE s # r
        BY <1>4, <2>1, <4>2 DEF Proceeds, Others, Removes
      <4> QED BY <4>1, <4>2
    <3> QED BY <3>1 DEF Removes, Shapes, Requests, Carries, OnOne
  <2>2. CASE name' = name
    BY <2>1, <2>2 DEF Erased, Catalogued
  <2>3. ASSUME NEW v \in Cid \ used, name' = [name EXCEPT ![v] = req[r].target] PROVE Erased'
    BY <2>1, <2>3 DEF Shapes, Records, Erased, Catalogued
  <2> QED BY <1>4, <2>2, <2>3 DEF CreateInsert
<1>5. ASSUME NEW r \in Req, Proceeds(r), Typed, Erase(r) PROVE Erased'
  <2>1. \A u \in Cid : u \notin Catalogued => u \notin Catalogued'
    BY <1>5 DEF Erase, Shapes, Records, Catalogued
  <2>2. ASSUME NEW s \in Req \ {r}, NEW u, Removes(s, u)' PROVE Removes(s, u)
    BY <1>5, <2>2 DEF Proceeds, Others, Removes
  <2>3. ASSUME NEW u \in Cid, Removes(r, u)' PROVE u \notin Catalogued'
    <3>1. req'[r].kind = "remove" /\ req'[r].cid = u
      BY <2>3 DEF Removes
    <3>2. req'[r] # Idle
      BY <3>1, IdleFacts, SMTT(40) DEF None
    <3>3. name' = [name EXCEPT ![req[r].cid] = None] /\ req'[r].cid = req[r].cid
      BY <1>5, <3>2, Effects DEF Ends, Goes, On
    <3> QED BY <3>1, <3>3 DEF Shapes, Records, Catalogued
  <2> QED BY <2>1, <2>2, <2>3 DEF Erased
<1> QED BY Steps, <1>1, <1>2, <1>3, <1>4, <1>5 DEF Handles

(* What the catalog holds and the map does not is being opened, or failed to *)
(* be.                                                                     *)
LEMMA UnservedStep == Shapes /\ Members /\ Erased /\ Unserved /\ [Next]_vars => Unserved'
<1> SUFFICES ASSUME Shapes, Members, Erased, Unserved, [Next]_vars PROVE Unserved'
  OBVIOUS
<1>1. ASSUME NEW r \in Req, NEW kind, NEW via, NEW target, NEW b, Unmoved, Typed,
             Proper(kind, via, target, b), Arrives(r, kind, via, target, b)
      PROVE  Unserved'
  <2>1. \A s \in Req : req[s].pc = "open" => req'[s].pc = "open" /\ req'[s].cid = req[s].cid
    BY <1>1, IdleFacts DEF Arrives
  <2> QED BY <1>1, <2>1, ZenonT(60) DEF Unmoved, engine, Unserved, Catalogued
<1>2. ASSUME Unmoved, Typed, req' = req,
             resp' = resp \/ \A a \in resp' : a.pc = "invalid" /\ a.kind = None
      PROVE  Unserved'
  BY <1>2, Zenon DEF Unmoved, engine, Unserved, Catalogued
<1>3. ASSUME NEW r \in Req, Proceeds(r), Typed,
             Resolve(r) \/ GetCollection(r) \/ GetCollectionChroma(r)
                \/ GetOrCreate(r) \/ Count(r) \/ ProposeAdd(r)
                \/ DeleteChroma(r) \/ Erase(r) \/ ProposeRemove(r)
                \/ ProposeFails(r) \/ ListChroma(r) \/ ListScan(r)
                \/ ListNext(r) \/ Write(r) \/ QueryNext(r) \/ GetRecords(r)
                \/ GetRecordsChroma(r) \/ CountRecords(r) \/ AddLearner(r)
                \/ RemoveMember(r) \/ ChangeMembership(r)
      PROVE  Unserved'
  <2>1. \A s \in Req : req[s].pc = "open" => req'[s].pc = "open" /\ req'[s].cid = req[s].cid
    BY <1>3, ZenonT(60) DEF Proceeds, Others, Resolve, GetCollection, GetCollectionChroma,
         GetOrCreate, Count, ProposeAdd, DeleteChroma, Erase, ProposeRemove, ProposeFails,
         ListChroma, ListScan, ListNext, Write, QueryNext, GetRecords, GetRecordsChroma,
         CountRecords, AddLearner, RemoveMember, ChangeMembership
  <2>2. /\ Catalogued' \subseteq Catalogued /\ served' = served /\ cause \subseteq cause'
    BY <1>3, Zenon DEF Resolve, GetCollection, GetCollectionChroma, GetOrCreate, Count,
         ProposeAdd, DeleteChroma, Erase, ProposeRemove, ProposeFails, ListChroma, ListScan,
         ListNext, Write, QueryNext, GetRecords, GetRecordsChroma, CountRecords, AddLearner,
         RemoveMember, ChangeMembership, engine, Catalogued, Shapes, Records
  <2> QED BY <2>1, <2>2, Zenon DEF Unserved
<1>4. ASSUME NEW r \in Req, Proceeds(r), Typed, CreateInsert(r) PROVE Unserved'
  <2>1. \A s \in Req : req[s].pc = "open" => req'[s].pc = "open" /\ req'[s].cid = req[s].cid
    BY <1>4 DEF Proceeds, Others, CreateInsert
  <2>2. served' = served /\ cause' = cause
    BY <1>4 DEF CreateInsert
  <2>3. CASE name' = name
    BY <2>1, <2>2, <2>3, ZenonT(60) DEF Unserved, Catalogued
  <2>4. ASSUME NEW u \in Cid, name' = [name EXCEPT ![u] = req[r].target],
               req'[r].pc = "open", req'[r].cid = u
        PROVE  Unserved'
    <3>1. Catalogued' \subseteq Catalogued \cup {u}
      BY <2>4 DEF Shapes, Records, Catalogued
    <3> QED BY <2>1, <2>2, <2>4, <3>1, ZenonT(60) DEF Unserved
  <2> QED BY <1>4, <2>3, <2>4, Effects DEF Goes
<1>5. ASSUME NEW r \in Req, Proceeds(r), Typed,
             CreateOpen(r) \/ CreateOpenFails(r)
      PROVE  Unserved'
  <2>1. \A s \in Req : s # r => req'[s] = req[s]
    BY <1>5 DEF Proceeds, Others
  <2>2. /\ Catalogued' = Catalogued /\ served \subseteq served' /\ cause \subseteq cause'
        /\ req[r].cid \in served' \/ <<"open", req[r].cid>> \in cause'
    BY <1>5 DEF CreateOpen, CreateOpenFails, engine, Catalogued
  <2> QED BY <2>1, <2>2, Zenon DEF Unserved
<1>6. ASSUME NEW r \in Req, Proceeds(r), Typed, Unmap(r) PROVE Unserved'
  <2>1. \A s \in Req : req[s].pc = "open" => req'[s].pc = "open" /\ req'[s].cid = req[s].cid
    BY <1>6 DEF Proceeds, Others, Unmap
  <2>2. req[r].cid \notin Catalogued
    <3>1. Removes(r, req[r].cid)
      BY <1>6 DEF Unmap, Shapes, Requests, AtStep, Fits, Idle, Removes
    <3> QED BY <3>1 DEF Erased, Catalogued
  <2>3. Catalogued' = Catalogued /\ cause' = cause /\ served' = served \ {req[r].cid}
    BY <1>6 DEF Unmap, Catalogued
  <2> QED BY <2>1, <2>2, <2>3, ZenonT(60) DEF Unserved
<1> QED BY Steps, <1>1, <1>2, <1>3, <1>4, <1>5, <1>6 DEF Handles

(* A request that sees no longer what it saw has met the one who changed it. *)
LEMMA SeenStep == Shapes /\ Members /\ Met /\ Seen /\ [Next]_vars => Seen'
<1> SUFFICES ASSUME Shapes, Members, Met, Seen, [Next]_vars PROVE Seen'
  OBVIOUS
<1>1. ASSUME NEW r \in Req, NEW kind, NEW via, NEW target, NEW b, Unmoved, Typed,
             Proper(kind, via, target, b), Arrives(r, kind, via, target, b)
      PROVE  Seen'
  <2>1. ASSUME NEW s \in Req, s # r PROVE Sees(s)'
    <3>1. /\ req'[s].kind = req[s].kind /\ req'[s].via = req[s].via /\ req'[s].pc = req[s].pc
          /\ req'[s].target = req[s].target /\ req'[s].cid = req[s].cid
          /\ req'[s].todo = req[s].todo /\ req[s].met \subseteq req'[s].met
      BY <1>1, <2>1, ArrivesTracks DEF Arrives
    <3>2. Sees(s) /\ name' = name /\ served' = served
      BY <1>1 DEF Seen, Unmoved, engine
    <3> QED BY <3>1, <3>2 DEF Sees, Bearers, Catalogued
  <2>2. Sees(r)'
    BY <1>1, ArrivesTracks DEF Sees, Arrives
  <2> QED BY <2>1, <2>2 DEF Seen
<1>2. ASSUME Unmoved, Typed, req' = req,
             resp' = resp \/ \A a \in resp' : a.pc = "invalid" /\ a.kind = None
      PROVE  Seen'
  <2>1. \A s \in Req : Sees(s)'
    BY <1>2 DEF Seen, Sees, Unmoved, engine, Bearers, Catalogued
  <2> QED BY <2>1 DEF Seen
<1>3. ASSUME NEW r \in Req, Proceeds(r), Typed,
             GetCollectionChroma(r) \/ CreateOpenFails(r) \/ ProposeAdd(r)
                \/ ProposeRemove(r) \/ ProposeFails(r) \/ ListChroma(r)
                \/ Write(r) \/ GetRecords(r) \/ GetRecordsChroma(r)
                \/ CountRecords(r) \/ AddLearner(r) \/ ChangeMembership(r)
      PROVE  Seen'
  <2>1. ASSUME NEW s \in Req, s # r PROVE Sees(s)'
    <3>1. Sees(s) /\ req'[s] = req[s] /\ name' = name /\ served' = served
      BY <1>3, <2>1 DEF GetCollectionChroma, CreateOpenFails, ProposeAdd, ProposeRemove, ProposeFails, ListChroma, Write, GetRecords, GetRecordsChroma, CountRecords, AddLearner, ChangeMembership, engine, Proceeds, Others, Seen
    <3> QED BY <3>1 DEF Sees, Bearers, Catalogued

  <2>2. req'[r] = Idle
    BY <1>3, Effects DEF Ends
  <2>3. Sees(r)'
    BY <2>2, IdleFacts DEF Sees
  <2> QED BY <2>1, <2>3 DEF Seen
<1>4. ASSUME NEW r \in Req, Proceeds(r), Typed,
             GetOrCreate(r) \/ Resolve(r) \/ GetCollection(r) \/ Count(r)
                \/ RemoveMember(r) \/ DeleteChroma(r)
      PROVE  Seen'
  <2>1. ASSUME NEW s \in Req, s # r PROVE Sees(s)'
    <3>1. Sees(s) /\ req'[s] = req[s] /\ name' = name /\ served' = served
      BY <1>4, <2>1 DEF GetOrCreate, Resolve, GetCollection, Count, RemoveMember, DeleteChroma, engine, Proceeds, Others, Seen
    <3> QED BY <3>1 DEF Sees, Bearers, Catalogued

  <2>2. req[r] = Idle \/ Fits(req[r].pc, req[r].kind, req[r].via, req[r].todo)
    BY DEF Shapes, Requests, AtStep
  <2>3. name' = name
    BY <1>4 DEF GetOrCreate, Resolve, GetCollection, Count, RemoveMember, DeleteChroma, engine
  <2>4. Sees(r)'
    <3>1. CASE req'[r] = Idle
      BY <3>1, IdleFacts, SMTT(40) DEF Sees
    <3>2. CASE GetOrCreate(r) /\ req'[r] # Idle
      BY <2>3, <3>2, Effects DEF Ends, Goes, On, Sees, Bearers, Catalogued
    <3>3. CASE Resolve(r) /\ req'[r] # Idle
      BY <2>3, <3>3, Effects DEF Ends, Goes, Sees, Bearers, Catalogued
    <3>4. CASE GetCollection(r) /\ req'[r] # Idle
      BY <2>2, <3>4, Effects, IdleFacts DEF GetCollection, Ends, Goes, On, Sees, Fits
    <3>5. CASE (Count(r) \/ RemoveMember(r) \/ DeleteChroma(r)) /\ req'[r] # Idle
      BY <3>5, Effects DEF Ends, Goes, On, Sees
    <3> QED BY <1>4, <3>1, <3>2, <3>3, <3>4, <3>5
  <2> QED BY <2>1, <2>4 DEF Seen
<1>5. ASSUME NEW r \in Req, Proceeds(r), Typed, CreateInsert(r) PROVE Seen'
  <2>1. req[r].kind \in Creates
    BY <1>5 DEF CreateInsert, Shapes, Requests, AtStep, Fits, Idle
  <2>2. Catalogued \subseteq Catalogued' /\ served' = served
    BY <1>5 DEF CreateInsert, Shapes, Records, Catalogued
  <2>3. ASSUME NEW s \in Req, s # r PROVE Sees(s)'
    <3>1. Sees(s) /\ req'[s] = req[s]
      BY <1>5, <2>3 DEF Proceeds, Others, Seen
    <3>2. CASE s \in Running
      <4>1. "create" \in Disturbance(req[r].kind)
        BY <2>1 DEF Disturbance, Creates, WriteKinds
      <4>2. "create" \in req[s].met
        BY <1>5, <2>3, <3>2, <4>1 DEF Met, Proceeds
      <4> QED BY <2>2, <3>1, <4>2 DEF Sees
    <3>3. CASE s \notin Running
      BY <3>1, <3>3 DEF Sees, Running
    <3> QED BY <3>2, <3>3
  <2>4. Sees(r)'
    BY <1>5, Effects, IdleFacts DEF Ends, Goes, Sees
  <2> QED BY <2>3, <2>4 DEF Seen
<1>6. ASSUME NEW r \in Req, Proceeds(r), Typed, CreateOpen(r) PROVE Seen'
  <2>1. name' = name /\ served' = served \cup {req[r].cid}
    BY <1>6 DEF CreateOpen
  <2>2. ASSUME NEW s \in Req, s # r PROVE Sees(s)'
    <3>1. Sees(s) /\ req'[s] = req[s]
      BY <1>6, <2>2 DEF Proceeds, Others, Seen
    <3> QED BY <2>1, <3>1 DEF Sees, Bearers, Catalogued
  <2>3. Sees(r)'
    BY <1>6, <2>1, Effects, IdleFacts DEF Ends, Goes, On, Sees
  <2> QED BY <2>2, <2>3 DEF Seen
<1>7. ASSUME NEW r \in Req, Proceeds(r), Typed, Unmap(r) \/ Erase(r) PROVE Seen'
  <2>1. req[r].kind = "remove"
    BY <1>7 DEF Unmap, Erase, Shapes, Requests, AtStep, Fits, Idle
  <2>2. \A u \in Cid : name'[u] = name[u] \/ name'[u] = None
    BY <1>7 DEF Unmap, Erase, Shapes, Records
  <2>3. ASSUME NEW s \in Req, s # r PROVE Sees(s)'
    <3>1. Sees(s) /\ req'[s] = req[s]
      BY <1>7, <2>3 DEF Proceeds, Others, Seen
    <3>2. CASE s \in Running
      <4>0. "remove" \in Disturbance(req[r].kind)
        BY <2>1 DEF Disturbance, WriteKinds
      <4>1. "remove" \in req[s].met
        BY <1>7, <2>3, <3>2, <4>0 DEF Met, Proceeds
      <4>2. Bearers(req[s].target)' \subseteq Bearers(req[s].target)
        BY <2>2, <3>1, SMTT(40) DEF Bearers, Catalogued
      <4> QED BY <3>1, <4>1, <4>2 DEF Sees
    <3>3. CASE s \notin Running
      BY <3>1, <3>3 DEF Sees, Running
    <3> QED BY <3>2, <3>3
  <2>4. Sees(r)'
    BY <1>7, Effects, IdleFacts, ZenonT(60) DEF Ends, Goes, On, Sees
  <2> QED BY <2>3, <2>4 DEF Seen
<1>8. ASSUME NEW r \in Req, Proceeds(r), Typed,
             ListScan(r) \/ ListNext(r) \/ QueryNext(r)
      PROVE  Seen'
  <2>1. ASSUME NEW s \in Req, s # r PROVE Sees(s)'
    <3>1. Sees(s) /\ req'[s] = req[s] /\ name' = name /\ served' = served
      BY <1>8, <2>1, Zenon DEF ListScan, ListNext, QueryNext, engine, Proceeds, Others, Seen
    <3> QED BY <3>1 DEF Sees, Bearers, Catalogued

  <2>2. Sees(r) /\ name' = name
    BY <1>8, Zenon DEF Seen, ListScan, ListNext, QueryNext, engine
  <2>3. Sees(r)'
    <3>1. CASE req'[r] = Idle
      BY <3>1, IdleFacts DEF Sees
    <3>2. CASE ListScan(r) /\ req'[r] # Idle
      BY <2>2, <3>2, Effects, ZenonT(60) DEF Goes, Sees, Catalogued
    <3>3. CASE ListNext(r) /\ req'[r] # Idle
      <4>1. /\ req'[r].pc = "listing" /\ req'[r].met = req[r].met
            /\ req'[r].todo \subseteq req[r].todo
        BY <3>3, Effects DEF Ends, Goes
      <4>2. req[r].pc = "listing"
        BY <3>3 DEF ListNext
      <4> QED BY <2>2, <4>1, <4>2 DEF Sees, Catalogued
    <3>4. CASE QueryNext(r) /\ req'[r] # Idle
      <4>1. /\ req'[r].pc = "act" /\ req'[r].met = req[r].met /\ req'[r].via = req[r].via
            /\ req'[r].cid = req[r].cid
        BY <3>4, Effects, ZenonT(60) DEF Ends, Goes
      <4>2. req[r].pc = "act"
        BY <3>4, Zenon DEF QueryNext
      <4> QED BY <2>2, <4>1, <4>2 DEF Sees, Catalogued
    <3> QED BY <1>8, <3>1, <3>2, <3>3, <3>4
  <2> QED BY <2>1, <2>3 DEF Seen
<1> QED BY Steps, <1>1, <1>2, <1>3, <1>4, <1>5, <1>6, <1>7, <1>8 DEF Handles

(* Without a write, a query's lists hold as much as the collection does.   *)
LEMMA RowsStep == Shapes /\ Members /\ Met /\ Rows /\ [Next]_vars => Rows'
<1> SUFFICES ASSUME Shapes, Members, Met, Rows, [Next]_vars PROVE Rows'
  OBVIOUS
<1>1. ASSUME NEW r \in Req, NEW kind, NEW via, NEW target, NEW b, Unmoved, Typed,
             Proper(kind, via, target, b), Arrives(r, kind, via, target, b)
      PROVE  Rows'
  <2>1. ASSUME NEW s \in Req, s # r PROVE HasRows(s)'
    <3>1. /\ req'[s].kind = req[s].kind /\ req'[s].pc = req[s].pc /\ req'[s].cid = req[s].cid
          /\ req'[s].body = req[s].body /\ req'[s].rows = req[s].rows
          /\ req[s].met \subseteq req'[s].met
      BY <1>1, <2>1 DEF Arrives
    <3>2. HasRows(s) /\ recs' = recs
      BY <1>1 DEF Rows, Unmoved, engine
    <3> QED BY <3>1, <3>2 DEF HasRows
  <2>2. req'[r].rows = <<>>
    BY <1>1 DEF Arrives
  <2>3. HasRows(r)'
    BY <2>2 DEF HasRows
  <2> QED BY <2>1, <2>3 DEF Rows
<1>2. ASSUME Unmoved, Typed, req' = req,
             resp' = resp \/ \A a \in resp' : a.pc = "invalid" /\ a.kind = None
      PROVE  Rows'
  <2>1. \A s \in Req : HasRows(s)'
    BY <1>2 DEF Rows, HasRows, Unmoved, engine
  <2> QED BY <2>1 DEF Rows
<1>3. ASSUME NEW r \in Req, Proceeds(r), Typed,
             GetCollection(r) \/ GetCollectionChroma(r) \/ GetOrCreate(r)
                \/ CreateInsert(r) \/ CreateOpen(r) \/ CreateOpenFails(r)
                \/ Count(r) \/ ProposeAdd(r) \/ DeleteChroma(r) \/ Erase(r)
                \/ Unmap(r) \/ ProposeRemove(r) \/ ProposeFails(r)
                \/ ListChroma(r) \/ ListScan(r) \/ ListNext(r) \/ GetRecords(r)
                \/ GetRecordsChroma(r) \/ CountRecords(r) \/ AddLearner(r)
                \/ RemoveMember(r) \/ ChangeMembership(r)
      PROVE  Rows'
  <2>1. ASSUME NEW s \in Req, s # r PROVE HasRows(s)'
    <3>1. HasRows(s) /\ req'[s] = req[s] /\ recs' = recs
      BY <1>3, <2>1, SMTT(40) DEF GetCollection, GetCollectionChroma, GetOrCreate,
           CreateInsert, CreateOpen, CreateOpenFails, Count, ProposeAdd, DeleteChroma, Erase,
           Unmap, ProposeRemove, ProposeFails, ListChroma, ListScan, ListNext, GetRecords,
           GetRecordsChroma, CountRecords, AddLearner, RemoveMember, ChangeMembership, engine,
           Proceeds, Others, Rows
    <3> QED BY <3>1 DEF HasRows
  <2>2. req'[r].pc # "act"
    BY <1>3, Effects, IdleFacts DEF Ends, Goes, On
  <2>3. HasRows(r)'
    BY <2>2 DEF HasRows
  <2> QED BY <2>1, <2>3 DEF Rows
<1>4. ASSUME NEW r \in Req, Proceeds(r), Typed, Resolve(r) PROVE Rows'
  <2>1. ASSUME NEW s \in Req, s # r PROVE HasRows(s)'
    <3>1. HasRows(s) /\ req'[s] = req[s] /\ recs' = recs
      BY <1>4, <2>1 DEF Resolve, engine, Proceeds, Others, Rows
    <3> QED BY <3>1 DEF HasRows
  <2>2. req[r].rows = <<>>
    BY <1>4 DEF Resolve, Shapes, Requests, Carries
  <2>3. HasRows(r)'
    <3>1. req'[r] = Idle \/ req'[r].rows = <<>>
      BY <1>4, <2>2, Effects DEF Ends, Goes
    <3> QED BY <3>1, IdleFacts, SMTT(40) DEF HasRows
  <2> QED BY <2>1, <2>3 DEF Rows
<1>5. ASSUME NEW r \in Req, Proceeds(r), Typed, Write(r) PROVE Rows'
  <2>1. req[r].kind \in WriteKinds
    BY <1>5 DEF Write
  <2>2. ASSUME NEW s \in Req, s # r PROVE HasRows(s)'
    <3>1. req'[s] = req[s]
      BY <1>5, <2>2 DEF Proceeds, Others
    <3>2. CASE s \in Running
      <4>1. "write" \in req[s].met
        BY <1>5, <2>1, <2>2, <3>2 DEF Met, Proceeds, Disturbance, WriteKinds
      <4> QED BY <3>1, <4>1 DEF HasRows
    <3>3. CASE s \notin Running
      BY <3>1, <3>3 DEF HasRows, Running
    <3> QED BY <3>2, <3>3
  <2>3. req'[r] = Idle
    BY <1>5, Effects DEF Ends
  <2>4. HasRows(r)'
    BY <2>3, IdleFacts DEF HasRows
  <2> QED BY <2>2, <2>4 DEF Rows
<1>6. ASSUME NEW r \in Req, Proceeds(r), Typed, QueryNext(r) PROVE Rows'
  <2>1. recs' = recs
    BY <1>6, Zenon DEF QueryNext, engine
  <2>2. ASSUME NEW s \in Req, s # r PROVE HasRows(s)'
    <3>1. HasRows(s) /\ req'[s] = req[s]
      BY <1>6, <2>2 DEF Proceeds, Others, Rows
    <3> QED BY <2>1, <3>1 DEF HasRows
  <2>3. CASE req'[r] = Idle
    <3>1. HasRows(r)'
      BY <2>3, IdleFacts DEF HasRows
    <3> QED BY <2>2, <3>1 DEF Rows
  <2>4. ASSUME NEW n \in RowSizes(req[r].cid, req[r].body),
               Goes(r, "act", req[r].cid, req[r].todo, Append(req[r].rows, n))
        PROVE  Rows'
    <3> DEFINE most == Smaller(req[r].body.k, Cardinality(recs[req[r].cid]))
    <3>1. req[r].rows \in Seq(Nat) /\ n \in Nat
      <4>1. req[r].body \in Bodies /\ req[r].cid \in Cid
        BY <1>6, Zenon DEF QueryNext, Shapes, Records, Requests, Carries, OnOne
      <4>2. n \in Nat
        BY <4>1, RowSize
      <4> QED BY <4>2, SMTT(40) DEF Shapes, Requests, Request, Lists
    <3>2. /\ req'[r].cid = req[r].cid /\ req'[r].body = req[r].body /\ req'[r].met = req[r].met
          /\ req'[r].rows = Append(req[r].rows, n) /\ req'[r].kind = req[r].kind
      BY <2>4 DEF Goes
    <3>3. ~ req[r].body.filtered => n = most
      BY SMTT(40) DEF RowSizes
    <3>4. HasRows(r) /\ req[r].pc = "act"
      BY <1>6, Zenon DEF Rows, QueryNext
    <3>5. ASSUME ~ req[r].body.filtered, "write" \notin req[r].met, req[r].kind = "query"
          PROVE  \A i \in DOMAIN Append(req[r].rows, n) : Append(req[r].rows, n)[i] = most
      <4>1. n = most /\ \A i \in DOMAIN req[r].rows : req[r].rows[i] = most
        BY <3>3, <3>4, <3>5 DEF HasRows
      <4> HIDE DEF most
      <4> QED BY <3>1, <4>1
    <3>6. HasRows(r)'
      BY <2>1, <3>2, <3>5, SMTT(40) DEF HasRows
    <3> QED BY <2>2, <3>6 DEF Rows
  <2> QED BY <1>6, <2>3, <2>4, Effects DEF Ends
<1> QED BY Steps, <1>1, <1>2, <1>3, <1>4, <1>5, <1>6 DEF Handles

(* cause only grows.                                                       *)
LEMMA CauseGrows ==
    ASSUME NEW r \in Req, Handles(r)
    PROVE  cause \subseteq cause'
<1>1. ASSUME UNCHANGED cause PROVE cause \subseteq cause'
  BY <1>1
<1>2. CASE CreateOpen(r) \/ CreateOpenFails(r) \/ ProposeFails(r) \/ ProposeRemove(r)
  BY <1>2 DEF CreateOpen, CreateOpenFails, ProposeFails, ProposeRemove
<1> QED BY <1>1, <1>2, Zenon DEF Handles, Resolve, GetCollection, GetCollectionChroma,
     GetOrCreate, CreateInsert, Count, ProposeAdd, DeleteChroma, Erase, Unmap, ListChroma,
     ListScan, ListNext, Write, QueryNext, GetRecords, GetRecordsChroma, CountRecords,
     AddLearner, RemoveMember, ChangeMembership

(* Who makes or removes u, and is not answered in this step, still does.   *)
Persists(r) ==
    \A s \in Req, u \in Cid :
        /\ Makes(s, u) => Makes(s, u)' \/ (s = r /\ req'[r] = Idle)
        /\ Removes(s, u) => Removes(s, u)' \/ (s = r /\ req'[r] = Idle)
        /\ ~ CreateInsert(r) => (Makes(s, u)' => Makes(s, u) /\ req'[s].kind = req[s].kind)
        /\ ~ Erase(r) => (Removes(s, u)' => Removes(s, u))
        /\ s # r => /\ Makes(s, u)' => Makes(s, u) /\ req'[s].kind = req[s].kind
                    /\ Removes(s, u)' => Removes(s, u)

LEMMA HandlesPersists ==
    ASSUME Shapes, Members, NEW r \in Req, Handles(r)
    PROVE  Persists(r) /\ cause \subseteq cause' /\ Proceeds(r)
<1>1. Proceeds(r) /\ cause \subseteq cause'
  BY HandlesProceed, CauseGrows
<1>2. ASSUME NEW s \in Req, NEW u, s # r
      PROVE  /\ Makes(s, u)' <=> Makes(s, u)
             /\ Removes(s, u)' <=> Removes(s, u)
             /\ req'[s].kind = req[s].kind
  BY <1>1, <1>2 DEF Proceeds, Others, Makes, Removes
<1>3. ASSUME NEW u, Makes(r, u)' PROVE req'[r].kind = req[r].kind
  <2>1. req'[r] # Idle
    BY <1>3, IdleFacts DEF Makes, Creates, None
  <2> QED BY <1>1, <2>1 DEF Proceeds
<1> QED BY <1>1, <1>2, <1>3, HandlesTracks DEF Tracks, Persists

(* Raft's state machine and the catalog differ only where something        *)
(* explains it, or where a request is at work.                             *)
Lacking == \A u \in Catalogued \ registered : Explained(u) \/ \E s \in Req : Makes(s, u)
Leftover == \A u \in registered \ Catalogued : Explained(u) \/ \E s \in Req : Removes(s, u)
Undone ==
    \A s \in Req, u \in Cid : Makes(s, u) /\ req[s].kind = "create" =>
        u \in Catalogued \/ Explained(u) \/ \E t \in Req : Removes(t, u)

Registered == Lacking /\ Leftover /\ Undone

(* A step that changes neither the catalog nor, where nothing explains it, *)
(* the state machine, and explains what it leaves unfinished.              *)
LEMMA KeepsRegistered ==
    ASSUME Shapes, Registered, NEW r \in Req, Persists(r), cause \subseteq cause',
           name' = name, registered' \subseteq Cid,
           \A u \in Cid : Explained(u)' \/ (u \in registered' <=> u \in registered),
           \A u \in Cid : Makes(r, u)' => Makes(r, u) /\ req'[r].kind = req[r].kind,
           req'[r] = Idle =>
              /\ \A u \in Cid : Makes(r, u) => u \notin Catalogued \/ Explained(u)'
              /\ \A u \in Cid : Removes(r, u) => Explained(u)'
    PROVE  Registered'
<1>1. Catalogued' = Catalogued /\ Catalogued \subseteq Cid
  BY DEF Catalogued
<1>2. \A u \in Cid : Explained(u) => Explained(u)'
  BY DEF Explained
<1>3. \A u \in Catalogued, s \in Req : Makes(s, u) => Explained(u)' \/ Makes(s, u)'
  BY <1>1 DEF Persists
<1>4. \A u \in Cid, s \in Req : Removes(s, u) => Explained(u)' \/ Removes(s, u)'
  BY DEF Persists
<1>5. Lacking'
  BY <1>1, <1>2, <1>3 DEF Registered, Lacking
<1>6. Leftover'
  BY <1>1, <1>2, <1>4 DEF Registered, Leftover
<1>7. Undone'
  <2>1. ASSUME NEW s \in Req, NEW u \in Cid, Makes(s, u)', req'[s].kind = "create"
        PROVE  u \in Catalogued' \/ Explained(u)' \/ \E t \in Req : Removes(t, u)'
    <3>1. Makes(s, u) /\ req[s].kind = "create"
      BY <2>1 DEF Persists
    <3> QED BY <1>1, <1>2, <1>4, <3>1 DEF Registered, Undone
  <2> QED BY <2>1 DEF Undone
<1> QED BY <1>5, <1>6, <1>7 DEF Registered

(* Whatever makes catalog and state machine differ is at work or explained. *)
LEMMA RegisteredStep == Shapes /\ Members /\ Erased /\ OneMaker /\ Unserved /\ Registered /\ [Next]_vars => Registered'
<1> SUFFICES ASSUME Shapes, Members, Erased, OneMaker, Unserved, Registered, [Next]_vars PROVE Registered'
  OBVIOUS
<1>1. ASSUME NEW r \in Req, NEW kind, NEW via, NEW target, NEW b, Unmoved, Typed,
             Proper(kind, via, target, b), Arrives(r, kind, via, target, b)
      PROVE  Registered'
  <2>1. Catalogued' = Catalogued /\ registered' = registered
    BY <1>1 DEF Unmoved, engine, Catalogued
  <2>2. \A u \in Cid : Explained(u)' <=> Explained(u)
    BY <1>1 DEF Unmoved, Explained
  <2>3. \A s \in Req, u \in Cid : Makes(s, u)' => req'[s].kind = req[s].kind
    BY <1>1, ArrivesTracks, IdleFacts DEF Arrives, Makes, Creates, None
  <2>4. Catalogued \cup registered \subseteq Cid
    BY DEF Shapes, Records
  <2> QED BY <1>1, <2>1, <2>2, <2>3, <2>4, ArrivesTracks
          DEF Registered, Lacking, Leftover, Undone
<1>2. ASSUME Unmoved, Typed, req' = req,
             resp' = resp \/ \A a \in resp' : a.pc = "invalid" /\ a.kind = None
      PROVE  Registered'
  <2>1. Catalogued' = Catalogued /\ registered' = registered
    BY <1>2 DEF Unmoved, engine, Catalogued
  <2>2. \A u \in Cid : Explained(u)' <=> Explained(u)
    BY <1>2 DEF Unmoved, Explained
  <2>3. \A s \in Req, u \in Cid :
           (Makes(s, u)' <=> Makes(s, u)) /\ (Removes(s, u)' <=> Removes(s, u))
    BY <1>2 DEF Makes, Removes
  <2>4. Catalogued \cup registered \subseteq Cid
    BY DEF Shapes, Records
  <2> QED BY <1>2, <2>1, <2>2, <2>3, <2>4 DEF Registered, Lacking, Leftover, Undone
<1>3. ASSUME NEW r \in Req, Proceeds(r), Typed,
             Resolve(r) \/ GetCollection(r) \/ GetCollectionChroma(r)
                \/ GetOrCreate(r) \/ DeleteChroma(r) \/ ListChroma(r)
                \/ ListScan(r) \/ ListNext(r) \/ Write(r) \/ QueryNext(r)
                \/ GetRecords(r) \/ GetRecordsChroma(r) \/ CountRecords(r)
                \/ AddLearner(r) \/ RemoveMember(r) \/ ChangeMembership(r)
      PROVE  Registered'
  <2>1. Handles(r) /\ registered' \subseteq Cid
    BY <1>3, RecordsStep DEF Handles, Records
  <2>2. Persists(r) /\ cause \subseteq cause'
    BY <2>1, HandlesPersists, SMTT(40)
  <2>3. name' = name /\ registered' = registered /\ ~ CreateInsert(r)
    BY <1>3, ZenonT(60) DEF Resolve, GetCollection, GetCollectionChroma, GetOrCreate,
         DeleteChroma, ListChroma, ListScan, ListNext, Write, QueryNext, GetRecords,
         GetRecordsChroma, CountRecords, AddLearner, RemoveMember, ChangeMembership, engine,
         CreateInsert

  <2>4. \A u \in Cid : ~ Makes(r, u) /\ ~ Removes(r, u)
    BY <1>3, Zenon DEF Resolve, GetCollection, GetCollectionChroma, GetOrCreate, DeleteChroma,
         ListChroma, ListScan, ListNext, Write, QueryNext, GetRecords, GetRecordsChroma,
         CountRecords, AddLearner, RemoveMember, ChangeMembership, Makes, Removes
  <2> QED BY <2>1, <2>2, <2>3, <2>4, KeepsRegistered DEF Persists
<1>4. ASSUME NEW r \in Req, Proceeds(r), Typed,
             CreateOpen(r) \/ CreateOpenFails(r)
      PROVE  Registered'
  <2>1. Handles(r) /\ registered' \subseteq Cid
    BY <1>4, RecordsStep DEF Handles, Records
  <2>2. Persists(r) /\ cause \subseteq cause'
    BY <2>1, HandlesPersists
  <2>3. name' = name /\ registered' = registered /\ ~ CreateInsert(r)
    BY <1>4 DEF CreateOpen, CreateOpenFails, engine, CreateInsert

  <2>4. ASSUME req'[r] = Idle, NEW u \in Cid, u = req[r].cid PROVE Explained(u)'
    <3>1. ~ (CreateOpen(r) /\ req'[r].pc = "count")
      BY <2>4, IdleFacts
    <3>2. <<"chroma", u>> \in cause' \/ <<"open", u>> \in cause'
      BY <1>4, <2>4, <3>1, Effects DEF CreateOpenFails, Goes, On
    <3> QED BY <3>2 DEF Explained
  <2>5. \A u \in Cid : Makes(r, u) \/ Removes(r, u) => u = req[r].cid
    BY DEF Makes, Removes
  <2> QED BY <2>1, <2>2, <2>3, <2>4, <2>5, KeepsRegistered DEF Persists
<1>5. ASSUME NEW r \in Req, Proceeds(r), Typed, Count(r) PROVE Registered'
  <2>1. Handles(r) /\ registered' \subseteq Cid
    BY <1>5, RecordsStep DEF Handles, Records
  <2>2. Persists(r) /\ cause \subseteq cause'
    BY <2>1, HandlesPersists
  <2>3. name' = name /\ registered' = registered /\ ~ CreateInsert(r)
    BY <1>5 DEF Count, engine, CreateInsert

  <2>4. ASSUME req'[r] = Idle, NEW u \in Catalogued, Makes(r, u) PROVE Explained(u)'
    <3>1. req[r].pc = "count" /\ Makes(r, u) /\ req[r].cid = u /\ req[r].kind \in Creates
      BY <1>5, <2>4 DEF Count, Makes, Removes
    <3>2. req[r].kind = "create"
      BY <3>1 DEF Shapes, Requests, AtStep, Fits, Idle, Creates
    <3>3. u \notin served
      <4>1. req'[r].pc # "propose"
        BY <2>4, IdleFacts
      <4> QED BY <1>5, <3>1, <3>2, <4>1, Effects DEF Goes, On
    <3>4. ~ \E s \in Req : req[s].pc = "open" /\ req[s].cid = u
      <4>1. ASSUME NEW s \in Req, req[s].pc = "open", req[s].cid = u PROVE Makes(s, u)
        BY <4>1 DEF Shapes, Requests, AtStep, Fits, Idle, Makes
      <4> QED BY <2>4, <3>1, <4>1 DEF OneMaker, Catalogued
    <3>5. Explained(u)
      BY <2>4, <3>3, <3>4 DEF Unserved, Explained
    <3> QED BY <2>2, <3>5 DEF Explained
  <2>5. \A u \in Cid : ~ Removes(r, u)
    BY <1>5 DEF Count, Removes
  <2> QED BY <2>1, <2>2, <2>3, <2>4, <2>5, KeepsRegistered DEF Persists
<1>6. ASSUME NEW r \in Req, Proceeds(r), Typed, Unmap(r) PROVE Registered'
  <2>1. Handles(r) /\ registered' \subseteq Cid
    BY <1>6, RecordsStep DEF Handles, Records
  <2>2. Persists(r) /\ cause \subseteq cause'
    BY <2>1, HandlesPersists
  <2>3. name' = name /\ registered' = registered /\ ~ CreateInsert(r)
    BY <1>6 DEF Unmap, engine, CreateInsert

  <2>4. req'[r] # Idle
    BY <1>6, Effects, IdleFacts DEF Goes, On
  <2> QED BY <2>1, <2>2, <2>3, <2>4, KeepsRegistered DEF Persists
<1>7. ASSUME NEW r \in Req, Proceeds(r), Typed, CreateInsert(r) PROVE Registered'
  <2>1. Handles(r) /\ registered' \subseteq Cid
    BY <1>7, RecordsStep DEF Handles, Records
  <2>2. Persists(r) /\ cause \subseteq cause'
    BY <2>1, HandlesPersists
  <2>3. registered' = registered
    BY <1>7 DEF CreateInsert
  <2>4. \A u \in Cid : ~ Makes(r, u) /\ ~ Removes(r, u)
    BY <1>7 DEF CreateInsert, Makes, Removes
  <2>5. CASE req'[r] = Idle /\ name' = name
    <3>1. \A u \in Cid : ~ Makes(r, u)'
      BY <2>5, IdleFacts DEF Makes, Creates, None
    <3> QED BY <2>1, <2>2, <2>3, <2>4, <2>5, <3>1, KeepsRegistered
  <2>6. ASSUME NEW u \in Cid, name' = [name EXCEPT ![u] = req[r].target],
               Goes(r, "open", u, req[r].todo, req[r].rows)
        PROVE  Registered'
    <3>1. req[r].kind \in Creates /\ req[r].target \in Name
      BY <1>7 DEF CreateInsert, Shapes, Requests, AtStep, Fits, Carries, Idle
    <3>2. Makes(r, u)' /\ \A v \in Cid : Makes(r, v)' => v = u
      BY <2>6, <3>1 DEF Goes, Makes
    <3>3. Catalogued' = Catalogued \cup {u}
      BY <2>6, <3>1, ApiAssumption DEF Shapes, Records, Catalogued
    <3>4. req'[r] # Idle
      BY <2>6, IdleFacts DEF Goes
    <3>5. \A v \in Cid : Explained(v) => Explained(v)'
      BY <2>2 DEF Explained
    <3>6. Lacking'
      BY <2>2, <2>3, <3>2, <3>3, <3>4, <3>5 DEF Registered, Lacking, Persists, Catalogued
    <3>7. Leftover'
      BY <2>1, <2>2, <2>3, <3>3, <3>4, <3>5 DEF Registered, Leftover, Persists
    <3>8. Undone'
      <4>1. ASSUME NEW s \in Req, NEW v \in Cid, Makes(s, v)', req'[s].kind = "create", s # r
            PROVE  v \in Catalogued' \/ Explained(v)' \/ \E t \in Req : Removes(t, v)'
        BY <2>2, <3>3, <3>4, <3>5, <4>1 DEF Registered, Undone, Persists
      <4> QED BY <3>2, <3>3, <4>1 DEF Undone
    <3> QED BY <3>6, <3>7, <3>8 DEF Registered
  <2> QED BY <1>7, <2>5, <2>6, Effects DEF Ends
<1>8. ASSUME NEW r \in Req, Proceeds(r), Typed, Erase(r) PROVE Registered'
  <2>1. Handles(r) /\ registered' \subseteq Cid
    BY <1>8, RecordsStep DEF Handles, Records
  <2>2. Persists(r) /\ cause \subseteq cause'
    BY <2>1, HandlesPersists
  <2>3. registered' = registered /\ ~ CreateInsert(r)
    BY <1>8 DEF Erase, CreateInsert
  <2>4. \A u \in Cid : ~ Makes(r, u) /\ ~ Removes(r, u)
    BY <1>8 DEF Erase, Makes, Removes
  <2>5. CASE req'[r] = Idle /\ name' = name
    BY <2>1, <2>2, <2>3, <2>4, <2>5, KeepsRegistered DEF Persists
  <2>6. ASSUME name' = [name EXCEPT ![req[r].cid] = None], On(r, "unmap") PROVE Registered'
    <3>1. req[r].kind = "remove"
      BY <1>8 DEF Erase, Shapes, Requests, AtStep, Fits, Idle
    <3>2. \A v \in Cid : v = req[r].cid => Removes(r, v)'
      BY <2>6, <3>1 DEF On, Goes, Removes
    <3>3. Catalogued' = Catalogued \ {req[r].cid}
      BY <2>6 DEF Shapes, Records, Catalogued
    <3>4. req'[r] # Idle
      BY <2>6, IdleFacts DEF On, Goes
    <3>5. \A v \in Cid : Explained(v) => Explained(v)'
      BY <2>2 DEF Explained
    <3>6. Lacking'
      BY <2>2, <2>3, <3>3, <3>4, <3>5 DEF Registered, Lacking, Persists, Catalogued
    <3>7. Leftover'
      BY <2>1, <2>2, <2>3, <3>2, <3>3, <3>4, <3>5 DEF Registered, Leftover, Persists
    <3>8. Undone'
      <4>1. ASSUME NEW s \in Req, NEW v \in Cid, Makes(s, v)', req'[s].kind = "create"
            PROVE  v \in Catalogued' \/ Explained(v)' \/ \E t \in Req : Removes(t, v)'
        <5>1. Makes(s, v) /\ req[s].kind = "create"
          BY <2>2, <2>3, <4>1 DEF Persists
        <5>2. v \in Catalogued \/ Explained(v) \/ \E t \in Req : Removes(t, v)
          BY <5>1 DEF Registered, Undone
        <5> QED BY <2>2, <3>2, <3>3, <3>4, <3>5, <5>2 DEF Persists
      <4> QED BY <4>1 DEF Undone
    <3> QED BY <3>6, <3>7, <3>8 DEF Registered
  <2> QED BY <1>8, <2>5, <2>6, Effects DEF Ends
<1>9. ASSUME NEW r \in Req, Proceeds(r), Typed, ProposeFails(r) PROVE Registered'
  <2>1. Handles(r) /\ registered' \subseteq Cid
    BY <1>9, RecordsStep DEF Handles, Records
  <2>2. Persists(r) /\ cause \subseteq cause'
    BY <2>1, HandlesPersists
  <2>3. name' = name /\ ~ CreateInsert(r)
    BY <1>9 DEF ProposeFails, engine, CreateInsert
  <2>4. ASSUME NEW u \in Cid, u = req[r].cid PROVE Explained(u)'
    BY <1>9, <2>4 DEF ProposeFails, Explained
  <2>5. \A u \in Cid : u # req[r].cid => (u \in registered' <=> u \in registered)
    BY <1>9 DEF ProposeFails
  <2>6. \A u \in Cid : Makes(r, u) \/ Removes(r, u) => u = req[r].cid
    BY DEF Makes, Removes
  <2>7. \A u \in Cid : Explained(u)' \/ (u \in registered' <=> u \in registered)
    BY <2>4, <2>5
  <2> QED BY <2>1, <2>2, <2>3, <2>4, <2>6, <2>7, KeepsRegistered DEF Persists
<1>10. ASSUME NEW r \in Req, Proceeds(r), Typed, ProposeAdd(r) PROVE Registered'
  <2> DEFINE u == req[r].cid
  <2>1. Handles(r) /\ registered' \subseteq Cid
    BY <1>10, RecordsStep DEF Handles, Records
  <2>2. Persists(r) /\ cause \subseteq cause' /\ ~ CreateInsert(r)
    BY <1>10, <2>1, HandlesPersists DEF ProposeAdd, CreateInsert
  <2>3. Catalogued' = Catalogued /\ registered' = registered \cup {u}
    BY <1>10 DEF ProposeAdd, engine, Catalogued
  <2>4. Makes(r, u) /\ req[r].kind = "create" /\ u \in Cid
    BY <1>10 DEF ProposeAdd, Creates, Makes, Shapes, Requests, Records, Carries, OnOne
  <2>5. \A v \in Cid : ~ Removes(r, v) /\ (Makes(r, v) => v = u)
    BY <2>4 DEF Makes, Removes
  <2>6. \A v \in Cid : Explained(v) => Explained(v)'
    BY <2>2 DEF Explained
  <2>7. \A t \in Req, v \in Cid : Removes(t, v) => Removes(t, v)'
    BY <2>2, <2>5 DEF Persists
  <2> HIDE DEF u
  <2>8. Lacking'
    BY <2>2, <2>3, <2>5, <2>6 DEF Registered, Lacking, Persists, Catalogued
  <2>9. Leftover'
    BY <2>1, <2>3, <2>4, <2>6, <2>7 DEF Registered, Leftover, Undone
  <2>10. Undone'
    <3>1. ASSUME NEW s \in Req, NEW v \in Cid, Makes(s, v)', req'[s].kind = "create"
          PROVE  v \in Catalogued' \/ Explained(v)' \/ \E t \in Req : Removes(t, v)'
      <4>1. Makes(s, v) /\ req[s].kind = "create"
        BY <2>2, <3>1 DEF Persists
      <4> QED BY <2>3, <2>6, <2>7, <4>1 DEF Registered, Undone
    <3> QED BY <3>1 DEF Undone
  <2> QED BY <2>8, <2>9, <2>10 DEF Registered
<1>11. ASSUME NEW r \in Req, Proceeds(r), Typed, ProposeRemove(r) PROVE Registered'
  <2> DEFINE u == req[r].cid
  <2>1. Handles(r) /\ registered' \subseteq Cid
    BY <1>11, RecordsStep DEF Handles, Records
  <2>2. Persists(r) /\ cause \subseteq cause' /\ ~ CreateInsert(r)
    BY <1>11, <2>1, HandlesPersists DEF ProposeRemove, CreateInsert
  <2>3. Catalogued' = Catalogued /\ registered' = registered \ {u}
    BY <1>11 DEF ProposeRemove, engine, Catalogued
  <2>4. Removes(r, u) /\ req[r].kind = "remove" /\ u \in Cid
    BY <1>11 DEF ProposeRemove, Removes, Shapes, Requests, Records, Carries, OnOne
  <2>5. \A v \in Cid : ~ Makes(r, v) /\ (Removes(r, v) => v = u)
    BY <2>4 DEF Makes, Removes, Creates
  <2>6. \A v \in Cid : Explained(v) => Explained(v)'
    BY <2>2 DEF Explained
  <2>7. u \notin Catalogued
    BY <2>4 DEF Erased
  <2>8. ASSUME NEW s \in Req, NEW v \in Cid, v = u, Makes(s, v), req[s].kind = "create"
        PROVE  Explained(v)'
    <3>1. s \in Running /\ req[s].cid = v
      BY <2>8 DEF Makes, Running
    <3>2. <<"overtaken", v>> \in cause'
      BY <1>11, <2>8, <3>1 DEF ProposeRemove
    <3> QED BY <3>2 DEF Explained
  <2> HIDE DEF u
  <2>9. Lacking'
    BY <2>2, <2>3, <2>5, <2>6, <2>7 DEF Registered, Lacking, Persists, Catalogued
  <2>10. Leftover'
    BY <2>1, <2>2, <2>3, <2>5, <2>6 DEF Registered, Leftover, Persists
  <2>11. Undone'
    <3>1. ASSUME NEW s \in Req, NEW v \in Cid, Makes(s, v)', req'[s].kind = "create"
          PROVE  v \in Catalogued' \/ Explained(v)' \/ \E t \in Req : Removes(t, v)'
      <4>1. Makes(s, v) /\ req[s].kind = "create"
        BY <2>2, <3>1 DEF Persists
      <4>2. CASE v = u
        BY <2>8, <4>1, <4>2
      <4>3. CASE v # u
        <5>1. \A t \in Req : Removes(t, v) => Removes(t, v)'
          BY <2>2, <2>5, <4>3 DEF Persists
        <5> QED BY <2>3, <2>6, <4>1, <5>1 DEF Registered, Undone
      <4> QED BY <4>2, <4>3
    <3> QED BY <3>1 DEF Undone
  <2> QED BY <2>9, <2>10, <2>11 DEF Registered
<1> QED BY Steps, <1>1, <1>2, <1>3, <1>4, <1>5, <1>6, <1>7, <1>8, <1>9, <1>10,
    <1>11 DEF Handles

(* An answer to r: what it repeats of the request, and why it is a refusal. *)
Answer(r, a) ==
    /\ a.pc \in Outcomes \ {"panic"}
    /\ a.kind = req[r].kind /\ a.via = req[r].via /\ a.target = req[r].target
    /\ a.met = req[r].met
    /\ a.pc = "exists" => req[r].pc = "insert" /\ Bearers(req[r].target) # {}
    /\ a.pc = "not_found" =>
          /\ name' = name
          /\ \/ Bearers(req[r].target) = {} /\ req[r].kind \notin {"list", "create"}
             \/ req[r].pc = "listing" /\ \E u \in req[r].todo : u \notin served
             \/ req[r].pc \in {"count", "act"} /\ req[r].cid \notin served

(* The answer to a query that went through.                                *)
RowsOf(r, a) ==
    /\ a.pc = "ok" /\ a.body = req[r].body
    /\ \E n \in RowSizes(req[r].cid, req[r].body) :
          a.rows = Shown(req[r].via, Append(req[r].rows, n))

LEMMA QueryAnswers ==
    ASSUME Shapes, Members, NEW r \in Req, QueryNext(r), NEW a \in resp'
    PROVE  Answer(r, a) /\ (a.pc = "ok" => RowsOf(r, a))
<1>1. req[r] \in Request /\ name' = name /\ req[r].pc = "act"
  BY Zenon DEF Shapes, Requests, QueryNext, engine
<1>2. CASE Respond(r, "invalid")
  <2>1. Ends(r, "invalid")
    BY <1>2, Responds DEF Shapes, Requests, Outcomes
  <2> QED BY <2>1 DEF Ends, Answer, Outcomes
<1>3. CASE Respond(r, "not_found") /\ req[r].cid \notin served
  <2>1. Ends(r, "not_found")
    BY <1>3, Responds DEF Shapes, Requests, Outcomes
  <2> QED BY <1>1, <1>3, <2>1 DEF Ends, Answer, Outcomes
<1>4. ASSUME NEW n \in RowSizes(req[r].cid, req[r].body),
             resp' = {[req[r] EXCEPT !.pc = "ok",
                                     !.rows = Shown(req[r].via, Append(req[r].rows, n))]}
      PROVE  Answer(r, a) /\ RowsOf(r, a)
  <2>1. ASSUME NEW q \in Request, NEW rows, a = [q EXCEPT !.pc = "ok", !.rows = rows]
        PROVE  /\ a.pc = "ok" /\ a.rows = rows /\ a.kind = q.kind /\ a.via = q.via
               /\ a.target = q.target /\ a.met = q.met /\ a.body = q.body
    BY <2>1 DEF Request
  <2>2. a = [req[r] EXCEPT !.pc = "ok", !.rows = Shown(req[r].via, Append(req[r].rows, n))]
    BY <1>4
  <2>3. /\ a.pc = "ok" /\ a.rows = Shown(req[r].via, Append(req[r].rows, n))
        /\ a.kind = req[r].kind /\ a.via = req[r].via
        /\ a.target = req[r].target /\ a.met = req[r].met /\ a.body = req[r].body
    BY <1>1, <2>1, <2>2, ZenonT(60)
  <2> QED BY <2>3 DEF Answer, RowsOf, Outcomes
<1>5. \/ Respond(r, "not_found") /\ req[r].cid \notin served
      \/ Respond(r, "invalid")
      \/ \E n \in RowSizes(req[r].cid, req[r].body) :
            resp' = {[req[r] EXCEPT !.pc = "ok",
                                    !.rows = Shown(req[r].via, Append(req[r].rows, n))]}
  BY Zenon DEF QueryNext
<1> QED BY <1>2, <1>3, <1>4, <1>5, ZenonT(60)

LEMMA Answers ==
    ASSUME Shapes, Members, NEW r \in Req, Handles(r), NEW a \in resp'
    PROVE  /\ Answer(r, a)
           /\ req[r].kind = "query" /\ a.pc = "ok" => RowsOf(r, a)
<1>1. req[r] # Idle => Fits(req[r].pc, req[r].kind, req[r].via, req[r].todo)
  BY DEF Shapes, Requests, AtStep
<1>2. CASE QueryNext(r)
  BY <1>2, QueryAnswers
<1>3. ASSUME NEW outcome \in Outcomes \ {"panic", "exists", "not_found"}, Ends(r, outcome)
      PROVE  Answer(r, a) /\ a.pc = outcome
  BY <1>3 DEF Ends, Answer
<1>4. ASSUME Ends(r, "exists"), req[r].pc = "insert", Bearers(req[r].target) # {}
      PROVE  Answer(r, a) /\ a.pc = "exists"
  BY <1>4 DEF Ends, Answer, Outcomes
<1>5. ASSUME Ends(r, "not_found"), name' = name,
             \/ Bearers(req[r].target) = {} /\ req[r].kind \notin {"list", "create"}
             \/ req[r].pc = "listing" /\ \E u \in req[r].todo : u \notin served
             \/ req[r].pc \in {"count", "act"} /\ req[r].cid \notin served
      PROVE  Answer(r, a) /\ a.pc = "not_found"
  BY <1>5 DEF Ends, Answer, Outcomes
<1>6. ASSUME NEW step, NEW u, NEW todo, NEW rows PROVE ~ Goes(r, step, u, todo, rows)
  BY DEF Goes
<1>7. {"ok", "created", "invalid", "missing", "io", "unreplicated", "not_leader"}
        \subseteq Outcomes \ {"panic", "exists", "not_found"}
  BY DEF Outcomes
<1>8. CASE Resolve(r)
  <2>1. name' = name
    BY <1>8 DEF Resolve, engine
  <2>2. req[r].pc = "resolve" /\ Fits(req[r].pc, req[r].kind, req[r].via, req[r].todo)
    BY <1>1, <1>8, IdleFacts DEF Resolve
  <2>3. req[r].pc \in {"resolve", "show", "find"} => req[r].kind \notin {"list", "create"}
    BY <2>2 DEF Fits, OnRecords, WriteKinds, ReadKinds
  <2>4. Answer(r, a)
    BY <1>8, <1>3, <1>7, <1>6, <1>5, <2>1, <2>2, <2>3, Effects DEF Resolve
  <2>5. req[r].kind # "query" \/ a.pc # "ok"
    BY <1>8, <1>3, <1>7, <1>6, <1>5, <2>1, <2>2, <2>3, Effects DEF Resolve, Fits, WriteKinds
  <2> QED BY <2>4, <2>5
<1>9. CASE GetCollection(r)
  <2>1. name' = name
    BY <1>9 DEF GetCollection, engine
  <2>2. req[r].pc = "show" /\ Fits(req[r].pc, req[r].kind, req[r].via, req[r].todo)
    BY <1>1, <1>9, IdleFacts DEF GetCollection
  <2>3. req[r].pc \in {"resolve", "show", "find"} => req[r].kind \notin {"list", "create"}
    BY <2>2 DEF Fits, OnRecords, WriteKinds, ReadKinds
  <2>4. Answer(r, a)
    BY <1>9, <1>3, <1>7, <1>6, <1>5, <2>1, <2>2, <2>3, Effects DEF GetCollection, On
  <2>5. req[r].kind # "query" \/ a.pc # "ok"
    BY <1>9, <1>3, <1>7, <1>6, <1>5, <2>1, <2>2, <2>3, Effects DEF GetCollection, On, Fits, WriteKinds
  <2> QED BY <2>4, <2>5
<1>10. CASE GetCollectionChroma(r)
  <2>1. name' = name
    BY <1>10 DEF GetCollectionChroma, engine
  <2>2. req[r].pc = "show" /\ Fits(req[r].pc, req[r].kind, req[r].via, req[r].todo)
    BY <1>1, <1>10, IdleFacts DEF GetCollectionChroma
  <2>3. req[r].pc \in {"resolve", "show", "find"} => req[r].kind \notin {"list", "create"}
    BY <2>2 DEF Fits, OnRecords, WriteKinds, ReadKinds
  <2>4. Answer(r, a)
    BY <1>10, <1>3, <1>7, <1>5, <2>1, <2>2, <2>3, Effects DEF GetCollectionChroma
  <2>5. req[r].kind # "query" \/ a.pc # "ok"
    BY <1>10, <1>3, <1>7, <1>5, <2>1, <2>2, <2>3, Effects DEF GetCollectionChroma, Fits, WriteKinds
  <2> QED BY <2>4, <2>5
<1>11. CASE GetOrCreate(r)
  <2>1. Answer(r, a)
    BY <1>11, <1>3, <1>7, <1>6, Effects DEF On
  <2>2. req[r].kind # "query"
    BY <1>1, <1>11, IdleFacts DEF GetOrCreate, Fits, MemberKinds
  <2> QED BY <2>1, <2>2
<1>12. CASE CreateInsert(r)
  <2>2. Answer(r, a) /\ a.pc # "ok"
    BY <1>12, <1>4, <1>6, Effects DEF CreateInsert
  <2> QED BY <2>2
<1>13. CASE CreateOpen(r)
  <2>1. Answer(r, a) /\ a.pc # "ok"
    BY <1>13, <1>3, <1>7, <1>6, Effects DEF On
  <2> QED BY <2>1
<1>14. CASE CreateOpenFails(r)
  <2>1. Answer(r, a) /\ a.pc # "ok"
    BY <1>14, <1>3, <1>7, Effects
  <2> QED BY <2>1
<1>15. CASE Count(r)
  <2>1. name' = name
    BY <1>15 DEF Count, engine
  <2>2. req[r].pc = "count" /\ Fits(req[r].pc, req[r].kind, req[r].via, req[r].todo)
    BY <1>1, <1>15, IdleFacts DEF Count
  <2>3. req[r].pc \in {"resolve", "show", "find"} => req[r].kind \notin {"list", "create"}
    BY <2>2 DEF Fits, OnRecords, WriteKinds, ReadKinds
  <2>4. Answer(r, a)
    BY <1>15, <1>3, <1>7, <1>6, <1>5, <2>1, <2>2, <2>3, Effects DEF Count, On
  <2>5. req[r].kind # "query" \/ a.pc # "ok"
    BY <1>15, <1>3, <1>7, <1>6, <1>5, <2>1, <2>2, <2>3, Effects DEF Count, On, Fits, WriteKinds
  <2> QED BY <2>4, <2>5
<1>16. CASE ProposeAdd(r)
  <2>1. Answer(r, a) /\ a.pc # "ok"
    BY <1>16, <1>3, <1>7, Effects
  <2> QED BY <2>1
<1>17. CASE DeleteChroma(r)
  <2>1. name' = name
    BY <1>17 DEF DeleteChroma, engine
  <2>2. req[r].pc = "find" /\ Fits(req[r].pc, req[r].kind, req[r].via, req[r].todo)
    BY <1>1, <1>17, IdleFacts DEF DeleteChroma
  <2>3. req[r].pc \in {"resolve", "show", "find"} => req[r].kind \notin {"list", "create"}
    BY <2>2 DEF Fits, OnRecords, WriteKinds, ReadKinds
  <2>4. Answer(r, a)
    BY <1>17, <1>3, <1>7, <1>6, <1>5, <2>1, <2>2, <2>3, Effects DEF DeleteChroma
  <2>5. req[r].kind # "query" \/ a.pc # "ok"
    BY <1>17, <1>3, <1>7, <1>6, <1>5, <2>1, <2>2, <2>3, Effects DEF DeleteChroma, Fits, WriteKinds
  <2> QED BY <2>4, <2>5
<1>18. CASE Erase(r)
  <2>1. Answer(r, a) /\ a.pc # "ok"
    BY <1>18, <1>3, <1>7, <1>6, Effects DEF On
  <2> QED BY <2>1
<1>19. CASE Unmap(r)
  <2>1. Answer(r, a) /\ a.pc # "ok"
    BY <1>19, <1>3, <1>7, <1>6, Effects DEF On
  <2> QED BY <2>1
<1>20. CASE ProposeRemove(r)
  <2>1. Answer(r, a)
    BY <1>20, <1>3, <1>7, Effects
  <2>2. req[r].kind # "query"
    BY <1>1, <1>20, IdleFacts DEF ProposeRemove, Fits, MemberKinds
  <2> QED BY <2>1, <2>2
<1>21. CASE ProposeFails(r)
  <2>1. Answer(r, a) /\ a.pc # "ok"
    BY <1>21, <1>3, <1>7, Effects
  <2> QED BY <2>1
<1>22. CASE ListChroma(r)
  <2>1. Answer(r, a)
    BY <1>22, <1>3, <1>7, Effects
  <2>2. req[r].kind # "query"
    BY <1>1, <1>22, IdleFacts DEF ListChroma, Fits, MemberKinds
  <2> QED BY <2>1, <2>2
<1>23. CASE ListScan(r)
  <2>1. Answer(r, a) /\ a.pc # "ok"
    BY <1>23, <1>3, <1>7, <1>6, Effects
  <2> QED BY <2>1
<1>24. CASE ListNext(r)
  <2>1. name' = name
    BY <1>24 DEF ListNext, engine
  <2>2. req[r].pc = "listing" /\ Fits(req[r].pc, req[r].kind, req[r].via, req[r].todo)
    BY <1>1, <1>24, IdleFacts DEF ListNext
  <2>3. req[r].pc \in {"resolve", "show", "find"} => req[r].kind \notin {"list", "create"}
    BY <2>2 DEF Fits, OnRecords, WriteKinds, ReadKinds
  <2>4. Answer(r, a)
    BY <1>24, <1>3, <1>7, <1>6, <1>5, <2>1, <2>2, <2>3, Effects DEF ListNext
  <2>5. req[r].kind # "query" \/ a.pc # "ok"
    BY <1>24, <1>3, <1>7, <1>6, <1>5, <2>1, <2>2, <2>3, Effects DEF ListNext, Fits, WriteKinds
  <2> QED BY <2>4, <2>5
<1>25. CASE Write(r)
  <2>1. name' = name
    BY <1>25 DEF Write, engine
  <2>2. req[r].pc = "act" /\ Fits(req[r].pc, req[r].kind, req[r].via, req[r].todo)
    BY <1>1, <1>25, IdleFacts DEF Write
  <2>3. req[r].pc \in {"resolve", "show", "find"} => req[r].kind \notin {"list", "create"}
    BY <2>2, SMTT(40) DEF Fits, OnRecords, WriteKinds, ReadKinds
  <2>4. Answer(r, a)
    BY <1>25, <1>3, <1>7, <1>5, <2>1, <2>2, <2>3, Effects DEF Write
  <2>5. req[r].kind # "query" \/ a.pc # "ok"
    BY <1>25, <1>3, <1>7, <1>5, <2>1, <2>2, <2>3, Effects DEF Write, Fits, WriteKinds
  <2> QED BY <2>4, <2>5
<1>26. CASE GetRecords(r)
  <2>1. name' = name
    BY <1>26 DEF GetRecords, engine
  <2>2. req[r].pc = "act" /\ Fits(req[r].pc, req[r].kind, req[r].via, req[r].todo)
    BY <1>1, <1>26, IdleFacts DEF GetRecords
  <2>3. req[r].pc \in {"resolve", "show", "find"} => req[r].kind \notin {"list", "create"}
    BY <2>2 DEF Fits, OnRecords, WriteKinds, ReadKinds
  <2>4. Answer(r, a)
    BY <1>26, <1>3, <1>7, <1>5, <2>1, <2>2, <2>3, Effects DEF GetRecords
  <2>5. req[r].kind # "query" \/ a.pc # "ok"
    BY <1>26, <1>3, <1>7, <1>5, <2>1, <2>2, <2>3, Effects DEF GetRecords, Fits, WriteKinds
  <2> QED BY <2>4, <2>5
<1>27. CASE GetRecordsChroma(r)
  <2>1. name' = name
    BY <1>27 DEF GetRecordsChroma, engine
  <2>2. req[r].pc = "act" /\ Fits(req[r].pc, req[r].kind, req[r].via, req[r].todo)
    BY <1>1, <1>27, IdleFacts DEF GetRecordsChroma
  <2>3. req[r].pc \in {"resolve", "show", "find"} => req[r].kind \notin {"list", "create"}
    BY <2>2 DEF Fits, OnRecords, WriteKinds, ReadKinds
  <2>4. Answer(r, a)
    BY <1>27, <1>3, <1>7, <1>5, <2>1, <2>2, <2>3, Effects DEF GetRecordsChroma
  <2>5. req[r].kind # "query" \/ a.pc # "ok"
    BY <1>27, <1>3, <1>7, <1>5, <2>1, <2>2, <2>3, Effects DEF GetRecordsChroma, Fits, WriteKinds
  <2> QED BY <2>4, <2>5
<1>28. CASE CountRecords(r)
  <2>1. name' = name
    BY <1>28 DEF CountRecords, engine
  <2>2. req[r].pc = "act" /\ Fits(req[r].pc, req[r].kind, req[r].via, req[r].todo)
    BY <1>1, <1>28, IdleFacts DEF CountRecords
  <2>3. req[r].pc \in {"resolve", "show", "find"} => req[r].kind \notin {"list", "create"}
    BY <2>2 DEF Fits, OnRecords, WriteKinds, ReadKinds
  <2>4. Answer(r, a)
    BY <1>28, <1>3, <1>7, <1>5, <2>1, <2>2, <2>3, Effects DEF CountRecords
  <2>5. req[r].kind # "query" \/ a.pc # "ok"
    BY <1>28, <1>3, <1>7, <1>5, <2>1, <2>2, <2>3, Effects DEF CountRecords, Fits, WriteKinds
  <2> QED BY <2>4, <2>5
<1>29. CASE AddLearner(r)
  <2>1. Answer(r, a)
    BY <1>29, <1>3, <1>7, Effects
  <2>2. req[r].kind # "query"
    BY <1>1, <1>29, IdleFacts DEF AddLearner, Fits, MemberKinds
  <2> QED BY <2>1, <2>2
<1>30. CASE RemoveMember(r)
  <2>1. Answer(r, a) /\ a.pc # "ok"
    BY <1>30, <1>3, <1>7, <1>6, Effects
  <2> QED BY <2>1
<1>31. CASE ChangeMembership(r)
  <2>1. Answer(r, a)
    BY <1>31, <1>3, <1>7, Effects
  <2>2. req[r].kind # "query"
    BY <1>1, <1>31, IdleFacts DEF ChangeMembership, Fits, MemberKinds
  <2> QED BY <2>1, <2>2
<1> QED BY <1>2, <1>8, <1>9, <1>10, <1>11, <1>12, <1>13, <1>14, <1>15, <1>16,
    <1>17, <1>18, <1>19, <1>20, <1>21, <1>22, <1>23, <1>24, <1>25, <1>26,
    <1>27, <1>28, <1>29, <1>30, <1>31 DEF Handles

(* A request that finds a catalogued collection not served has met the one *)
(* that is opening it, or opening it failed.                               *)
LEMMA MeetsOpener ==
    ASSUME Shapes, Met, Unserved, NEW r \in Running, req[r].pc # "open",
           NEW u \in Catalogued \ served
    PROVE  "create" \in req[r].met \/ <<"open", u>> \in cause
<1>1. ASSUME NEW s \in Req, req[s].pc = "open" PROVE "create" \in req[r].met
  <2>1. req[s].kind \in Creates /\ s \in Running /\ s # r
    BY <1>1 DEF Shapes, Requests, AtStep, Fits, Idle, Running
  <2>2. "create" \in Disturbance(req[s].kind)
    BY <2>1 DEF Disturbance, Creates, WriteKinds
  <2> QED BY <2>1, <2>2 DEF Met
<1> QED BY <1>1 DEF Unserved

(* A native path that the catalog knows is the id of a collection.         *)
LEMMA BearsItself ==
    ASSUME Shapes, NEW r \in Req, ById(req[r]), Bearers(req[r].target) # {}
    PROVE  req[r].cid \in Catalogued
<1>1. req[r].cid = req[r].target /\ req[r].cid \in Cid
  BY DEF Shapes, Records, Requests, Carries
<1>2. PICK u \in Catalogued : req[r].target \in {u, name[u]}
  BY DEF Bearers
<1>3. name[u] \in Name
  BY DEF Shapes, Records, Catalogued
<1> QED BY <1>1, <1>2, <1>3, ApiAssumption

(* The properties of the answers, for one answer.                          *)
NotFound(a) ==
    a.pc = "not_found" /\ (a.kind \in {"list", "create"} \/ Bearers(a.target) # {}) =>
        \/ a.met \cap {"create", "remove"} # {}
        \/ a.kind # "create" /\ \E u \in Cid : <<"open", u>> \in cause

Refused(a) == a.kind = "get_or_create" /\ a.pc = "exists" => "create" \in a.met

Padding(a) ==
    a.kind = "query" /\ a.via = "native" /\ a.pc = "ok" =>
        \A i \in DOMAIN a.rows :
            /\ a.rows[i] >= a.rows[1]
            /\ a.rows[i] > a.rows[1] => a.body.filtered \/ "write" \in a.met

LEMMA NotFoundAnswer ==
    ASSUME Shapes, Members, Met, Unserved, Seen, NEW r \in Req, Handles(r), NEW a \in resp'
    PROVE  NotFound(a)'
<1>1. Answer(r, a) /\ r \in Running /\ cause \subseteq cause'
  BY Answers, HandlesProceed, CauseGrows DEF Proceeds
<1>2. Fits(req[r].pc, req[r].kind, req[r].via, req[r].todo) /\ Sees(r) /\ Carries(req[r])
  BY <1>1, IdleFacts DEF Shapes, Requests, AtStep, Running, Seen
<1> SUFFICES ASSUME a.pc = "not_found",
                    a.kind \in {"list", "create"} \/ Bearers(a.target)' # {}
             PROVE  \/ a.met \cap {"create", "remove"} # {}
                    \/ a.kind # "create" /\ \E u \in Cid : <<"open", u>> \in cause'
  BY DEF NotFound
<1>3. Bearers(a.target)' = Bearers(req[r].target)
  BY <1>1 DEF Answer, Bearers, Catalogued
<1>4. ASSUME NEW u \in Catalogued \ served, req[r].pc # "open"
      PROVE  "create" \in req[r].met \/ \E v \in Cid : <<"open", v>> \in cause'
  BY <1>1, <1>4, MeetsOpener DEF Catalogued
<1>5. CASE req[r].pc = "listing" /\ \E u \in req[r].todo : u \notin served
  BY <1>1, <1>2, <1>4, <1>5 DEF Answer, Fits, Sees
<1>6. CASE req[r].pc \in {"count", "act"} /\ req[r].cid \notin served
  <2>1. CASE req[r].kind = "create"
    BY <1>1, <1>2, <1>6, <2>1 DEF Answer, Fits, Sees, OnRecords, WriteKinds, ReadKinds
  <2>2. CASE req[r].kind # "create"
    <3>1. req[r].kind \notin {"list", "create"}
      BY <1>2, <1>6, <2>2 DEF Fits, OnRecords, WriteKinds, ReadKinds
    <3>2. req[r].cid \in Catalogued \/ "remove" \in req[r].met
      <4>1. CASE req[r].via = "chroma"
        BY <1>2, <1>6, <4>1 DEF Fits, Sees
      <4>2. CASE req[r].via = "native"
        <5>1. ById(req[r])
          BY <1>2, <1>6, <2>2, <4>2 DEF Fits, ById
        <5> QED BY <1>1, <1>3, <3>1, <5>1, BearsItself DEF Answer
      <4> QED BY <1>1, <1>2, <4>1, <4>2 DEF Carries, Running
    <3> QED BY <1>1, <1>4, <1>6, <2>2, <3>2 DEF Answer
  <2> QED BY <2>1, <2>2
<1> QED BY <1>1, <1>3, <1>5, <1>6 DEF Answer

LEMMA RefusedAnswer ==
    ASSUME Shapes, Members, Seen, NEW r \in Req, Handles(r), NEW a \in resp'
    PROVE  Refused(a)
BY Answers DEF Answer, Refused, Seen, Sees

LEMMA PaddingAnswer ==
    ASSUME Shapes, Members, Rows, NEW r \in Req, Handles(r), NEW a \in resp'
    PROVE  Padding(a)
<1> SUFFICES ASSUME a.kind = "query", a.via = "native", a.pc = "ok",
                    NEW i \in DOMAIN a.rows
             PROVE  /\ a.rows[i] >= a.rows[1]
                    /\ a.rows[i] > a.rows[1] => a.body.filtered \/ "write" \in a.met
  BY DEF Padding
<1>1. Answer(r, a) /\ RowsOf(r, a) /\ r \in Running /\ req[r].kind = "query"
  BY Answers, HandlesProceed DEF Proceeds, Answer
<1>2. Fits(req[r].pc, req[r].kind, req[r].via, req[r].todo)
  BY <1>1, IdleFacts DEF Shapes, Requests, AtStep, Running
<1>3. PICK n \in RowSizes(req[r].cid, req[r].body) : a.rows = Padded(Append(req[r].rows, n))
  BY <1>1 DEF RowsOf, Answer, Shown
<1> DEFINE rows == Append(req[r].rows, n)
           most == Smaller(req[r].body.k, Cardinality(recs[req[r].cid]))
<1>4. req[r].pc \in {"act", "resolve"}
  BY <1>1, <1>2 DEF Fits, PcSteps, Creates, MemberKinds
<1>5. req[r].pc = "act"
  BY <1>1, <1>2, <1>4 DEF Fits, Answer
<1>6. n \in Nat /\ req[r].rows \in Seq(Nat)
  <2>1. req[r].body \in Bodies /\ req[r].cid \in Cid
    BY <1>1, <1>5 DEF Shapes, Records, Requests, Carries, OnOne
  <2>2. n \in Nat
    BY <2>1, RowSize
  <2> QED BY <2>2 DEF Shapes, Requests, Request, Lists
<1>7. rows \in Lists /\ DOMAIN rows = 1..Len(rows) /\ Len(rows) >= 1 /\ Len(rows) \in Nat
  BY <1>6 DEF Lists
<1>8. ASSUME ~ req[r].body.filtered, "write" \notin req[r].met
      PROVE  \A j \in DOMAIN rows : rows[j] = most
  <2>1. n = most /\ \A j \in DOMAIN req[r].rows : req[r].rows[j] = most
    BY <1>1, <1>5, <1>8 DEF Rows, HasRows, RowSizes
  <2> HIDE DEF most
  <2> QED BY <1>6, <2>1
<1>9. /\ DOMAIN a.rows = DOMAIN rows
      /\ \A j \in DOMAIN rows : a.rows[j] = IF rows[j] < rows[1] THEN rows[1] ELSE rows[j]
  BY <1>3, <1>7, PaddedList
<1>11. a.body = req[r].body /\ a.met = req[r].met
  BY <1>1 DEF RowsOf, Answer
<1> HIDE DEF rows, most
<1>10. \A j \in DOMAIN rows : rows[j] \in Nat
  BY <1>7 DEF Lists
<1>12. 1 \in DOMAIN rows
  BY <1>7
<1> QED BY <1>8, <1>9, <1>10, <1>11, <1>12

-----------------------------------------------------------------------------
(* The inductive invariant and the theorems.                               *)

Replies ==
    \A a \in resp : a.pc \in Outcomes \ {"panic"} /\ NotFound(a) /\ Refused(a) /\ Padding(a)

Inv ==
    /\ Shapes /\ Members /\ OneName /\ Met /\ OneMaker /\ Erased /\ Unserved /\ Seen
    /\ Registered /\ Rows /\ Replies

LEMMA RepliesStep ==
    Shapes /\ Members /\ Met /\ Unserved /\ Seen /\ Rows /\ Replies /\ [Next]_vars => Replies'
<1> SUFFICES ASSUME Shapes, Members, Met, Unserved, Seen, Rows, Replies, [Next]_vars
             PROVE  Replies'
  OBVIOUS
<1>1. ASSUME NEW r \in Req, Handles(r) PROVE Replies'
  <2>1. ASSUME NEW a \in resp'
        PROVE  a.pc \in Outcomes \ {"panic"} /\ NotFound(a)' /\ Refused(a) /\ Padding(a)
    BY <1>1, Answers, NotFoundAnswer, RefusedAnswer, PaddingAnswer DEF Answer
  <2> QED BY <2>1 DEF Replies, Refused, Padding
<1>2. ASSUME resp' = {} PROVE Replies'
  BY <1>2 DEF Replies
<1>3. ASSUME Unmoved, resp' = resp PROVE Replies'
  <2>1. ASSUME NEW a \in resp' PROVE NotFound(a)' <=> NotFound(a)
    BY <1>3 DEF Unmoved, engine, NotFound, Bearers, Catalogued
  <2> QED BY <1>3, <2>1 DEF Replies, Refused, Padding
<1>4. ASSUME \A a \in resp' : a.pc = "invalid" /\ a.kind = None PROVE Replies'
  BY <1>4 DEF Replies, Outcomes, NotFound, Refused, Padding
<1> QED BY <1>1, <1>2, <1>3, <1>4, Steps DEF Arrives

LEMMA InvInit == Init => Inv
<1> SUFFICES ASSUME Init PROVE Inv
  OBVIOUS
<1> USE DEF Init
<1>1. Catalogued = {} /\ Running = {}
  BY IdleFacts DEF Catalogued, Running
<1>2. \A r \in Req : req[r] = Idle
  OBVIOUS
<1>3. \A r \in Req, u \in Cid : ~ Makes(r, u) /\ ~ Removes(r, u)
  BY <1>2, IdleFacts DEF Makes, Removes
<1>4. Shapes
  <2>1. Records
    BY <1>1, ApiAssumption DEF Records
  <2>2. Requests
    BY <1>2, IdleFacts, IdleCarries DEF Requests
  <2> QED BY <2>1, <2>2 DEF Shapes
<1>5. Members
  BY ApiAssumption DEF Members
<1>6. OneName /\ Met /\ OneMaker /\ Erased /\ Unserved
  BY <1>1, <1>3 DEF OneName, Met, OneMaker, Erased, Unserved
<1>7. Seen /\ Rows
  BY <1>2, IdleFacts DEF Seen, Sees, Rows, HasRows
<1>8. Registered
  BY <1>1, <1>3 DEF Registered, Lacking, Leftover, Undone
<1>9. Replies
  BY DEF Replies
<1> QED BY <1>4, <1>5, <1>6, <1>7, <1>8, <1>9 DEF Inv

LEMMA InvStep == Inv /\ [Next]_vars => Inv'
BY RecordsStep, RequestsStep, MembersStep, OneNameStep, MetStep, OneMakerStep, ErasedStep,
   UnservedStep, SeenStep, RegisteredStep, RowsStep, RepliesStep DEF Inv, Shapes

LEMMA Invariance == Spec => []Inv
BY InvInit, InvStep, PTL DEF Spec


(* Whatever clients send and however the handlers interleave, the catalog  *)
(* holds a name once, the cluster keeps a voter, and every handler is at   *)
(* one of its steps.                                                       *)
THEOREM ApiTypeCorrect == Spec => []TypeOK
<1>1. Inv => TypeOK
  <2> SUFFICES ASSUME Inv PROVE TypeOK
    OBVIOUS
  <2>1. \A r \in Req : req[r].pc \in PcSteps
    BY IdleFacts DEF Inv, Shapes, Requests, AtStep, Fits, PcSteps
  <2>2. \A a \in resp : a.pc \in Outcomes
    BY DEF Inv, Replies
  <2> QED BY <2>1, <2>2 DEF Inv, Shapes, Records, Members, OneName, TypeOK, PcSteps
<1> QED BY <1>1, Invariance, PTL

(* No handler panics with a collection's mutex held: what it lets through  *)
(* the engine refuses before it indexes a column by position (add_ops,     *)
(* upsert_ops, update_ops).                                                *)
THEOREM ApiNeverPanics == Spec => []NeverPanics
<1>1. Inv => NeverPanics
  BY DEF Inv, Replies, NeverPanics
<1> QED BY <1>1, Invariance, PTL

(* A 404 for a collection that the catalog has is due to a request that ran *)
(* at the same time, or to an open that failed.                            *)
THEOREM ApiNotFoundOnlyOnRace == Spec => []NotFoundOnlyOnRace
<1>1. Inv => NotFoundOnlyOnRace
  BY DEF Inv, Replies, NotFound, NotFoundOnlyOnRace
<1> QED BY <1>1, Invariance, PTL

(* get_or_create is refused only if another request created a collection   *)
(* between its lookup and its insert.                                      *)
THEOREM ApiGetOrCreateRefusedOnlyOnRace == Spec => []GetOrCreateRefusedOnlyOnRace
<1>1. Inv => GetOrCreateRefusedOnlyOnRace
  BY DEF Inv, Replies, Refused, GetOrCreateRefusedOnlyOnRace
<1> QED BY <1>1, Invariance, PTL

(* At rest, catalog and raft state machine differ only by collections of   *)
(* the Chroma handlers, failed opens and proposals, and deletions that     *)
(* overtook the creation.                                                  *)
THEOREM ApiRegistrationExplained == Spec => []RegistrationExplained
<1>1. Inv => RegistrationExplained
  <2> SUFFICES ASSUME Inv, Running = {} PROVE
         \A u \in (registered \ Catalogued) \cup (Catalogued \ registered) : Explained(u)
    BY Zenon DEF RegistrationExplained, Explained
  <2>1. \A s \in Req : req[s].pc = "idle"
    BY DEF Running
  <2>2. \A s \in Req, u \in Cid : ~ Makes(s, u) /\ ~ Removes(s, u)
    BY <2>1 DEF Makes, Removes
  <2>3. registered \cup Catalogued \subseteq Cid
    BY DEF Inv, Shapes, Records
  <2> QED BY <2>2, <2>3 DEF Inv, Registered, Lacking, Leftover
<1> QED BY <1>1, Invariance, PTL

(* The lists of a native query are as long as the first, unless a filter or *)
(* a write in between gave later embeddings more results.                  *)
THEOREM ApiRowsPadded == Spec => []RowsPadded
<1>1. Inv => RowsPadded
  BY DEF Inv, Replies, Padding, RowsPadded
<1> QED BY <1>1, Invariance, PTL

=============================================================================
