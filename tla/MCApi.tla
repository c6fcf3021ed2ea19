------------------------------- MODULE MCApi -------------------------------
(* Small instances of Api for TLC.                                         *)
EXTENDS Api, TLC

CONSTANTS r1, r2, n1, u1, u2, a, b, bad

MCReq  == {r1, r2}
OneReq == {r1}
MCName == {n1}
MCCid  == {u1, u2}
MCRid  == {a, b}
MCNode == {1, 2}
ThreeNodes == {1, 2, 3}

Plain == [ids |-> <<a>>, embs |-> <<TRUE>>, metas |-> {}, docs |-> {},
          k |-> 2, filtered |-> FALSE]

(* One record with all columns; two; an id given twice with a column too   *)
(* short; an empty id, a vector too long and too many results asked for;   *)
(* no ids but two filtered queries.                                        *)
MCBodies ==
    {[Plain EXCEPT !.metas = {1}, !.docs = {1}],
     [Plain EXCEPT !.ids = <<a, b>>, !.embs = <<TRUE, TRUE>>],
     [Plain EXCEPT !.ids = <<a, a>>, !.metas = {1}, !.k = 3],
     [Plain EXCEPT !.ids = <<bad>>, !.embs = <<FALSE>>, !.k = 3],
     [Plain EXCEPT !.ids = <<>>, !.embs = <<TRUE, TRUE>>, !.filtered = TRUE]}

(* What clients send together: requests about collections, about the       *)
(* records of one, and about the cluster.                                  *)
MCMixes ==
    {CollectionKinds,
     {"get_or_create"} \cup WriteKinds \cup {"query", "get"},
     {"get_or_create", "remove", "query", "count"},
     {"create"} \cup MemberKinds}

OnlyMembers == {MemberKinds}

(* Requests are interchangeable, and so are collection ids.                *)
Symmetric == Permutations(MCReq) \cup Permutations(MCCid)
=============================================================================
