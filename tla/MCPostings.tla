---------------------------- MODULE MCPostings ----------------------------
(* The instances of Postings and Filter that TLC checks.                   *)
EXTENDS Filter

(* Strings, and numbers that are equal across kinds.                       *)
MCValue == {[kind |-> "str", n |-> 1], [kind |-> "int", n |-> 1],
            [kind |-> "float", n |-> 1], [kind |-> "int", n |-> 2]}

(* Every comparison by itself, and $and and $or of a few.                  *)
Single == {[join |-> "and", conds |-> {c}] : c \in Comparison}
Few == {c \in Comparison : c.op \in {"ne", "gt", "nin"} /\ Cardinality(c.args) = 1}
MCFilters ==
    Single \cup [join : {"and", "or"}, conds : {{c, d} : c, d \in Few}]

(* Documents of every form that filter.rs names, and malformed ones: what  *)
(* may stand for an operand, the objects made of one field, and lists of   *)
(* those, nested once more.                                                *)
One == [kind |-> "int", n |-> 1]
Operands == {Val(v) : v \in Value} \cup {Null, Arr(<<>>), Arr(<<Val(One)>>),
             Arr(<<Val(One), Val([kind |-> "str", n |-> 1])>>), Arr(<<Null>>)}
Empty(N) == Obj([x \in N |-> Absent])
Ops == {Entry(OpName, op, j) : op \in {"$eq", "$ne", "$gte", "$lt", "$in", "$nin", "$like"}, j \in Operands}
Interval == Obj([x \in OpName |-> CASE x = "$gt"  -> Val(One)
                                   [] x = "$lte" -> Val([kind |-> "int", n |-> 2])
                                   [] OTHER      -> Absent])
Fields == {Entry(Name, k, j) : k \in Key, j \in Operands \cup Ops \cup {Interval, Empty(OpName)}}
Parts == {Entry(Name, k, j) : k \in Key, j \in {Val(One), Null, Entry(OpName, "$ne", Val(One)), Interval}}
Items == {<<>>} \cup {<<p>> : p \in Parts} \cup {<<p, q>> : p, q \in Parts}
Joined == {Entry(Name, k, Arr(s)) : k \in Lists, s \in Items}
With(j, k, v) == Obj([j[2] EXCEPT ![k] = v])
Mixed == {With(Entry(Name, n, Arr(<<p>>)), k, v) :
            n \in Lists, p \in Parts, k \in Key, v \in {Val(One)}}
         \cup {With(Entry(Name, "$and", Arr(<<p>>)), "$or", Arr(<<p>>)) : p \in Parts}
Nested == {Entry(Name, n, Arr(<<j>>)) : n \in Lists, j \in Joined}
          \cup {Entry(Name, n, Arr(<<j, Entry(Name, k, Val(One))>>)) :
                    n \in Lists, k \in Key, j \in Joined}
MCDocs == Fields \cup Joined \cup Mixed \cup Nested
          \cup {Val(One), Empty(Name), Entry(Name, "$and", Val(One))}

=============================================================================
