------------------------------- MODULE Filter -------------------------------
(***************************************************************************)
(* Where filters as JSON (rekha-core's filter.rs): the parser, the way     *)
(* back, and filters of any nesting evaluated on the metadata index.       *)
(*                                                                         *)
(* A JSON value is <<"val", v>> for a string, boolean or number, Null,     *)
(* <<"arr", sequence>> or <<"obj", function>>, where the function is       *)
(* Absent at the names the object does not have.  A condition is           *)
(* <<"cmp", comparison>> with its arguments in a sequence, <<"and",        *)
(* sequence>> or <<"or", sequence>>.  The kinds of parse error are one:    *)
(* they differ in their message.                                           *)
(***************************************************************************)
EXTENDS Postings, SequencesExt

CONSTANTS
    Docs,           \* the JSON documents that clients send as filters
    Depth           \* how deep the objects in them nest at most

ParseError == <<"error">>
Null == <<"null">>
Absent == <<"absent">>

Val(v) == <<"val", v>>
Arr(s) == <<"arr", s>>
Obj(f) == <<"obj", f>>

IsVal(j) == j[1] = "val"
IsNum(j) == IsVal(j) /\ Numeric(j[2])

Entries(o) == {k \in DOMAIN o : o[k] # Absent}

-----------------------------------------------------------------------------
(* Documents and conditions.                                               *)

Lists == {"$and", "$or"}
Field == Key \ Lists

Dollar == [eq |-> "$eq", ne |-> "$ne", gt |-> "$gt", gte |-> "$gte", lt |-> "$lt",
           lte |-> "$lte", in |-> "$in", nin |-> "$nin"]

AsFloat(v) == [kind |-> "float", n |-> AsF64(v)]
Literal == Value \cup {AsFloat(v) : v \in {w \in Value : Numeric(w)}}

Name == Key \cup Lists
OpName == {Dollar[op] : op \in DOMAIN Dollar} \cup {"$like"}     \* one is unknown

(* What may stand for an operand, right or wrong; under a field; and the   *)
(* documents whose objects nest n deep at most.                            *)
Scalar == {Null} \cup ({"val"} \X Literal)
Operand == Scalar \cup ({"arr"} \X Seq(Scalar))
Objects(N, S) == {"obj"} \X [N -> S \cup {Absent}]
FieldDoc == Operand \cup Objects(OpName, Operand)
Json[n \in 0..(Depth + 2)] ==
    IF n = 0 THEN Operand
    ELSE Json[n - 1] \cup Objects(Name, FieldDoc \cup ({"arr"} \X Seq(Json[n - 1])))

Compare(k, op, args) == <<"cmp", [key |-> k, op |-> op, args |-> args]>>

(* WhereCondition: the comparisons, and the trees of height n at most.     *)
Leaf ==
    {"cmp"} \X
      ([key : Field, op : {"eq", "ne"}, args : {<<v>> : v \in Literal}]
       \cup [key : Field, op : RangeOps, args : {<<v>> : v \in {w \in Literal : w.kind = "float"}}]
       \cup [key : Field, op : {"in", "nin"}, args : Seq(Literal)])
Tree[n \in 0..(Depth + 1)] ==
    IF n = 0 THEN Leaf
    ELSE Tree[n - 1] \cup ({"and", "or"} \X {s \in Seq(Tree[n - 1]) : Len(s) > 1})

(* A condition written back nests deeper than the document it came from:   *)
(* fields and operators are listed.                                        *)
Document == Json[Depth + 2]
WhereCondition == Tree[Depth + 1]

ASSUME FilterAssumption == IsFiniteSet(Key) /\ Depth \in Nat /\ Docs \subseteq Json[Depth]

-----------------------------------------------------------------------------
(* Parsing.                                                                *)

(* parse_op.  A number of a range operator becomes an f64.                 *)
ParseOp(k, name, j) ==
    LET op == CHOOSE o \in DOMAIN Dollar : Dollar[o] = name
    IN  IF ~ \E o \in DOMAIN Dollar : Dollar[o] = name THEN ParseError
        ELSE IF op \in {"eq", "ne"} /\ IsVal(j) THEN Compare(k, op, <<j[2]>>)
        ELSE IF op \in RangeOps /\ IsNum(j) THEN Compare(k, op, <<AsFloat(j[2])>>)
        ELSE IF op \in {"in", "nin"} /\ j[1] = "arr" /\ \A i \in DOMAIN j[2] : IsVal(j[2][i])
             THEN Compare(k, op, [i \in DOMAIN j[2] |-> j[2][i][2]])
        ELSE ParseError

(* Not the code: a pair loses its second condition.                        *)
NormalizeListKeepingFirst(conds) ==
    IF conds = <<>> \/ ParseError \in ToSet(conds) THEN ParseError
    ELSE IF Len(conds) <= 2 THEN conds[1] ELSE <<"and", conds>>

(* normalize_list, and the `?' on every element before it.                 *)
NormalizeList(conds) ==
    IF conds = <<>> \/ ParseError \in ToSet(conds) THEN ParseError
    ELSE IF Len(conds) = 1 THEN conds[1] ELSE <<"and", conds>>

(* parse_field_condition: the operators of a field, or the shorthand.      *)
ParseFieldCondition(k, j) ==
    IF j[1] = "obj"
    THEN LET ops == SetToSeq(Entries(j[2]))
         IN  NormalizeList([i \in DOMAIN ops |-> ParseOp(k, ops[i], j[2][ops[i]])])
    ELSE IF IsVal(j) THEN Compare(k, "eq", <<j[2]>>)
    ELSE ParseError

(* parse_list, given what its elements are parsed to; no list is empty.    *)
ParseList(Parse, o, name) ==
    IF name \in Entries(o) THEN [i \in DOMAIN o[name][2] |-> Parse[o[name][2][i]]] ELSE <<>>

ParseFields(o) ==
    LET keys == SetToSeq(Entries(o) \ Lists)
    IN  [i \in DOMAIN keys |-> ParseFieldCondition(keys[i], o[keys[i]])]

(* What parse_condition and parse_object refuse before they parse a list.  *)
Refused(j) ==
    \/ j[1] # "obj"
    \/ \E name \in Lists \cap Entries(j[2]) : j[2][name][1] # "arr"
    \/ Lists \subseteq Entries(j[2])
    \/ "$or" \in Entries(j[2]) /\ Entries(j[2]) \ Lists # {}

(* parse_object, given what the elements of its lists are parsed to.       *)
ParseObject(Parse, o) ==
    LET or == ParseList(Parse, o, "$or")
    IN  IF Len(or) > 1 /\ ParseError \notin ToSet(or) THEN <<"or", or>>
        ELSE NormalizeList(or \o ParseList(Parse, o, "$and") \o ParseFields(o))

(* parse_condition.                                                        *)
ParseCondition[j \in Document] ==
    IF Refused(j) THEN ParseError ELSE ParseObject(ParseCondition, j[2])

Parsed == [d \in Docs |-> ParseCondition[d]]

Accepted == {d \in Docs : Parsed[d] # ParseError}

-----------------------------------------------------------------------------
(* The way back.                                                           *)

(* An object with one entry.                                               *)
Entry(N, k, j) == Obj([x \in N |-> IF x = k THEN j ELSE Absent])

(* Not the code: a list of one is written as its element.                  *)
OpToValueFirst(c) ==
    Entry(OpName, Dollar[c.op],
          IF Len(c.args) = 1 THEN Val(c.args[1])
          ELSE Arr([i \in DOMAIN c.args |-> Val(c.args[i])]))

(* op_to_value.                                                            *)
OpToValue(c) ==
    Entry(OpName, Dollar[c.op],
          IF c.op \in {"in", "nin"} THEN Arr([i \in DOMAIN c.args |-> Val(c.args[i])])
          ELSE Val(c.args[1]))

(* condition_to_value.                                                     *)
ConditionToValue[c \in WhereCondition] ==
    IF c[1] = "cmp" THEN Entry(Name, c[2].key, OpToValue(c[2]))
    ELSE Entry(Name, IF c[1] = "and" THEN "$and" ELSE "$or",
               Arr([i \in DOMAIN c[2] |-> ConditionToValue[c[2][i]]]))

Reparsed == [d \in Accepted |-> ParseCondition[ConditionToValue[Parsed[d]]]]

-----------------------------------------------------------------------------
(* Evaluation of a condition tree.                                         *)

Flat(c) == [c EXCEPT !.args = ToSet(@)]

(* eval_condition.                                                         *)
EvalTree[c \in WhereCondition] ==
    CASE c[1] = "cmp" -> EvalOp(Flat(c[2]))
      [] c[1] = "and" -> {o \in EvalTree[c[2][1]] : \A i \in DOMAIN c[2] : o \in EvalTree[c[2][i]]}
      [] c[1] = "or"  -> UNION {EvalTree[c[2][i]] : i \in DOMAIN c[2]}

-----------------------------------------------------------------------------
(* Properties.                                                             *)

(* What the module documentation of filter.rs says a document means: the   *)
(* keys of an object are conditions that all hold, the operators of a      *)
(* field too, and a value by itself is the operand of $eq.                 *)
OpHolds(k, name, j, m) ==
    \E op \in DOMAIN Dollar :
        /\ Dollar[op] = name
        /\ Matches([key |-> k, op |-> op,
                    args |-> IF j[1] = "arr" THEN {x[2] : x \in ToSet(j[2])} ELSE {j[2]}], m)

FieldHolds(k, j, m) ==
    IF j[1] = "obj" THEN \A name \in Entries(j[2]) : OpHolds(k, name, j[2][name], m)
    ELSE OpHolds(k, "$eq", j, m)

Elements(j) == IF j[1] = "arr" THEN ToSet(j[2]) ELSE {}

(* The metadata that a document describes.                                 *)
Means[j \in Document] ==
    {m \in Metadata : j[1] = "obj" /\ \A k \in Entries(j[2]) :
        CASE k = "$and" -> \A x \in Elements(j[2][k]) : m \in Means[x]
          [] k = "$or"  -> \E x \in Elements(j[2][k]) : m \in Means[x]
          [] OTHER      -> FieldHolds(k, j[2][k], m)}

(* The record sets agree: the parsed filter selects from the index the     *)
(* records whose metadata the document describes.                          *)
SelectsWhatItMeans ==
    ExactInts => \A d \in Accepted :
        Candidates(EvalTree[Parsed[d]]) = {i \in live : meta[i] \in Means[d]}

(* "[`WhereFilter`] serializes to the operator form and deserializes from  *)
(* any form, so `serde_json` / [`FromStr`] round-trips are lossless"       *)
(* (filter.rs:17-18): a filter that was stored and read back is the same   *)
(* and selects the same records.                                           *)
RoundTrips ==
    \A d \in Accepted :
        Reparsed[d] = Parsed[d] /\ EvalTree[Reparsed[d]] = EvalTree[Parsed[d]]

=============================================================================
