------------------------------ MODULE Postings ------------------------------
(***************************************************************************)
(* The metadata index of a collection (rekha-engine's postings.rs) with    *)
(* the maps of collection.rs that give its offsets a meaning, and the      *)
(* filter semantics it must agree with (rekha-core's filter.rs).           *)
(*                                                                         *)
(* A metadata value is a kind and a number that names it; the numeric      *)
(* kinds are ordered by that number.  F64 is the conversion of an i64 to   *)
(* f64: exact up to ExactInt (2^53 in the code), to the nearest even       *)
(* multiple above it.  A bitmap is a set of offsets, and the nested maps   *)
(* key -> value -> bitmap are sets of entries, so that "no entry" and the  *)
(* pruned empty bitmap are the same thing.  An absent Option<Metadata> and *)
(* an empty one are indexed and matched alike, so both are the metadata    *)
(* without any key.                                                        *)
(***************************************************************************)
EXTENDS Naturals, FiniteSets

CONSTANTS
    Id,          \* record ids
    Key,         \* metadata keys
    Value,       \* metadata values clients use
    ExactInt,    \* largest integer below which every integer is an f64
    Filters,     \* filters clients send
    MaxOffset    \* bound on the offsets handed out

Kinds == {"str", "bool", "int", "float"}

NoValue == [kind |-> "none", n |-> 0]

Metadata == [Key -> Value \cup {NoValue}]

VARIABLES
    live, meta,      \* the records: which ids exist, and their metadata
    offsets,         \* id -> offset, counted from 1; 0 is no entry ...
    id_by_offset,    \* ... and back, as a set of pairs
    next_offset,
    eq, num, all,    \* struct Postings
    saved            \* records.bin: what the last checkpoint wrote

vars == <<live, meta, offsets, id_by_offset, next_offset, eq, num, all, saved>>

-----------------------------------------------------------------------------
(* Values.                                                                 *)

F64(n) ==
    IF n <= ExactInt \/ n % 2 = 0 THEN n
    ELSE IF (n + 1) % 4 = 0 THEN n + 1 ELSE n - 1

Numeric(v) == v.kind \in {"int", "float"}

(* MetadataValue::as_f64, for numeric values.                              *)
AsF64(v) == IF v.kind = "int" THEN F64(v.n) ELSE v.n

ValueKey(v) == IF Numeric(v) THEN <<"num", AsF64(v)>> ELSE <<v.kind, v.n>>

(* values_equal: two integers are compared exactly, a float with anything  *)
(* numeric as f64.                                                         *)
ValuesEqual(a, b) ==
    \/ a.kind = b.kind /\ a.n = b.n
    \/ Numeric(a) /\ Numeric(b) /\ a.kind # b.kind /\ AsF64(a) = AsF64(b)

-----------------------------------------------------------------------------
(* Filters.  A comparison has a key, an operator and a set of arguments:   *)
(* one for all operators except $in and $nin.                              *)

RangeOps == {"gt", "gte", "lt", "lte"}

Comparison ==
    [key : Key, op : {"eq", "ne"}, args : {{v} : v \in Value}]
    \cup [key : Key, op : RangeOps, args : {{v} : v \in {w \in Value : Numeric(w)}}]
    \cup [key : Key, op : {"in", "nin"}, args : SUBSET Value]

(* A list under $and or $or.  The parser rejects empty lists, and a bare   *)
(* comparison is the same as a list of one.                                *)
Condition == [join : {"and", "or"}, conds : (SUBSET Comparison) \ {{}}]

ASSUME PostingsAssumption ==
    /\ IsFiniteSet(Id) /\ Value \subseteq [kind : Kinds, n : Nat]
    /\ ExactInt \in Nat /\ MaxOffset \in Nat
    /\ Filters \subseteq Condition

(* The order of op applied to two numbers.                                 *)
InRange(op, x, y) ==
    \/ op = "gt" /\ x > y
    \/ op = "gte" /\ x >= y
    \/ op = "lt" /\ x < y
    \/ op = "lte" /\ x <= y

(* WhereFilter::matches for one comparison (match_op).                     *)
Matches(c, m) ==
    LET actual  == m[c.key]
        present == actual # NoValue
        among   == \E v \in c.args : ValuesEqual(actual, v)
    IN  \/ c.op \in {"eq", "in"} /\ present /\ among
        \/ c.op = "ne" /\ present /\ ~among
        \/ c.op = "nin" /\ (present => ~among)
        \/ /\ c.op \in RangeOps /\ present /\ Numeric(actual)
           /\ \A v \in c.args : InRange(c.op, AsF64(actual), AsF64(v))

(* match_condition.                                                        *)
MatchCondition(f, m) ==
    \/ f.join = "and" /\ \A c \in f.conds : Matches(c, m)
    \/ f.join = "or" /\ \E c \in f.conds : Matches(c, m)

(* The bitmaps of Postings.                                                *)
EqBitmap(k, vs) == {e.off : e \in {x \in eq : x.key = k /\ \E v \in vs : x.val = ValueKey(v)}}
KeyPresent(k)   == {e.off : e \in {x \in eq : x.key = k}}
NumRange(c)     == {e.off : e \in {x \in num : /\ x.key = c.key
                                               /\ \A v \in c.args : InRange(c.op, x.val, AsF64(v))}}

(* Postings::evaluate for one comparison (eval_op).                        *)
EvalOp(c) ==
    CASE c.op \in {"eq", "in"} -> EqBitmap(c.key, c.args)
      [] c.op = "ne"           -> KeyPresent(c.key) \ EqBitmap(c.key, c.args)
      [] c.op = "nin"          -> all \ EqBitmap(c.key, c.args)
      [] c.op \in RangeOps     -> NumRange(c)

(* eval_condition: the intersection, or the union, of the bitmaps.         *)
EvalCondition(f) ==
    {o \in UNION {EvalOp(c) : c \in f.conds} :
        f.join = "and" => \A c \in f.conds : o \in EvalOp(c)}

(* What filtered_query makes of a bitmap: offsets without an id, or whose  *)
(* id has no record, are skipped.                                          *)
Candidates(bitmap) ==
    {i \in live : \E o \in bitmap : <<o, i>> \in id_by_offset}

-----------------------------------------------------------------------------
(* Maintenance.                                                            *)

EqEntries(o, m) ==
    {[key |-> k, val |-> ValueKey(m[k]), off |-> o] : k \in {j \in Key : m[j] # NoValue}}
NumEntries(o, m) ==
    {[key |-> k, val |-> AsF64(m[k]), off |-> o] :
        k \in {j \in Key : m[j] # NoValue /\ Numeric(m[j])}}

Init ==
    /\ live = {} /\ meta = [i \in Id |-> [k \in Key |-> NoValue]]
    /\ offsets = [i \in Id |-> 0] /\ id_by_offset = {} /\ next_offset = 1
    /\ eq = {} /\ num = {} /\ all = {}
    /\ saved = [live |-> {}, meta |-> meta]

(* offset_for: a new offset only for an id that has none.                  *)
OffsetFor(i) ==
    IF offsets[i] # 0
    THEN UNCHANGED <<offsets, id_by_offset, next_offset>>
    ELSE /\ next_offset <= MaxOffset
         /\ offsets' = [offsets EXCEPT ![i] = next_offset]
         /\ id_by_offset' = id_by_offset \cup {<<next_offset, i>>}
         /\ next_offset' = next_offset + 1

ReindexWithoutRemove(i, m) ==
    /\ OffsetFor(i)
    /\ eq' = eq \cup EqEntries(offsets'[i], m)
    /\ num' = num \cup NumEntries(offsets'[i], m)
    /\ all' = all \cup {offsets'[i]}

(* Postings::remove of the old metadata, then Postings::insert of the new. *)
Reindex(i, m) ==
    /\ OffsetFor(i)
    /\ eq' = (IF i \in live THEN eq \ EqEntries(offsets'[i], meta[i]) ELSE eq)
             \cup EqEntries(offsets'[i], m)
    /\ num' = (IF i \in live THEN num \ NumEntries(offsets'[i], meta[i]) ELSE num)
              \cup NumEntries(offsets'[i], m)
    /\ all' = all \cup {offsets'[i]}

(* apply_operation of an Add or Upsert.                                    *)
Put(i, m) ==
    /\ Reindex(i, m)
    /\ live' = live \cup {i} /\ meta' = [meta EXCEPT ![i] = m]
    /\ UNCHANGED saved

(* apply_operation of an Update: the postings are left alone if the        *)
(* metadata is the old one.  The record exists: validate_update asked for  *)
(* it, and replay meets the same log.                                      *)
Update(i, m) ==
    /\ i \in live
    /\ IF meta[i] = m
       THEN UNCHANGED <<offsets, id_by_offset, next_offset, eq, num, all>>
       ELSE Reindex(i, m)
    /\ meta' = [meta EXCEPT ![i] = m]
    /\ UNCHANGED <<live, saved>>

(* apply_operation of a Delete: remove_all drops the offset everywhere.    *)
Delete(i) ==
    /\ IF offsets[i] # 0
       THEN /\ eq' = {e \in eq : e.off # offsets[i]}
            /\ num' = {e \in num : e.off # offsets[i]}
            /\ all' = all \ {offsets[i]}
            /\ id_by_offset' = id_by_offset \ {<<offsets[i], i>>}
            /\ offsets' = [offsets EXCEPT ![i] = 0]
       ELSE UNCHANGED <<eq, num, all, id_by_offset, offsets>>
    /\ live' = live \ {i} /\ meta' = [meta EXCEPT ![i] = [k \in Key |-> NoValue]]
    /\ UNCHANGED <<next_offset, saved>>

Checkpoint ==
    /\ live # {}
    /\ saved' = [live |-> live, meta |-> meta]
    /\ UNCHANGED <<live, meta, offsets, id_by_offset, next_offset, eq, num, all>>

ReopenNotCounting ==
    /\ live' = saved.live /\ meta' = saved.meta
    /\ next_offset' = 1
    /\ \E f \in [saved.live -> 1..Cardinality(saved.live)] :
         /\ \A i, j \in saved.live : f[i] = f[j] => i = j
         /\ offsets' = [i \in Id |-> IF i \in saved.live THEN f[i] ELSE 0]
         /\ id_by_offset' = {<<f[i], i>> : i \in saved.live}
         /\ eq' = UNION {EqEntries(f[i], saved.meta[i]) : i \in saved.live}
         /\ num' = UNION {NumEntries(f[i], saved.meta[i]) : i \in saved.live}
         /\ all' = {f[i] : i \in saved.live}
    /\ UNCHANGED saved

(* load_checkpoint: the records of the checkpoint, numbered afresh in the  *)
(* order the hash map yields them.  The replay of the log's tail consists  *)
(* of operations like any others.                                          *)
Reopen ==
    /\ live' = saved.live /\ meta' = saved.meta
    /\ next_offset' = Cardinality(saved.live) + 1
    /\ \E f \in [saved.live -> 1..Cardinality(saved.live)] :
         /\ \A i, j \in saved.live : f[i] = f[j] => i = j
         /\ offsets' = [i \in Id |-> IF i \in saved.live THEN f[i] ELSE 0]
         /\ id_by_offset' = {<<f[i], i>> : i \in saved.live}
         /\ eq' = UNION {EqEntries(f[i], saved.meta[i]) : i \in saved.live}
         /\ num' = UNION {NumEntries(f[i], saved.meta[i]) : i \in saved.live}
         /\ all' = {f[i] : i \in saved.live}
    /\ UNCHANGED saved

Next ==
    \/ \E i \in Id, m \in Metadata : Put(i, m)
    \/ \E i \in Id, m \in Metadata : Update(i, m)
    \/ \E i \in Id : Delete(i)
    \/ Checkpoint
    \/ Reopen

Spec == Init /\ [][Next]_vars

-----------------------------------------------------------------------------
(* Properties.                                                             *)

(* The variables keep their types, and no offset is in use that            *)
(* next_offset may still hand out (offset_for, load_checkpoint).           *)
TypeOK ==
    /\ live \subseteq Id /\ meta \in [Id -> Metadata]
    /\ next_offset \in Nat \ {0}
    /\ offsets \in [Id -> 0..(next_offset - 1)]
    /\ id_by_offset \subseteq (1..(next_offset - 1)) \X Id
    /\ all \subseteq 1..(next_offset - 1)
    /\ saved \in [live : SUBSET Id, meta : [Id -> Metadata]]

(* No integer is used that f64 cannot represent.                           *)
ExactInts == \A v \in Value : v.kind = "int" => F64(v.n) = v.n

(* "Postings::evaluate must agree with WhereFilter::matches" (postings.rs  *)
(* :19-21), for every filter and after any sequence of writes, deletes,    *)
(* checkpoints and reopens that renumber the offsets -- as long as every   *)
(* integer has its own f64.                                                *)
EvaluateAgrees ==
    ExactInts => \A f \in Filters :
        Candidates(EvalCondition(f)) = {i \in live : MatchCondition(f, meta[i])}

=============================================================================
