--------------------------- MODULE PostingsProofs ---------------------------
(***************************************************************************)
(* The postings agree with the filter semantics, for every set of ids,     *)
(* keys, values and filters.                                               *)
(*                                                                         *)
(* Agreement is not inductive by itself: the next write removes the old    *)
(* entries of one record only, so one has to know that there are no        *)
(* others.  IInv says what the index holds exactly -- the entries of the   *)
(* live records under their offsets -- and that offsets tell records       *)
(* apart.  Agreement then follows from IInv in each state.                 *)
(*                                                                         *)
(* Filters come as documents.  The recursive functions of Filter satisfy   *)
(* their equations because each is built level by level, over the nesting  *)
(* of documents or the height of conditions; by induction over the levels a*)
(* condition then selects what its document means, and is read back as it  *)
(* was written.                                                            *)
(***************************************************************************)
EXTENDS Filter, Recursion, FiniteSetTheorems, SequenceTheorems, TLAPS

(* The offset maps are inverse to each other, on exactly the live ids.     *)
OffsetInv ==
    /\ \A i \in Id : offsets[i] # 0 <=> i \in live
    /\ \A i, j \in live : offsets[i] = offsets[j] => i = j
    /\ id_by_offset = {<<offsets[i], i>> : i \in live}

(* The index holds the entries of the live records and nothing else.       *)
IndexInv ==
    /\ eq = UNION {EqEntries(offsets[i], meta[i]) : i \in live}
    /\ num = UNION {NumEntries(offsets[i], meta[i]) : i \in live}
    /\ all = {offsets[i] : i \in live}

IInv == TypeOK /\ OffsetInv /\ IndexInv

-----------------------------------------------------------------------------
(* Entries of different offsets are different.                             *)
LEMMA EntryOffsets ==
    ASSUME NEW o, NEW m
    PROVE  /\ \A e \in EqEntries(o, m) : e.off = o
           /\ \A e \in NumEntries(o, m) : e.off = o
BY DEF EqEntries, NumEntries

(* An id has a live record exactly if it has an offset: what OffsetFor     *)
(* does to the offset maps.                                                *)
LEMMA OffsetForStep ==
    ASSUME TypeOK, OffsetInv, NEW i \in Id, OffsetFor(i), live' = live \cup {i}
    PROVE  /\ next_offset' \in Nat \ {0} /\ next_offset' >= next_offset
           /\ offsets' \in [Id -> 0..(next_offset' - 1)]
           /\ OffsetInv'
           /\ \A j \in live : offsets'[j] = offsets[j]
           /\ offsets'[i] \in 1..(next_offset' - 1)
<1>1. CASE offsets[i] # 0
  BY <1>1 DEF TypeOK, OffsetInv, OffsetFor
<1>2. CASE offsets[i] = 0
  <2>1. /\ offsets' = [offsets EXCEPT ![i] = next_offset]
        /\ id_by_offset' = id_by_offset \cup {<<next_offset, i>>}
        /\ next_offset' = next_offset + 1
    BY <1>2 DEF OffsetFor
  <2>2. i \notin live /\ offsets'[i] = next_offset
    BY <1>2, <2>1 DEF TypeOK, OffsetInv
  <2>3. \A j \in Id \ {i} : offsets'[j] = offsets[j] /\ offsets[j] # next_offset
    BY <2>1 DEF TypeOK
  <2>4. next_offset' \in Nat \ {0} /\ offsets' \in [Id -> 0..(next_offset' - 1)]
    BY <2>1 DEF TypeOK
  <2>5. \A j \in Id : offsets'[j] # 0 <=> j \in live'
    BY <2>2, <2>3 DEF TypeOK, OffsetInv
  <2>6. \A j, k \in live' : offsets'[j] = offsets'[k] => j = k
    BY <2>2, <2>3 DEF TypeOK, OffsetInv
  <2>7. id_by_offset' = {<<offsets'[j], j>> : j \in live'}
    BY <2>1, <2>2, <2>3 DEF TypeOK, OffsetInv
  <2> QED
    BY <2>1, <2>2, <2>3, <2>4, <2>5, <2>6, <2>7 DEF TypeOK, OffsetInv
<1> QED
  BY <1>1, <1>2

(* A record gets new metadata: Put, and an Update that changes something.  *)
LEMMA ReindexStep ==
    ASSUME IInv, NEW i \in Id, NEW m \in Metadata, Reindex(i, m),
           live' = live \cup {i}, meta' = [meta EXCEPT ![i] = m], UNCHANGED saved
    PROVE  IInv'
<1> USE DEF IInv
<1>1. OffsetFor(i)
  BY DEF Reindex
<1>2. /\ next_offset' \in Nat \ {0} /\ next_offset' >= next_offset
      /\ offsets' \in [Id -> 0..(next_offset' - 1)]
      /\ OffsetInv'
      /\ \A j \in live : offsets'[j] = offsets[j]
      /\ offsets'[i] \in 1..(next_offset' - 1)
  BY <1>1, OffsetForStep
<1>3. meta' \in [Id -> Metadata] /\ meta'[i] = m /\ \A j \in live \ {i} : meta'[j] = meta[j]
  BY DEF TypeOK
<1>4. \A j \in live \ {i} : offsets[j] # offsets'[i]
  BY <1>2 DEF OffsetInv, TypeOK
<1>5. eq' = UNION {EqEntries(offsets'[j], meta'[j]) : j \in live'}
  <2> DEFINE E == [j \in live |-> EqEntries(offsets[j], meta[j])]
             F == [j \in live' |-> EqEntries(offsets'[j], meta'[j])]
             old == IF i \in live THEN EqEntries(offsets'[i], meta[i]) ELSE {}
  <2>1. eq' = (eq \ old) \cup EqEntries(offsets'[i], m)
    BY DEF Reindex
  <2>2. eq = UNION {E[j] : j \in live}
    BY DEF IndexInv
  <2>3. i \in live => old = E[i]
    BY <1>2
  <2>4. F[i] = EqEntries(offsets'[i], m)
    BY <1>3
  <2>5. \A j \in live \ {i} : F[j] = E[j]
    BY <1>2, <1>3
  <2>6. \A j \in live \ {i} : E[j] \cap old = {}
    BY <1>4, EntryOffsets
  <2> HIDE DEF E, F, old
  <2>7. eq' = UNION {F[j] : j \in live'}
    <3>1. i \notin live => old = {}
      BY DEF old
    <3> QED
      BY <2>1, <2>2, <2>3, <2>4, <2>5, <2>6, <3>1
  <2> QED
    BY <2>7 DEF F
<1>6. num' = UNION {NumEntries(offsets'[j], meta'[j]) : j \in live'}
  <2> DEFINE E == [j \in live |-> NumEntries(offsets[j], meta[j])]
             F == [j \in live' |-> NumEntries(offsets'[j], meta'[j])]
             old == IF i \in live THEN NumEntries(offsets'[i], meta[i]) ELSE {}
  <2>1. num' = (num \ old) \cup NumEntries(offsets'[i], m)
    BY DEF Reindex
  <2>2. num = UNION {E[j] : j \in live}
    BY DEF IndexInv
  <2>3. i \in live => old = E[i]
    BY <1>2
  <2>4. F[i] = NumEntries(offsets'[i], m)
    BY <1>3
  <2>5. \A j \in live \ {i} : F[j] = E[j]
    BY <1>2, <1>3
  <2>6. \A j \in live \ {i} : E[j] \cap old = {}
    BY <1>4, EntryOffsets
  <2> HIDE DEF E, F, old
  <2>7. num' = UNION {F[j] : j \in live'}
    <3>1. i \notin live => old = {}
      BY DEF old
    <3> QED
      BY <2>1, <2>2, <2>3, <2>4, <2>5, <2>6, <3>1
  <2> QED
    BY <2>7 DEF F
<1>7. all' = {offsets'[j] : j \in live'}
  BY <1>2 DEF Reindex, IndexInv
<1>8. TypeOK'
  <2>1. id_by_offset' \subseteq (1..(next_offset' - 1)) \X Id
    BY <1>2 DEF TypeOK, OffsetInv
  <2>2. all' \subseteq 1..(next_offset' - 1)
    BY <1>2, <1>7 DEF TypeOK, OffsetInv
  <2> QED
    BY <1>2, <1>3, <2>1, <2>2 DEF TypeOK
<1> QED
  BY <1>2, <1>5, <1>6, <1>7, <1>8 DEF IndexInv

(* A delete takes out the entries under the record's offset, which are     *)
(* its own entries because no other record has that offset.                *)
LEMMA DeleteStep ==
    ASSUME IInv, NEW i \in Id, Delete(i)
    PROVE  IInv'
<1> USE DEF IInv
<1>1. /\ live' = live \ {i} /\ UNCHANGED <<next_offset, saved>>
      /\ meta' = [meta EXCEPT ![i] = [k \in Key |-> NoValue]]
  BY DEF Delete
<1>2. meta' \in [Id -> Metadata] /\ \A j \in live' : meta'[j] = meta[j]
  BY <1>1 DEF TypeOK, Metadata
<1>3. CASE offsets[i] = 0
  <2>1. i \notin live /\ live' = live /\ UNCHANGED <<eq, num, all, id_by_offset, offsets>>
    BY <1>1, <1>3 DEF Delete, OffsetInv, TypeOK
  <2>2. TypeOK' /\ OffsetInv'
    BY <1>1, <1>2, <2>1 DEF TypeOK, OffsetInv
  <2>3. IndexInv'
    BY <1>2, <2>1 DEF IndexInv
  <2> QED
    BY <2>2, <2>3
<1>4. CASE offsets[i] # 0
  <2>1. /\ eq' = {e \in eq : e.off # offsets[i]}
        /\ num' = {e \in num : e.off # offsets[i]}
        /\ all' = all \ {offsets[i]}
        /\ id_by_offset' = id_by_offset \ {<<offsets[i], i>>}
        /\ offsets' = [offsets EXCEPT ![i] = 0]
    BY <1>4 DEF Delete
  <2>2. i \in live /\ offsets'[i] = 0 /\ \A j \in Id \ {i} : offsets'[j] = offsets[j]
    BY <1>4, <2>1 DEF TypeOK, OffsetInv
  <2>3. \A j \in live' : offsets[j] # offsets[i] /\ offsets'[j] = offsets[j]
    BY <1>1, <2>2 DEF TypeOK, OffsetInv
  <2>4. TypeOK'
    <3>1. offsets' \in [Id -> 0..(next_offset' - 1)]
      BY <1>1, <2>1 DEF TypeOK
    <3>2. id_by_offset' \subseteq id_by_offset /\ all' \subseteq all /\ live' \subseteq live
      BY <1>1, <2>1
    <3> QED
      BY <1>1, <1>2, <3>1, <3>2 DEF TypeOK
  <2>5. OffsetInv'
    <3>1. id_by_offset' = {<<offsets'[j], j>> : j \in live'}
      BY <1>1, <2>1, <2>2, <2>3 DEF OffsetInv
    <3> QED
      BY <1>1, <2>2, <2>3, <3>1 DEF OffsetInv, TypeOK
  <2>6. eq' = UNION {EqEntries(offsets'[j], meta'[j]) : j \in live'}
    BY <1>1, <1>2, <2>1, <2>2, <2>3, EntryOffsets DEF IndexInv
  <2>7. num' = UNION {NumEntries(offsets'[j], meta'[j]) : j \in live'}
    BY <1>1, <1>2, <2>1, <2>2, <2>3, EntryOffsets DEF IndexInv
  <2>8. all' = {offsets'[j] : j \in live'}
    BY <1>1, <2>1, <2>2, <2>3 DEF IndexInv
  <2> QED
    BY <2>4, <2>5, <2>6, <2>7, <2>8 DEF IndexInv
<1> QED
  BY <1>3, <1>4

(* load_checkpoint builds the index of the saved records from nothing.     *)
LEMMA ReopenStep ==
    ASSUME IInv, Reopen
    PROVE  IInv'
<1> USE DEF IInv
<1>1. /\ live' = saved.live /\ meta' = saved.meta /\ UNCHANGED saved
      /\ next_offset' = Cardinality(saved.live) + 1
  BY DEF Reopen
<1>2. saved.live \subseteq Id /\ saved.meta \in [Id -> Metadata]
  BY DEF TypeOK
<1>3. Cardinality(saved.live) \in Nat
  BY <1>2, PostingsAssumption, FS_Subset, FS_CardinalityType
<1>4. PICK f \in [saved.live -> 1..Cardinality(saved.live)] :
         /\ \A i, j \in saved.live : f[i] = f[j] => i = j
         /\ offsets' = [i \in Id |-> IF i \in saved.live THEN f[i] ELSE 0]
         /\ id_by_offset' = {<<f[i], i>> : i \in saved.live}
         /\ eq' = UNION {EqEntries(f[i], saved.meta[i]) : i \in saved.live}
         /\ num' = UNION {NumEntries(f[i], saved.meta[i]) : i \in saved.live}
         /\ all' = {f[i] : i \in saved.live}
  BY DEF Reopen
<1>5. \A i \in live' : offsets'[i] = f[i] /\ f[i] \in 1..(next_offset' - 1)
  BY <1>1, <1>2, <1>3, <1>4
<1>6. TypeOK'
  BY <1>1, <1>2, <1>3, <1>4, <1>5 DEF TypeOK
<1>7. OffsetInv'
  BY <1>1, <1>2, <1>3, <1>4, <1>5 DEF OffsetInv
<1>8. IndexInv'
  <2>1. \A i \in saved.live :
          /\ offsets'[i] = f[i]
          /\ EqEntries(offsets'[i], meta'[i]) = EqEntries(f[i], saved.meta[i])
          /\ NumEntries(offsets'[i], meta'[i]) = NumEntries(f[i], saved.meta[i])
    BY <1>1, <1>5
  <2>2. /\ eq' = UNION {EqEntries(offsets'[i], meta'[i]) : i \in saved.live}
        /\ num' = UNION {NumEntries(offsets'[i], meta'[i]) : i \in saved.live}
        /\ all' = {offsets'[i] : i \in saved.live}
    <3>1. {EqEntries(offsets'[i], meta'[i]) : i \in saved.live}
             = {EqEntries(f[i], saved.meta[i]) : i \in saved.live}
      BY <2>1
    <3>2. {NumEntries(offsets'[i], meta'[i]) : i \in saved.live}
             = {NumEntries(f[i], saved.meta[i]) : i \in saved.live}
      BY <2>1
    <3>3. {offsets'[i] : i \in saved.live} = {f[i] : i \in saved.live}
      BY <2>1
    <3> QED
      BY <1>4, <3>1, <3>2, <3>3
  <2> QED
    BY <1>1, <2>2 DEF IndexInv
<1> QED
  BY <1>6, <1>7, <1>8

LEMMA IInvInit == Init => IInv
BY DEF Init, IInv, TypeOK, OffsetInv, IndexInv, Metadata

LEMMA IInvStep == IInv /\ [Next]_vars => IInv'
<1> SUFFICES ASSUME IInv, [Next]_vars PROVE IInv'
  OBVIOUS
<1>1. ASSUME NEW i \in Id, NEW m \in Metadata, Put(i, m) PROVE IInv'
  BY <1>1, ReindexStep DEF Put
<1>2. ASSUME NEW i \in Id, NEW m \in Metadata, Update(i, m) PROVE IInv'
  <2>1. CASE meta[i] = m
    <3>1. meta' = meta
      BY <1>2, <2>1 DEF Update, IInv, TypeOK
    <3> QED
      BY <1>2, <2>1, <3>1 DEF Update, IInv, TypeOK, OffsetInv, IndexInv
  <2>2. CASE meta[i] # m
    BY <1>2, <2>2, ReindexStep DEF Update
  <2> QED
    BY <2>1, <2>2
<1>3. ASSUME NEW i \in Id, Delete(i) PROVE IInv'
  BY <1>3, DeleteStep
<1>4. CASE Checkpoint
  BY <1>4 DEF Checkpoint, IInv, TypeOK, OffsetInv, IndexInv
<1>5. CASE Reopen
  BY <1>5, ReopenStep
<1>6. CASE UNCHANGED vars
  BY <1>6 DEF vars, IInv, TypeOK, OffsetInv, IndexInv
<1> QED
  BY <1>1, <1>2, <1>3, <1>4, <1>5, <1>6 DEF Next

LEMMA IInvHolds == Spec => []IInv
BY IInvInit, IInvStep, PTL DEF Spec

-----------------------------------------------------------------------------
(* Agreement in a state that satisfies IInv.                               *)

(* A literal of a filter is a value, or the f64 of a number.               *)
LEMMA LiteralType ==
    /\ Value \subseteq Literal
    /\ \A v \in Literal : v \in [kind : Kinds, n : Nat]
    /\ \A v \in Literal : Numeric(v) => AsFloat(v) \in Literal /\ AsF64(v) \in Nat
<1>1. \A n \in Nat : F64(n) \in Nat
  BY PostingsAssumption DEF F64
<1>2. \A v \in Value : v \in [kind : Kinds, n : Nat] /\ AsF64(v) \in Nat
  BY <1>1, PostingsAssumption DEF AsF64
<1>3. ASSUME NEW v \in Literal PROVE v \in Value \/ \E w \in Value : Numeric(w) /\ v = AsFloat(w)
  BY DEF Literal
<1> QED
  BY <1>2, <1>3 DEF Literal, AsFloat, AsF64, Numeric, Kinds

(* ValueKey is the right key: under ExactInts, two values have the same    *)
(* key exactly if values_equal says they are equal.                        *)
LEMMA ValueKeyAgrees ==
    ASSUME ExactInts, NEW v \in Literal, NEW w \in Literal
    PROVE  ValueKey(v) = ValueKey(w) <=> ValuesEqual(v, w)
<1>1. v.kind \in Kinds /\ w.kind \in Kinds /\ v.n \in Nat /\ w.n \in Nat
  <2>1. v \in [kind : Kinds, n : Nat] /\ w \in [kind : Kinds, n : Nat]
    BY LiteralType
  <2> QED BY <2>1
<1>2. (Numeric(v) => AsF64(v) = v.n) /\ (Numeric(w) => AsF64(w) = w.n)
  BY DEF ExactInts, AsF64, Numeric, Literal, AsFloat
<1> QED
  BY <1>1, <1>2 DEF ValueKey, ValuesEqual, Numeric, Kinds

(* What the three bitmaps say of a live record.                            *)
LEMMA Bitmaps ==
    ASSUME IInv, ExactInts, NEW c, c.key \in Key, c.args \subseteq Literal, NEW i \in live
    PROVE  /\ offsets[i] \in EqBitmap(c.key, c.args) <=>
                 /\ meta[i][c.key] # NoValue
                 /\ \E v \in c.args : ValuesEqual(meta[i][c.key], v)
           /\ offsets[i] \in KeyPresent(c.key) <=> meta[i][c.key] # NoValue
           /\ offsets[i] \in NumRange(c) <=>
                 /\ meta[i][c.key] # NoValue /\ Numeric(meta[i][c.key])
                 /\ \A v \in c.args : InRange(c.op, AsF64(meta[i][c.key]), AsF64(v))
<1> USE DEF IInv
<1>1. c.key \in Key /\ c.args \subseteq Literal
  OBVIOUS
<1>2. meta[i][c.key] \in Value \cup {NoValue}
  BY <1>1 DEF TypeOK, Metadata
<1>3. \A e \in eq : e.off = offsets[i] /\ e.key = c.key =>
         meta[i][c.key] # NoValue /\ e.val = ValueKey(meta[i][c.key])
  <2> SUFFICES ASSUME NEW e \in eq, e.off = offsets[i], e.key = c.key
               PROVE  meta[i][c.key] # NoValue /\ e.val = ValueKey(meta[i][c.key])
    OBVIOUS
  <2>1. PICK j \in live : e \in EqEntries(offsets[j], meta[j])
    BY DEF IndexInv
  <2>2. j = i
    BY <2>1, EntryOffsets DEF OffsetInv
  <2> QED
    BY <2>1, <2>2 DEF EqEntries
<1>4. meta[i][c.key] # NoValue =>
         [key |-> c.key, val |-> ValueKey(meta[i][c.key]), off |-> offsets[i]] \in eq
  BY <1>1 DEF IndexInv, EqEntries
<1>5. \A e \in num : e.off = offsets[i] /\ e.key = c.key =>
         /\ meta[i][c.key] # NoValue /\ Numeric(meta[i][c.key])
         /\ e.val = AsF64(meta[i][c.key])
  <2> SUFFICES ASSUME NEW e \in num, e.off = offsets[i], e.key = c.key
               PROVE  /\ meta[i][c.key] # NoValue /\ Numeric(meta[i][c.key])
                      /\ e.val = AsF64(meta[i][c.key])
    OBVIOUS
  <2>1. PICK j \in live : e \in NumEntries(offsets[j], meta[j])
    BY DEF IndexInv
  <2>2. j = i
    BY <2>1, EntryOffsets DEF OffsetInv
  <2> QED
    BY <2>1, <2>2 DEF NumEntries
<1>6. meta[i][c.key] # NoValue /\ Numeric(meta[i][c.key]) =>
         [key |-> c.key, val |-> AsF64(meta[i][c.key]), off |-> offsets[i]] \in num
  BY <1>1 DEF IndexInv, NumEntries
<1>7. offsets[i] \in KeyPresent(c.key) <=> meta[i][c.key] # NoValue
  BY <1>3, <1>4 DEF KeyPresent
<1>8. offsets[i] \in EqBitmap(c.key, c.args) <=>
         /\ meta[i][c.key] # NoValue
         /\ \E v \in c.args : ValueKey(meta[i][c.key]) = ValueKey(v)
  BY <1>3, <1>4 DEF EqBitmap
<1>9. meta[i][c.key] # NoValue => \A v \in c.args :
         ValueKey(meta[i][c.key]) = ValueKey(v) <=> ValuesEqual(meta[i][c.key], v)
  BY <1>1, <1>2, ValueKeyAgrees, LiteralType
<1>10. offsets[i] \in NumRange(c) <=>
         /\ meta[i][c.key] # NoValue /\ Numeric(meta[i][c.key])
         /\ \A v \in c.args : InRange(c.op, AsF64(meta[i][c.key]), AsF64(v))
  BY <1>5, <1>6 DEF NumRange
<1> QED
  BY <1>7, <1>8, <1>9, <1>10

(* eval_op and match_op agree on every comparison.                         *)
LEMMA ComparisonAgrees ==
    ASSUME IInv, ExactInts, NEW c, c.key \in Key, c.args \subseteq Literal, NEW i \in live,
           c.op \in {"eq", "in", "ne", "nin"} \cup RangeOps
    PROVE  offsets[i] \in EvalOp(c) <=> Matches(c, meta[i])
<1>1. c.op \in {"eq", "in", "ne", "nin"} \cup RangeOps
  OBVIOUS
<1>2. offsets[i] \in all
  BY DEF IInv, IndexInv
<1> QED
  BY <1>1, <1>2, Bitmaps DEF EvalOp, Matches, RangeOps

(* The main point: filters evaluated on the index select exactly the       *)
(* records that WhereFilter::matches accepts.                              *)
LEMMA IInvAgrees == IInv => EvaluateAgrees
<1> SUFFICES ASSUME IInv, ExactInts, NEW f \in Filters
             PROVE  Candidates(EvalCondition(f))
                      = {i \in live : MatchCondition(f, meta[i])}
  BY DEF EvaluateAgrees
<1>1. f.conds \subseteq Comparison /\ f.conds # {} /\ f.join \in {"and", "or"}
  BY PostingsAssumption DEF Condition
<1>2. \A i \in live : \A c \in f.conds : offsets[i] \in EvalOp(c) <=> Matches(c, meta[i])
  <2>1. \A c \in f.conds : /\ c.key \in Key /\ c.args \subseteq Literal
                           /\ c.op \in {"eq", "in", "ne", "nin"} \cup RangeOps
    BY <1>1, LiteralType DEF Comparison
  <2> QED BY <2>1, ComparisonAgrees
<1>3. \A i \in live : offsets[i] \in EvalCondition(f) <=> MatchCondition(f, meta[i])
  BY <1>1, <1>2 DEF EvalCondition, MatchCondition
<1>4. \A i \in live : \A o : <<o, i>> \in id_by_offset <=> o = offsets[i]
  BY DEF IInv, OffsetInv
<1> QED
  BY <1>3, <1>4 DEF Candidates

-----------------------------------------------------------------------------
(* Filters as documents.                                                   *)

(* Json satisfies its equation: documents of level n exist for every n,    *)
(* step by step from level 0.                                              *)
LEMMA JsonDef ==
    /\ Json[0] = Operand
    /\ \A n \in 1..(Depth + 2) :
         Json[n] = Json[n - 1] \cup Objects(Name, FieldDoc \cup ({"arr"} \X Seq(Json[n - 1])))
<1> DEFINE D == 0..(Depth + 2)
           G(S) == S \cup Objects(Name, FieldDoc \cup ({"arr"} \X Seq(S)))
           T == {k \in D : \E g : g[0] = Operand /\ \A n \in 1..k : g[n] = G(g[n - 1])}
<1>0. Depth \in Nat
  BY FilterAssumption
<1>1. Json = CHOOSE f : f = [n \in D |-> IF n = 0 THEN Operand ELSE G(f[n - 1])]
  BY DEF Json
<1> HIDE DEF G
<1>2. 0 \in T
  <2>1. [n \in D |-> Operand][0] = Operand
    BY <1>0
  <2> QED BY <1>0, <2>1
<1>3. ASSUME NEW k \in 1..(Depth + 2), k - 1 \in T PROVE k \in T
  <2>1. PICK g : g[0] = Operand /\ \A n \in 1..(k - 1) : g[n] = G(g[n - 1])
    BY <1>3
  <2> DEFINE h == [n \in D |-> IF n = k THEN G(g[k - 1]) ELSE g[n]]
  <2>2. \A n \in D : h[n] = IF n = k THEN G(g[k - 1]) ELSE g[n]
    OBVIOUS
  <2> HIDE DEF h
  <2>3. h[0] = Operand
    BY <1>0, <2>1, <2>2
  <2>4. ASSUME NEW n \in 1..k PROVE h[n] = G(h[n - 1])
    BY <1>0, <2>1, <2>2
  <2> QED BY <2>3, <2>4
<1>4. Depth + 2 \in T
  <2> HIDE DEF T
  <2> QED BY <1>0, <1>2, <1>3, IntervalInduction
<1>5. PICK g : g[0] = Operand /\ \A n \in 1..(Depth + 2) : g[n] = G(g[n - 1])
  BY <1>4
<1> DEFINE f == [n \in D |-> g[n]]
<1>6. f = [n \in D |-> IF n = 0 THEN Operand ELSE G(f[n - 1])]
  <2>1. ASSUME NEW n \in D PROVE g[n] = IF n = 0 THEN Operand ELSE G(f[n - 1])
    BY <1>0, <1>5
  <2> QED BY <2>1
<1> HIDE DEF f
<1>7. Json = [n \in D |-> IF n = 0 THEN Operand ELSE G(Json[n - 1])]
  BY <1>1, <1>6
<1>8. Json[0] = Operand /\ \A n \in 1..(Depth + 2) : Json[n] = G(Json[n - 1])
  BY <1>0, <1>7
<1> QED BY <1>8 DEF G

(* The same for Tree.                                                      *)
LEMMA TreeDef ==
    /\ Tree[0] = Leaf
    /\ \A n \in 1..(Depth + 1) :
         Tree[n] = Tree[n - 1] \cup ({"and", "or"} \X {s \in Seq(Tree[n - 1]) : Len(s) > 1})
<1> DEFINE D == 0..(Depth + 1)
           G(S) == S \cup ({"and", "or"} \X {s \in Seq(S) : Len(s) > 1})
           T == {k \in D : \E g : g[0] = Leaf /\ \A n \in 1..k : g[n] = G(g[n - 1])}
<1>0. Depth \in Nat
  BY FilterAssumption
<1>1. Tree = CHOOSE f : f = [n \in D |-> IF n = 0 THEN Leaf ELSE G(f[n - 1])]
  BY DEF Tree
<1> HIDE DEF G
<1>2. 0 \in T
  <2>1. [n \in D |-> Leaf][0] = Leaf
    BY <1>0
  <2> QED BY <1>0, <2>1
<1>3. ASSUME NEW k \in 1..(Depth + 1), k - 1 \in T PROVE k \in T
  <2>1. PICK g : g[0] = Leaf /\ \A n \in 1..(k - 1) : g[n] = G(g[n - 1])
    BY <1>3
  <2> DEFINE h == [n \in D |-> IF n = k THEN G(g[k - 1]) ELSE g[n]]
  <2>2. \A n \in D : h[n] = IF n = k THEN G(g[k - 1]) ELSE g[n]
    OBVIOUS
  <2> HIDE DEF h
  <2>3. h[0] = Leaf
    BY <1>0, <2>1, <2>2
  <2>4. ASSUME NEW n \in 1..k PROVE h[n] = G(h[n - 1])
    BY <1>0, <2>1, <2>2
  <2> QED BY <2>3, <2>4
<1>4. Depth + 1 \in T
  <2> HIDE DEF T
  <2> QED BY <1>0, <1>2, <1>3, IntervalInduction
<1>5. PICK g : g[0] = Leaf /\ \A n \in 1..(Depth + 1) : g[n] = G(g[n - 1])
  BY <1>4
<1> DEFINE f == [n \in D |-> g[n]]
<1>6. f = [n \in D |-> IF n = 0 THEN Leaf ELSE G(f[n - 1])]
  <2>1. ASSUME NEW n \in D PROVE g[n] = IF n = 0 THEN Leaf ELSE G(f[n - 1])
    BY <1>0, <1>5
  <2> QED BY <2>1
<1> HIDE DEF f
<1>7. Tree = [n \in D |-> IF n = 0 THEN Leaf ELSE G(Tree[n - 1])]
  BY <1>1, <1>6
<1>8. Tree[0] = Leaf /\ \A n \in 1..(Depth + 1) : Tree[n] = G(Tree[n - 1])
  BY <1>0, <1>7
<1> QED BY <1>8 DEF G

-----------------------------------------------------------------------------
(* Levels include the ones below, and what is new in one.                  *)
LEMMA JsonLevels ==
    ASSUME NEW n \in 0..(Depth + 2)
    PROVE  /\ Operand \subseteq Json[n] /\ Json[n] \subseteq Document
           /\ n # 0 => /\ Json[n - 1] \subseteq Json[n]
                       /\ Objects(Name, FieldDoc \cup ({"arr"} \X Seq(Json[n - 1]))) \subseteq Json[n]
<1> DEFINE T == {k \in 0..(Depth + 2) : Operand \subseteq Json[k]}
           U == {k \in 0..(Depth + 2) : Json[Depth + 2 - k] \subseteq Json[Depth + 2]}
<1>0. Depth \in Nat
  BY FilterAssumption
<1>1. \A k \in 0..(Depth + 2) : k \in T
  <2>1. 0 \in T
    BY <1>0, JsonDef
  <2>2. ASSUME NEW k \in 1..(Depth + 2), k - 1 \in T PROVE k \in T
    <3>1. Json[k - 1] \subseteq Json[k]
      BY JsonDef
    <3> QED BY <2>2, <3>1
  <2> HIDE DEF T
  <2> QED BY <1>0, <2>1, <2>2, IntervalInduction
<1>2. \A k \in 0..(Depth + 2) : k \in U
  <2>1. 0 \in U
    BY <1>0
  <2>2. ASSUME NEW k \in 1..(Depth + 2), k - 1 \in U PROVE k \in U
    <3>1. Depth + 2 - (k - 1) \in 1..(Depth + 2) /\ (Depth + 2 - (k - 1)) - 1 = Depth + 2 - k
      BY <1>0
    <3>2. Json[Depth + 2 - k] \subseteq Json[Depth + 2 - (k - 1)]
      BY <3>1, JsonDef
    <3> QED BY <2>2, <3>2
  <2> HIDE DEF U
  <2> QED BY <1>0, <2>1, <2>2, IntervalInduction
<1>3. Json[n] \subseteq Document
  <2>1. Depth + 2 - n \in U /\ Depth + 2 - (Depth + 2 - n) = n
    BY <1>0, <1>2
  <2> QED BY <2>1 DEF Document
<1>4. n # 0 => n \in 1..(Depth + 2)
  BY <1>0
<1> QED BY <1>1, <1>3, <1>4, JsonDef

(* The same for trees.                                                     *)
LEMMA TreeLevels ==
    ASSUME NEW n \in 0..(Depth + 1)
    PROVE  /\ Leaf \subseteq Tree[n] /\ Tree[n] \subseteq WhereCondition
           /\ n # 0 => /\ Tree[n - 1] \subseteq Tree[n]
                       /\ {"and", "or"} \X {s \in Seq(Tree[n - 1]) : Len(s) > 1} \subseteq Tree[n]
<1> DEFINE T == {k \in 0..(Depth + 1) : Leaf \subseteq Tree[k]}
           U == {k \in 0..(Depth + 1) : Tree[Depth + 1 - k] \subseteq Tree[Depth + 1]}
<1>0. Depth \in Nat
  BY FilterAssumption
<1>1. \A k \in 0..(Depth + 1) : k \in T
  <2>1. 0 \in T
    BY <1>0, TreeDef
  <2>2. ASSUME NEW k \in 1..(Depth + 1), k - 1 \in T PROVE k \in T
    BY <2>2, TreeDef
  <2> HIDE DEF T
  <2> QED BY <1>0, <2>1, <2>2, IntervalInduction
<1>2. \A k \in 0..(Depth + 1) : k \in U
  <2>1. 0 \in U
    BY <1>0
  <2>2. ASSUME NEW k \in 1..(Depth + 1), k - 1 \in U PROVE k \in U
    <3>1. Depth + 1 - (k - 1) \in 1..(Depth + 1) /\ (Depth + 1 - (k - 1)) - 1 = Depth + 1 - k
      BY <1>0
    <3>2. Tree[Depth + 1 - k] \subseteq Tree[Depth + 1 - (k - 1)]
      BY <3>1, TreeDef
    <3> QED BY <2>2, <3>2
  <2> HIDE DEF U
  <2> QED BY <1>0, <2>1, <2>2, IntervalInduction
<1>3. Tree[n] \subseteq WhereCondition
  <2>1. Depth + 1 - n \in U /\ Depth + 1 - (Depth + 1 - n) = n
    BY <1>0, <1>2
  <2> QED BY <2>1 DEF WhereCondition
<1>4. n # 0 => n \in 1..(Depth + 1)
  BY <1>0
<1> QED BY <1>1, <1>3, <1>4, TreeDef

-----------------------------------------------------------------------------
(* The recursive functions satisfy the equations they are defined by.      *)

(* A document of level 0 is refused, and the lists of the others hold      *)
(* documents of the level below.                                           *)
LEMMA Listed ==
    ASSUME NEW n \in 1..(Depth + 2), NEW j \in Json[n], NEW k \in Lists,
           j[1] = "obj", k \in Entries(j[2]), j[2][k][1] = "arr"
    PROVE  j[2][k][2] \in Seq(Json[n - 1])
<1> DEFINE T == {m \in 0..(Depth + 2) : \A d \in Json[m] :
                    d[1] = "obj" /\ k \in Entries(d[2]) /\ d[2][k][1] = "arr"
                       => m # 0 /\ d[2][k][2] \in Seq(Json[m - 1])}
<1>0. Depth \in Nat
  BY FilterAssumption
<1>1. 0 \in T
  BY <1>0, JsonDef DEF Operand, Scalar, Null
<1>2. ASSUME NEW m \in 1..(Depth + 2), m - 1 \in T PROVE m \in T
  <2> SUFFICES ASSUME NEW d \in Json[m], d[1] = "obj", k \in Entries(d[2]), d[2][k][1] = "arr"
               PROVE  d[2][k][2] \in Seq(Json[m - 1])
    BY <1>0
  <2>0. m - 1 \in 0..(Depth + 2)
    BY <1>0
  <2>1. Operand \subseteq Json[m - 1]
    BY <2>0, JsonLevels
  <2>2. CASE d \in Json[m - 1]
    <3>1. m - 1 # 0 /\ d[2][k][2] \in Seq(Json[(m - 1) - 1])
      BY <1>2, <2>2
    <3>2. Json[(m - 1) - 1] \subseteq Json[m - 1]
      BY <2>0, <3>1, JsonLevels
    <3> QED BY <3>1, <3>2
  <2>3. CASE d \in Objects(Name, FieldDoc \cup ({"arr"} \X Seq(Json[m - 1])))
    <3>1. k \in Name /\ d[2][k] \in FieldDoc \cup ({"arr"} \X Seq(Json[m - 1])) \cup {Absent}
      BY <2>3 DEF Objects, Name
    <3>2. d[2][k] # Absent
      BY DEF Entries
    <3>3. d[2][k] \in FieldDoc => d[2][k] \in {"arr"} \X Seq(Scalar)
      BY DEF FieldDoc, Objects, Operand, Scalar, Null
    <3>4. Scalar \subseteq Json[m - 1]
      BY <2>1 DEF Operand
    <3> QED BY <3>1, <3>2, <3>3, <3>4
  <2> QED BY <2>2, <2>3, JsonDef
<1>3. n \in T
  <2> HIDE DEF T
  <2> QED BY <1>0, <1>1, <1>2, IntervalInduction
<1> QED BY <1>3

(* A parser step depends on what the lists below are parsed to.            *)
LEMMA ParseDef ==
    \A j \in Document : ParseCondition[j] = IF Refused(j) THEN ParseError
                                            ELSE ParseObject(ParseCondition, j[2])
<1> DEFINE Step(P, j) == IF Refused(j) THEN ParseError ELSE ParseObject(P, j[2])
           T == {n \in 0..(Depth + 2) : \E g : \A j \in Json[n] : g[j] = Step(g, j)}
<1>0. Depth \in Nat
  BY FilterAssumption
<1>1. ASSUME NEW j \in Json[0], NEW g, NEW h PROVE Step(g, j) = Step(h, j)
  <2>1. j[1] # "obj"
    BY JsonDef DEF Operand, Scalar, Null
  <2> QED BY <2>1 DEF Refused
<1>2. ASSUME NEW n \in 1..(Depth + 2), NEW j \in Json[n], NEW g, NEW h,
             \A x \in Json[n - 1] : g[x] = h[x]
      PROVE  Step(g, j) = Step(h, j)
  <2> SUFFICES ASSUME ~ Refused(j) PROVE ParseObject(g, j[2]) = ParseObject(h, j[2])
    OBVIOUS
  <2>1. \A k \in Lists : k \in Entries(j[2]) => j[2][k][2] \in Seq(Json[n - 1])
    BY Listed DEF Refused
  <2>2. \A k \in Lists : ParseList(g, j[2], k) = ParseList(h, j[2], k)
    BY <1>2, <2>1 DEF ParseList
  <2> QED BY <2>2 DEF ParseObject, Lists
<1> HIDE DEF Step
<1>3. 0 \in T
  <2> DEFINE g == [j \in Document |-> Step(0, j)]
  <2>0. 0 \in 0..(Depth + 2)
    BY <1>0
  <2>1. \A j \in Json[0] : g[j] = Step(0, j)
    BY <2>0, JsonLevels
  <2>2. \A j \in Json[0] : g[j] = Step(g, j)
    BY <1>1, <2>1
  <2> HIDE DEF g
  <2> QED BY <2>0, <2>2
<1>4. ASSUME NEW n \in 1..(Depth + 2), n - 1 \in T PROVE n \in T
  <2>1. PICK g : \A j \in Json[n - 1] : g[j] = Step(g, j)
    BY <1>4
  <2> DEFINE h == [j \in Document |-> Step(g, j)]
  <2>0. n \in 0..(Depth + 2) /\ n # 0
    BY <1>0
  <2>2. Json[n - 1] \subseteq Json[n] /\ Json[n] \subseteq Document
    BY <2>0, JsonLevels
  <2>3. \A j \in Json[n] : h[j] = Step(g, j)
    BY <2>2
  <2>4. \A j \in Json[n - 1] : h[j] = g[j]
    BY <2>1, <2>2, <2>3
  <2>5. \A j \in Json[n] : h[j] = Step(h, j)
    BY <1>2, <2>3, <2>4
  <2> HIDE DEF h
  <2> QED BY <2>0, <2>5
<1>5. Depth + 2 \in T
  <2> HIDE DEF T
  <2> QED BY <1>0, <1>3, <1>4, IntervalInduction
<1>6. PICK g : \A j \in Document : g[j] = Step(g, j)
  BY <1>5 DEF Document
<1> DEFINE f == [j \in Document |-> g[j]]
<1>7. \A j \in Document : Step(f, j) = Step(g, j)
  <2>1. Depth + 2 \in 1..(Depth + 2) /\ (Depth + 2) - 1 \in 0..(Depth + 2)
    BY <1>0
  <2>2. Json[(Depth + 2) - 1] \subseteq Document
    BY <2>1, JsonLevels
  <2>3. \A x \in Json[(Depth + 2) - 1] : f[x] = g[x]
    BY <2>2
  <2> HIDE DEF f
  <2> QED BY <1>2, <2>1, <2>3 DEF Document
<1>8. f = [j \in Document |-> Step(f, j)]
  BY <1>6, <1>7
<1>9. ParseCondition = [j \in Document |-> Step(ParseCondition, j)]
  <2> HIDE DEF f
  <2> QED BY <1>8 DEF ParseCondition, Step
<1> QED BY <1>9 DEF Step

(* A meaning depends on what the documents listed below mean.              *)
LEMMA MeansDef ==
    \A j \in Document : Means[j] =
        {m \in Metadata : j[1] = "obj" /\ \A k \in Entries(j[2]) :
            CASE k = "$and" -> \A x \in Elements(j[2][k]) : m \in Means[x]
              [] k = "$or"  -> \E x \in Elements(j[2][k]) : m \in Means[x]
              [] OTHER      -> FieldHolds(k, j[2][k], m)}
<1> DEFINE Step(P, j) == {m \in Metadata : j[1] = "obj" /\ \A k \in Entries(j[2]) :
                  CASE k = "$and" -> \A x \in Elements(j[2][k]) : m \in P[x]
                    [] k = "$or"  -> \E x \in Elements(j[2][k]) : m \in P[x]
                    [] OTHER      -> FieldHolds(k, j[2][k], m)}
           T == {n \in 0..(Depth + 2) : \E g : \A j \in Json[n] : g[j] = Step(g, j)}
<1>0. Depth \in Nat
  BY FilterAssumption
<1>1. ASSUME NEW j \in Json[0], NEW g, NEW h PROVE Step(g, j) = Step(h, j)
  <2>1. j[1] # "obj"
    BY JsonDef DEF Operand, Scalar, Null
  <2> QED BY <2>1
<1>2. ASSUME NEW n \in 1..(Depth + 2), NEW j \in Json[n], NEW g, NEW h,
             \A x \in Json[n - 1] : g[x] = h[x]
      PROVE  Step(g, j) = Step(h, j)
  <2>1. ASSUME j[1] = "obj", NEW k \in Lists \cap Entries(j[2]) PROVE Elements(j[2][k]) \subseteq Json[n - 1]
    BY <2>1, Listed DEF Elements, ToSet
  <2>2. ASSUME NEW m, j[1] = "obj", NEW k \in Lists \cap Entries(j[2])
        PROVE  \A x \in Elements(j[2][k]) : m \in g[x] <=> m \in h[x]
    BY <1>2, <2>1, <2>2
  <2> QED BY <2>2 DEF Lists
<1> HIDE DEF Step
<1>3. 0 \in T
  <2> DEFINE g == [j \in Document |-> Step(0, j)]
  <2>0. 0 \in 0..(Depth + 2)
    BY <1>0
  <2>1. \A j \in Json[0] : g[j] = Step(0, j)
    BY <2>0, JsonLevels
  <2>2. \A j \in Json[0] : g[j] = Step(g, j)
    BY <1>1, <2>1
  <2> HIDE DEF g
  <2> QED BY <2>0, <2>2
<1>4. ASSUME NEW n \in 1..(Depth + 2), n - 1 \in T PROVE n \in T
  <2>1. PICK g : \A j \in Json[n - 1] : g[j] = Step(g, j)
    BY <1>4
  <2> DEFINE h == [j \in Document |-> Step(g, j)]
  <2>0. n \in 0..(Depth + 2) /\ n # 0
    BY <1>0
  <2>2. Json[n - 1] \subseteq Json[n] /\ Json[n] \subseteq Document
    BY <2>0, JsonLevels
  <2>3. \A j \in Json[n] : h[j] = Step(g, j)
    BY <2>2
  <2>4. \A j \in Json[n - 1] : h[j] = g[j]
    BY <2>1, <2>2, <2>3
  <2>5. \A j \in Json[n] : h[j] = Step(h, j)
    BY <1>2, <2>3, <2>4
  <2> HIDE DEF h
  <2> QED BY <2>0, <2>5
<1>5. Depth + 2 \in T
  <2> HIDE DEF T
  <2> QED BY <1>0, <1>3, <1>4, IntervalInduction
<1>6. PICK g : \A j \in Document : g[j] = Step(g, j)
  BY <1>5 DEF Document
<1> DEFINE f == [j \in Document |-> g[j]]
<1>7. \A j \in Document : Step(f, j) = Step(g, j)
  <2>1. Depth + 2 \in 1..(Depth + 2) /\ (Depth + 2) - 1 \in 0..(Depth + 2)
    BY <1>0
  <2>2. Json[(Depth + 2) - 1] \subseteq Document
    BY <2>1, JsonLevels
  <2>3. \A x \in Json[(Depth + 2) - 1] : f[x] = g[x]
    BY <2>2
  <2> HIDE DEF f
  <2> QED BY <1>2, <2>1, <2>3 DEF Document
<1>8. f = [j \in Document |-> Step(f, j)]
  BY <1>6, <1>7
<1>9. Means = [j \in Document |-> Step(Means, j)]
  <2> HIDE DEF f
  <2> QED BY <1>8 DEF Means, Step
<1> QED BY <1>9 DEF Step

(* The children of a tree are a level below it.                            *)
LEMMA Children ==
    ASSUME NEW n \in 1..(Depth + 1), NEW c \in Tree[n], c \notin Tree[n - 1]
    PROVE  /\ c[1] \in {"and", "or"} /\ c = <<c[1], c[2]>>
           /\ c[2] \in Seq(Tree[n - 1]) /\ Len(c[2]) > 1
<1>1. c \in {"and", "or"} \X {s \in Seq(Tree[n - 1]) : Len(s) > 1}
  BY TreeDef
<1> QED BY <1>1

(* A tree is a comparison or joins a list of smaller trees.                *)
LEMMA LeafOrLists ==
    ASSUME NEW n \in 0..(Depth + 1), NEW c \in Tree[n]
    PROVE  /\ c[1] = "cmp" => c \in Leaf
           /\ c[1] # "cmp" => /\ n # 0 /\ c[1] \in {"and", "or"} /\ c = <<c[1], c[2]>>
                              /\ c[2] \in Seq(Tree[n - 1]) /\ Len(c[2]) > 1
<1> DEFINE T == {m \in 0..(Depth + 1) : \A d \in Tree[m] :
                   /\ d[1] = "cmp" => d \in Leaf
                   /\ d[1] # "cmp" => /\ m # 0 /\ d[1] \in {"and", "or"} /\ d = <<d[1], d[2]>>
                                      /\ d[2] \in Seq(Tree[m - 1]) /\ Len(d[2]) > 1}
<1>0. Depth \in Nat
  BY FilterAssumption
<1>1. 0 \in T
  BY <1>0, TreeDef DEF Leaf
<1>2. ASSUME NEW m \in 1..(Depth + 1), m - 1 \in T PROVE m \in T
  <2> SUFFICES ASSUME NEW d \in Tree[m]
               PROVE  /\ d[1] = "cmp" => d \in Leaf
                      /\ d[1] # "cmp" => /\ d[1] \in {"and", "or"} /\ d = <<d[1], d[2]>>
                                         /\ d[2] \in Seq(Tree[m - 1]) /\ Len(d[2]) > 1
    BY <1>0
  <2>1. CASE d \in Tree[m - 1]
    <3>1. m - 1 \in 0..(Depth + 1)
      BY <1>0
    <3>2. d[1] # "cmp" => Tree[(m - 1) - 1] \subseteq Tree[m - 1]
      BY <1>2, <2>1, <3>1, TreeLevels
    <3> QED BY <1>2, <2>1, <3>2
  <2>2. CASE d \notin Tree[m - 1]
    BY <2>2, Children
  <2> QED BY <2>1, <2>2
<1>3. n \in T
  <2> HIDE DEF T
  <2> QED BY <1>0, <1>1, <1>2, IntervalInduction
<1> QED BY <1>3

(* What is written depends on what the children are written as.            *)
LEMMA ValueDef ==
    \A c \in WhereCondition : ConditionToValue[c] =
        IF c[1] = "cmp" THEN Entry(Name, c[2].key, OpToValue(c[2]))
        ELSE Entry(Name, IF c[1] = "and" THEN "$and" ELSE "$or",
                   Arr([i \in DOMAIN c[2] |-> ConditionToValue[c[2][i]]]))
<1> DEFINE Step(P, c) == IF c[1] = "cmp" THEN Entry(Name, c[2].key, OpToValue(c[2]))
                         ELSE Entry(Name, IF c[1] = "and" THEN "$and" ELSE "$or",
                                    Arr([i \in DOMAIN c[2] |-> P[c[2][i]]]))
           T == {n \in 0..(Depth + 1) : \E g : \A j \in Tree[n] : g[j] = Step(g, j)}
<1>0. Depth \in Nat
  BY FilterAssumption
<1>1. ASSUME NEW j \in Tree[0], NEW g, NEW h PROVE Step(g, j) = Step(h, j)
  <2>1. j[1] = "cmp"
    BY TreeDef DEF Leaf
  <2> QED BY <2>1
<1>2. ASSUME NEW n \in 1..(Depth + 1), NEW j \in Tree[n], NEW g, NEW h,
             \A x \in Tree[n - 1] : g[x] = h[x]
      PROVE  Step(g, j) = Step(h, j)
  <2>1. CASE j[1] = "cmp"
    BY <2>1
  <2>2. CASE j[1] # "cmp"
    <3>0. n \in 0..(Depth + 1)
      BY <1>0
    <3>1. j[1] \in {"and", "or"} /\ j[2] \in Seq(Tree[n - 1]) /\ Len(j[2]) > 1
      BY <2>2, <3>0, LeafOrLists
    <3>2. \A i \in DOMAIN j[2] : g[j[2][i]] = h[j[2][i]]
      BY <1>2, <3>1
    <3>3. 1 \in DOMAIN j[2]
      BY <3>1
    <3> QED BY <2>2, <3>1, <3>2, <3>3
  <2> QED BY <2>1, <2>2
<1> HIDE DEF Step
<1>3. 0 \in T
  <2> DEFINE g == [j \in WhereCondition |-> Step(0, j)]
  <2>0. 0 \in 0..(Depth + 1)
    BY <1>0
  <2>1. \A j \in Tree[0] : g[j] = Step(0, j)
    BY <2>0, TreeLevels
  <2>2. \A j \in Tree[0] : g[j] = Step(g, j)
    BY <1>1, <2>1
  <2> HIDE DEF g
  <2> QED BY <2>0, <2>2
<1>4. ASSUME NEW n \in 1..(Depth + 1), n - 1 \in T PROVE n \in T
  <2>1. PICK g : \A j \in Tree[n - 1] : g[j] = Step(g, j)
    BY <1>4
  <2> DEFINE h == [j \in WhereCondition |-> Step(g, j)]
  <2>0. n \in 0..(Depth + 1) /\ n # 0
    BY <1>0
  <2>2. Tree[n - 1] \subseteq Tree[n] /\ Tree[n] \subseteq WhereCondition
    BY <2>0, TreeLevels
  <2>3. \A j \in Tree[n] : h[j] = Step(g, j)
    BY <2>2
  <2>4. \A j \in Tree[n - 1] : h[j] = g[j]
    BY <2>1, <2>2, <2>3
  <2>5. \A j \in Tree[n] : h[j] = Step(h, j)
    BY <1>2, <2>3, <2>4
  <2> HIDE DEF h
  <2> QED BY <2>0, <2>5
<1>5. Depth + 1 \in T
  <2> HIDE DEF T
  <2> QED BY <1>0, <1>3, <1>4, IntervalInduction
<1>6. PICK g : \A j \in WhereCondition : g[j] = Step(g, j)
  BY <1>5 DEF WhereCondition
<1> DEFINE f == [j \in WhereCondition |-> g[j]]
<1>7. \A j \in WhereCondition : Step(f, j) = Step(g, j)
  <2>1. Depth + 1 \in 1..(Depth + 1) /\ (Depth + 1) - 1 \in 0..(Depth + 1)
    BY <1>0
  <2>2. Tree[(Depth + 1) - 1] \subseteq WhereCondition
    BY <2>1, TreeLevels
  <2>3. \A x \in Tree[(Depth + 1) - 1] : f[x] = g[x]
    BY <2>2
  <2> HIDE DEF f
  <2> QED BY <1>2, <2>1, <2>3 DEF WhereCondition
<1>8. f = [j \in WhereCondition |-> Step(f, j)]
  BY <1>6, <1>7
<1>9. ConditionToValue = [j \in WhereCondition |-> Step(ConditionToValue, j)]
  <2> HIDE DEF f
  <2> QED BY <1>8 DEF ConditionToValue, Step
<1> QED BY <1>9 DEF Step

(* The value of a tree depends on those of its children.                   *)
LEMMA EvalDef ==
    \A c \in WhereCondition : EvalTree[c] =
        CASE c[1] = "cmp" -> EvalOp(Flat(c[2]))
          [] c[1] = "and" -> {o \in EvalTree[c[2][1]] : \A i \in DOMAIN c[2] : o \in EvalTree[c[2][i]]}
          [] c[1] = "or"  -> UNION {EvalTree[c[2][i]] : i \in DOMAIN c[2]}
<1> DEFINE Step(P, c) == CASE c[1] = "cmp" -> EvalOp(Flat(c[2]))
                           [] c[1] = "and" -> {o \in P[c[2][1]] : \A i \in DOMAIN c[2] : o \in P[c[2][i]]}
                           [] c[1] = "or"  -> UNION {P[c[2][i]] : i \in DOMAIN c[2]}
           T == {n \in 0..(Depth + 1) : \E g : \A j \in Tree[n] : g[j] = Step(g, j)}
<1>0. Depth \in Nat
  BY FilterAssumption
<1>1. ASSUME NEW j \in Tree[0], NEW g, NEW h PROVE Step(g, j) = Step(h, j)
  <2>1. j[1] = "cmp"
    BY TreeDef DEF Leaf
  <2> QED BY <2>1
<1>2. ASSUME NEW n \in 1..(Depth + 1), NEW j \in Tree[n], NEW g, NEW h,
             \A x \in Tree[n - 1] : g[x] = h[x]
      PROVE  Step(g, j) = Step(h, j)
  <2>1. CASE j[1] = "cmp"
    BY <2>1
  <2>2. CASE j[1] # "cmp"
    <3>0. n \in 0..(Depth + 1)
      BY <1>0
    <3>1. j[1] \in {"and", "or"} /\ j[2] \in Seq(Tree[n - 1]) /\ Len(j[2]) > 1
      BY <2>2, <3>0, LeafOrLists
    <3>2. \A i \in DOMAIN j[2] : g[j[2][i]] = h[j[2][i]]
      BY <1>2, <3>1
    <3>3. 1 \in DOMAIN j[2]
      BY <3>1
    <3> QED BY <2>2, <3>1, <3>2, <3>3
  <2> QED BY <2>1, <2>2
<1> HIDE DEF Step
<1>3. 0 \in T
  <2> DEFINE g == [j \in WhereCondition |-> Step(0, j)]
  <2>0. 0 \in 0..(Depth + 1)
    BY <1>0
  <2>1. \A j \in Tree[0] : g[j] = Step(0, j)
    BY <2>0, TreeLevels
  <2>2. \A j \in Tree[0] : g[j] = Step(g, j)
    BY <1>1, <2>1
  <2> HIDE DEF g
  <2> QED BY <2>0, <2>2
<1>4. ASSUME NEW n \in 1..(Depth + 1), n - 1 \in T PROVE n \in T
  <2>1. PICK g : \A j \in Tree[n - 1] : g[j] = Step(g, j)
    BY <1>4
  <2> DEFINE h == [j \in WhereCondition |-> Step(g, j)]
  <2>0. n \in 0..(Depth + 1) /\ n # 0
    BY <1>0
  <2>2. Tree[n - 1] \subseteq Tree[n] /\ Tree[n] \subseteq WhereCondition
    BY <2>0, TreeLevels
  <2>3. \A j \in Tree[n] : h[j] = Step(g, j)
    BY <2>2
  <2>4. \A j \in Tree[n - 1] : h[j] = g[j]
    BY <2>1, <2>2, <2>3
  <2>5. \A j \in Tree[n] : h[j] = Step(h, j)
    BY <1>2, <2>3, <2>4
  <2> HIDE DEF h
  <2> QED BY <2>0, <2>5
<1>5. Depth + 1 \in T
  <2> HIDE DEF T
  <2> QED BY <1>0, <1>3, <1>4, IntervalInduction
<1>6. PICK g : \A j \in WhereCondition : g[j] = Step(g, j)
  BY <1>5 DEF WhereCondition
<1> DEFINE f == [j \in WhereCondition |-> g[j]]
<1>7. \A j \in WhereCondition : Step(f, j) = Step(g, j)
  <2>1. Depth + 1 \in 1..(Depth + 1) /\ (Depth + 1) - 1 \in 0..(Depth + 1)
    BY <1>0
  <2>2. Tree[(Depth + 1) - 1] \subseteq WhereCondition
    BY <2>1, TreeLevels
  <2>3. \A x \in Tree[(Depth + 1) - 1] : f[x] = g[x]
    BY <2>2
  <2> HIDE DEF f
  <2> QED BY <1>2, <2>1, <2>3 DEF WhereCondition
<1>8. f = [j \in WhereCondition |-> Step(f, j)]
  BY <1>6, <1>7
<1>9. EvalTree = [j \in WhereCondition |-> Step(EvalTree, j)]
  <2> HIDE DEF f
  <2> QED BY <1>8 DEF EvalTree, Step
<1> QED BY <1>9 DEF Step

-----------------------------------------------------------------------------
(* What the parser makes of operators, fields and objects.                 *)

(* SetToSeq lists a finite set.                                            *)
LEMMA ListOfSet ==
    ASSUME NEW S, IsFiniteSet(S)
    PROVE  /\ SetToSeq(S) \in Seq(S) /\ ToSet(SetToSeq(S)) = S
           /\ DOMAIN SetToSeq(S) = 1..Cardinality(S) /\ Cardinality(S) \in Nat
           /\ Len(SetToSeq(S)) = Cardinality(S)
<1> DEFINE n == Cardinality(S)
           s == SetToSeq(S)
<1>1. n \in Nat /\ ExistsBijection(1..n, S)
  BY FS_CardinalityType
<1>2. PICK f : f \in Bijection(1..n, S)
  BY <1>1 DEF ExistsBijection
<1>3. f \in [1..n -> S] /\ IsInjective(f)
  BY <1>2 DEF Bijection, Injection
<1>4. s \in [1..n -> S] /\ IsInjective(s)
  BY <1>3 DEF SetToSeq
<1>5. s \in Injection(1..n, S)
  BY <1>4 DEF Injection
<1>6. IsFiniteSet(1..n) /\ Cardinality(1..n) = n
  BY <1>1, FS_Interval
<1>7. s \in Surjection(1..n, S)
  BY <1>5, <1>6, FS_Injection
<1>8. ToSet(s) = S
  BY <1>4, <1>7 DEF ToSet, Surjection
<1>9. s \in Seq(S) /\ Len(s) = n
  BY <1>1, <1>4
<1> QED BY <1>1, <1>4, <1>8, <1>9

(* A name of an operator has one operator.                                 *)
LEMMA OperatorNames ==
    ASSUME NEW op \in DOMAIN Dollar
    PROVE  /\ Dollar[op] \in OpName
           /\ \A o \in DOMAIN Dollar : Dollar[o] = Dollar[op] => o = op
           /\ (CHOOSE o \in DOMAIN Dollar : Dollar[o] = Dollar[op]) = op
<1>1. \A o \in DOMAIN Dollar : Dollar[o] = Dollar[op] => o = op
  BY DEF Dollar
<1> QED BY <1>1 DEF OpName

(* The operators that the index evaluates are the ones with a name.        *)
Operators == {"eq", "ne", "in", "nin"} \cup RangeOps

LEMMA OperatorsAre == DOMAIN Dollar = Operators
BY DEF Dollar, Operators, RangeOps

(* The comparison of a leaf is one that the index evaluates.               *)
LEMMA LeafComparison ==
    ASSUME NEW c \in Leaf
    PROVE  /\ c[1] = "cmp" /\ Flat(c[2]) = [key |-> c[2].key, op |-> c[2].op, args |-> ToSet(c[2].args)]
           /\ c[2].key \in Field /\ c[2].op \in Operators /\ ToSet(c[2].args) \subseteq Literal
<1>1. c[1] = "cmp" /\ c[2] \in [key : Field, op : Operators, args : Seq(Literal)]
  <2>1. \A v \in Literal : <<v>> \in Seq(Literal)
    OBVIOUS
  <2> QED BY <2>1 DEF Leaf, Operators
<1> DEFINE d == c[2]
<1>2. d \in [key : Field, op : Operators, args : Seq(Literal)]
  BY <1>1
<1> HIDE DEF d
<1>3. ToSet(d.args) \subseteq Literal
  BY <1>2 DEF ToSet
<1>4. Flat(d) = [key |-> d.key, op |-> d.op, args |-> ToSet(d.args)]
  BY <1>2 DEF Flat
<1> QED BY <1>1, <1>2, <1>3, <1>4 DEF d

(* Evaluated on the index, the condition selects the record.               *)
Selects(c, i) == offsets[i] \in EvalTree[c]

(* On a comparison that is WhereFilter::matches.                           *)
LEMMA LeafAgrees ==
    ASSUME IInv, ExactInts, NEW c \in Leaf, NEW i \in live
    PROVE  Selects(c, i) <=> Matches(Flat(c[2]), meta[i])
<1>1. c \in WhereCondition
  <2>1. Depth \in Nat /\ Depth + 1 \in 0..(Depth + 1)
    BY FilterAssumption
  <2> QED BY <2>1, TreeLevels
<1>2. EvalTree[c] = EvalOp(Flat(c[2]))
  BY <1>1, EvalDef, LeafComparison
<1> DEFINE d == Flat(c[2])
<1>3. d.key \in Key /\ d.op \in Operators /\ d.args \subseteq Literal
  <2>1. /\ d = [key |-> c[2].key, op |-> c[2].op, args |-> ToSet(c[2].args)]
        /\ c[2].key \in Field /\ c[2].op \in Operators /\ ToSet(c[2].args) \subseteq Literal
    BY LeafComparison
  <2> HIDE DEF d
  <2> QED BY <2>1 DEF Field
<1> HIDE DEF d
<1>4. offsets[i] \in EvalOp(d) <=> Matches(d, meta[i])
  BY <1>3, ComparisonAgrees DEF Operators
<1> QED BY <1>2, <1>4 DEF Selects, d

(* parse_op makes a comparison of it that means the same.                  *)
LEMMA ParseOpAgrees ==
    ASSUME NEW k \in Field, NEW name \in OpName, NEW x \in Operand,
           ParseOp(k, name, x) # ParseError
    PROVE  /\ ParseOp(k, name, x) \in Leaf
           /\ \A m \in Metadata :
                Matches(Flat(ParseOp(k, name, x)[2]), m) <=> OpHolds(k, name, x, m)
<1>1. PICK op \in DOMAIN Dollar : Dollar[op] = name
  BY DEF ParseOp
<1>2. /\ op \in Operators /\ (CHOOSE o \in DOMAIN Dollar : Dollar[o] = name) = op
      /\ \A o \in DOMAIN Dollar : Dollar[o] = name => o = op
  BY <1>1, OperatorNames, OperatorsAre
<1> DEFINE args == IF x[1] = "arr" THEN {y[2] : y \in ToSet(x[2])} ELSE {x[2]}
<1>3. \A m : OpHolds(k, name, x, m) <=> Matches([key |-> k, op |-> op, args |-> args], m)
  BY <1>1, <1>2 DEF OpHolds
<1> HIDE DEF args
<1>4. CASE op \in {"eq", "ne"} /\ IsVal(x)
  <2>1. ParseOp(k, name, x) = Compare(k, op, <<x[2]>>)
    BY <1>1, <1>2, <1>4 DEF ParseOp
  <2>2. x[2] \in Literal /\ args = {x[2]}
    BY <1>4 DEF Operand, Scalar, Null, IsVal, args
  <2>3. Compare(k, op, <<x[2]>>) \in Leaf
    BY <1>4, <2>2 DEF Compare, Leaf
  <2>4. Flat(Compare(k, op, <<x[2]>>)[2]) = [key |-> k, op |-> op, args |-> args]
    <3>1. ToSet(<<x[2]>>) = {x[2]}
      BY DEF ToSet
    <3> QED BY <2>2, <2>3, <3>1, LeafComparison DEF Compare
  <2> QED BY <1>3, <2>1, <2>3, <2>4
<1>5. CASE op \in RangeOps /\ IsNum(x)
  <2>1. ParseOp(k, name, x) = Compare(k, op, <<AsFloat(x[2])>>)
    BY <1>1, <1>2, <1>5 DEF ParseOp, RangeOps
  <2>2. x[2] \in Literal /\ Numeric(x[2]) /\ args = {x[2]}
    BY <1>5 DEF Operand, Scalar, Null, IsVal, IsNum, args
  <2>3. AsFloat(x[2]) \in Literal /\ AsFloat(x[2]).kind = "float" /\ AsF64(AsFloat(x[2])) = AsF64(x[2])
    <3>1. AsFloat(x[2]) \in Literal
      BY <2>2, LiteralType
    <3> QED BY <3>1 DEF AsFloat, AsF64
  <2>4. Compare(k, op, <<AsFloat(x[2])>>) \in Leaf
    BY <1>5, <2>3 DEF Compare, Leaf
  <2>5. Flat(Compare(k, op, <<AsFloat(x[2])>>)[2]) = [key |-> k, op |-> op, args |-> {AsFloat(x[2])}]
    <3>1. ToSet(<<AsFloat(x[2])>>) = {AsFloat(x[2])}
      BY DEF ToSet
    <3> QED BY <2>4, <3>1, LeafComparison DEF Compare
  <2>6. ASSUME NEW m \in Metadata
        PROVE  Matches([key |-> k, op |-> op, args |-> {AsFloat(x[2])}], m)
                 <=> Matches([key |-> k, op |-> op, args |-> {x[2]}], m)
    BY <1>5, <2>3 DEF Matches, RangeOps
  <2> QED BY <1>3, <2>1, <2>2, <2>4, <2>5, <2>6
<1>6. CASE op \in {"in", "nin"} /\ x[1] = "arr" /\ \A i \in DOMAIN x[2] : IsVal(x[2][i])
  <2> DEFINE s == [i \in DOMAIN x[2] |-> x[2][i][2]]
  <2>1. ParseOp(k, name, x) = Compare(k, op, s)
    BY <1>1, <1>2, <1>6 DEF ParseOp, RangeOps
  <2>2. x[2] \in Seq(Scalar)
    BY <1>6 DEF Operand, Scalar, Null
  <2>3. \A i \in DOMAIN x[2] : x[2][i][2] \in Literal
    BY <1>6, <2>2 DEF Scalar, Null, IsVal
  <2>4. s \in Seq(Literal) /\ DOMAIN s = DOMAIN x[2]
    BY <2>2, <2>3
  <2>5. ToSet(s) = args
    BY <1>6, <2>4 DEF ToSet, args
  <2> HIDE DEF s
  <2>6. Compare(k, op, s) \in Leaf
    BY <1>6, <2>4 DEF Compare, Leaf
  <2>7. Flat(Compare(k, op, s)[2]) = [key |-> k, op |-> op, args |-> args]
    BY <2>5, <2>6, LeafComparison DEF Compare
  <2> QED BY <1>3, <2>1, <2>6, <2>7
<1> QED
  BY <1>1, <1>2, <1>4, <1>5, <1>6 DEF ParseOp

(* normalize_list keeps the height of what it is given, or adds one, and   *)
(* selects what is selected by all.                                        *)
LEMMA NormalizeAgrees ==
    ASSUME NEW n \in 1..(Depth + 1), NEW conds \in Seq(Tree[n - 1] \cup {ParseError}),
           NormalizeList(conds) # ParseError
    PROVE  /\ NormalizeList(conds) \in Tree[n]
           /\ conds \in Seq(Tree[n - 1])
           /\ \A i \in Id : Selects(NormalizeList(conds), i) <=> \A x \in DOMAIN conds : Selects(conds[x], i)
<1>0. n \in 0..(Depth + 1) /\ n # 0
  BY FilterAssumption
<1>1. conds # <<>> /\ ParseError \notin ToSet(conds)
  BY DEF NormalizeList
<1>2. conds \in Seq(Tree[n - 1]) /\ Len(conds) \in Nat \ {0} /\ 1 \in DOMAIN conds
  BY <1>1 DEF ToSet
<1>3. CASE Len(conds) = 1
  <2>1. NormalizeList(conds) = conds[1]
    BY <1>1, <1>3 DEF NormalizeList
  <2>2. conds[1] \in Tree[n]
    BY <1>0, <1>2, TreeLevels
  <2>3. DOMAIN conds = {1}
    BY <1>2, <1>3
  <2> QED BY <1>2, <2>1, <2>2, <2>3
<1>4. CASE Len(conds) # 1
  <2>1. NormalizeList(conds) = <<"and", conds>>
    BY <1>1, <1>4 DEF NormalizeList
  <2>2. Len(conds) > 1
    <3>1. \A l \in Nat \ {0} : l # 1 => l > 1
      OBVIOUS
    <3> QED BY <1>2, <1>4, <3>1
  <2>3. <<"and", conds>> \in Tree[n]
    BY <1>0, <1>2, <2>2, TreeLevels
  <2>4. <<"and", conds>> \in WhereCondition
    BY <1>0, <2>3, TreeLevels
  <2>5. EvalTree[<<"and", conds>>] = {o \in EvalTree[conds[1]] : \A x \in DOMAIN conds : o \in EvalTree[conds[x]]}
    BY <2>4, EvalDef
  <2> QED BY <1>2, <2>1, <2>3, <2>5 DEF Selects
<1> QED BY <1>3, <1>4

(* A field selects the records that have what it asks for.                 *)
LEMMA ParseFieldAgrees ==
    ASSUME NEW k \in Field, NEW j, j \in FieldDoc \/ j[1] = "arr",
           ParseFieldCondition(k, j) # ParseError
    PROVE  /\ ParseFieldCondition(k, j) \in Tree[1]
           /\ IInv /\ ExactInts => \A i \in live :
                 Selects(ParseFieldCondition(k, j), i) <=> FieldHolds(k, j, meta[i])
<1>0. 1 \in 1..(Depth + 1) /\ 1 \in 0..(Depth + 1)
  BY FilterAssumption
<1>1. CASE j[1] # "obj"
  <2>1. IsVal(j) /\ ParseFieldCondition(k, j) = Compare(k, "eq", <<j[2]>>)
    BY <1>1 DEF ParseFieldCondition
  <2>2. j \in Operand
    BY <1>1, <2>1 DEF IsVal, FieldDoc, Objects
  <2>3. "$eq" = Dollar["eq"] /\ "eq" \in DOMAIN Dollar
    BY DEF Dollar
  <2>4. "$eq" \in OpName /\ ParseOp(k, "$eq", j) = Compare(k, "eq", <<j[2]>>)
    BY <2>1, <2>3, OperatorNames DEF ParseOp
  <2>5. Compare(k, "eq", <<j[2]>>) # ParseError
    BY DEF Compare, ParseError
  <2>6. /\ ParseOp(k, "$eq", j) \in Leaf
        /\ \A m \in Metadata : Matches(Flat(ParseOp(k, "$eq", j)[2]), m) <=> OpHolds(k, "$eq", j, m)
    BY <2>2, <2>4, <2>5, ParseOpAgrees
  <2>7. ParseFieldCondition(k, j) \in Tree[1]
    BY <1>0, <2>1, <2>4, <2>6, TreeLevels
  <2>8. ASSUME IInv, ExactInts, NEW i \in live
        PROVE  Selects(ParseFieldCondition(k, j), i) <=> FieldHolds(k, j, meta[i])
    <3>1. meta[i] \in Metadata
      BY <2>8 DEF IInv, TypeOK
    <3> QED BY <1>1, <2>1, <2>4, <2>6, <2>8, <3>1, LeafAgrees DEF FieldHolds
  <2> QED BY <2>7, <2>8
<1>2. CASE j[1] = "obj"
  <2> DEFINE names == Entries(j[2])
             ops == SetToSeq(names)
             conds == [i \in DOMAIN ops |-> ParseOp(k, ops[i], j[2][ops[i]])]
  <2>1. ParseFieldCondition(k, j) = NormalizeList(conds)
    BY <1>2 DEF ParseFieldCondition
  <2>2. j[2] \in [OpName -> Operand \cup {Absent}]
    BY <1>2 DEF FieldDoc, Objects, Operand, Scalar, Null
  <2>3. names \subseteq OpName /\ \A x \in names : j[2][x] \in Operand
    BY <2>2 DEF Entries
  <2>4. IsFiniteSet(names)
    <3>1. OpName \subseteq {"$eq", "$ne", "$gt", "$gte", "$lt", "$lte", "$in", "$nin", "$like"}
      BY DEF OpName, Dollar
    <3>2. IsFiniteSet({"$eq", "$ne", "$gt", "$gte", "$lt", "$lte", "$in", "$nin", "$like"})
      <4> DEFINE S == {"$eq", "$ne", "$gt", "$gte", "$lt", "$lte", "$in", "$nin", "$like"}
                 s == <<"$eq", "$ne", "$gt", "$gte", "$lt", "$lte", "$in", "$nin", "$like">>
      <4>1. s \in Surjection(1..9, S)
        <5>1. s \in [1..9 -> S]
          OBVIOUS
        <5>2. \A x \in S : \E y \in 1..9 : s[y] = x
          OBVIOUS
        <5> QED BY <5>1, <5>2 DEF Surjection
      <4>2. IsFiniteSet(1..9)
        <5>1. 1 \in Int /\ 9 \in Int
          OBVIOUS
        <5> QED BY <5>1, FS_Interval, Zenon
      <4> QED BY <4>1, <4>2, FS_Surjection
    <3> QED BY <2>3, <3>1, <3>2, FS_Subset
  <2>5. ops \in Seq(names) /\ ToSet(ops) = names
    BY <2>4, ListOfSet
  <2> HIDE DEF names, ops
  <2>6. DOMAIN conds = DOMAIN ops /\ \A x \in DOMAIN ops : conds[x] = ParseOp(k, ops[x], j[2][ops[x]])
    OBVIOUS
  <2>7. \A x \in DOMAIN ops : ops[x] \in names /\ conds[x] \in Leaf \cup {ParseError}
    BY <2>3, <2>5, <2>6, ParseOpAgrees
  <2>8. conds \in Seq(Leaf \cup {ParseError})
    BY <2>5, <2>7
  <2> HIDE DEF conds
  <2>9. Leaf = Tree[1 - 1]
    BY TreeDef
  <2>10. /\ NormalizeList(conds) \in Tree[1] /\ conds \in Seq(Leaf)
         /\ \A i \in Id : Selects(NormalizeList(conds), i) <=> \A x \in DOMAIN conds : Selects(conds[x], i)
    BY <1>0, <2>1, <2>8, <2>9, NormalizeAgrees
  <2>11. ASSUME IInv, ExactInts, NEW i \in live
         PROVE  Selects(NormalizeList(conds), i) <=> FieldHolds(k, j, meta[i])
    <3>1. meta[i] \in Metadata /\ i \in Id
      BY <2>11 DEF IInv, TypeOK
    <3>2. ASSUME NEW x \in DOMAIN ops
          PROVE  Selects(conds[x], i) <=> OpHolds(k, ops[x], j[2][ops[x]], meta[i])
      <4>1. conds[x] \in Leaf /\ conds[x] # ParseError
        BY <2>6, <2>10 DEF Leaf, ParseError
      <4>2. Selects(conds[x], i) <=> Matches(Flat(conds[x][2]), meta[i])
        BY <2>11, <4>1, LeafAgrees
      <4>3. ops[x] \in OpName /\ j[2][ops[x]] \in Operand
        BY <2>3, <2>7
      <4>4. Matches(Flat(conds[x][2]), meta[i]) <=> OpHolds(k, ops[x], j[2][ops[x]], meta[i])
        BY <2>6, <3>1, <4>1, <4>3, ParseOpAgrees
      <4> QED BY <4>2, <4>4
    <3>3. (\A x \in DOMAIN conds : Selects(conds[x], i))
            <=> \A name \in names : OpHolds(k, name, j[2][name], meta[i])
      BY <2>5, <2>6, <3>2 DEF ToSet
    <3> QED BY <1>2, <2>10, <3>1, <3>3 DEF FieldHolds, names
  <2> QED BY <2>1, <2>10, <2>11
<1> QED BY <1>1, <1>2

(* Entries of an object of level n: fields, and lists of documents.        *)
LEMMA ObjectEntries ==
    ASSUME NEW n \in 0..(Depth + 2), NEW j \in Json[n], j[1] = "obj"
    PROVE  /\ j[2] \in [Name -> FieldDoc \cup ({"arr"} \X Seq(Document)) \cup {Absent}]
           /\ Entries(j[2]) \subseteq Name
           /\ \A k \in Entries(j[2]) : j[2][k] \in FieldDoc \/ j[2][k][1] = "arr"
<1> DEFINE R == [Name -> FieldDoc \cup ({"arr"} \X Seq(Document)) \cup {Absent}]
           T == {m \in 0..(Depth + 2) : \A d \in Json[m] : d[1] = "obj" => d[2] \in R}
<1>0. Depth \in Nat
  BY FilterAssumption
<1>1. 0 \in T
  BY <1>0, JsonDef DEF Operand, Scalar, Null
<1>2. ASSUME NEW m \in 1..(Depth + 2), m - 1 \in T PROVE m \in T
  <2>0. m - 1 \in 0..(Depth + 2)
    BY <1>0
  <2>1. Json[m - 1] \subseteq Document
    BY <2>0, JsonLevels
  <2>2. Seq(Json[m - 1]) \subseteq Seq(Document)
    BY <2>1
  <2>3. ASSUME NEW d \in Objects(Name, FieldDoc \cup ({"arr"} \X Seq(Json[m - 1]))) PROVE d[2] \in R
    BY <2>2 DEF Objects
  <2> HIDE DEF R
  <2> QED BY <1>0, <1>2, <2>3, JsonDef
<1>3. n \in T
  <2> HIDE DEF T
  <2> QED BY <1>0, <1>1, <1>2, IntervalInduction
<1>4. j[2] \in R
  BY <1>3
<1> QED BY <1>4 DEF Entries

(* The list of the fields of an object.                                    *)
LEMMA FieldList ==
    ASSUME NEW j \in Document, j[1] = "obj"
    PROVE  /\ ParseFields(j[2]) \in Seq(Tree[1] \cup {ParseError})
           /\ ToSet(ParseFields(j[2])) = {ParseFieldCondition(k, j[2][k]) : k \in Entries(j[2]) \ Lists}
           /\ ParseFields(j[2]) = <<>> <=> Entries(j[2]) \subseteq Lists
<1> DEFINE o == j[2]
           names == Entries(o) \ Lists
           keys == SetToSeq(names)
           conds == [i \in DOMAIN keys |-> ParseFieldCondition(keys[i], o[keys[i]])]
<1>0. ParseFields(j[2]) = conds
  BY DEF ParseFields
<1>1. Depth + 2 \in 0..(Depth + 2) /\ Document = Json[Depth + 2]
  BY FilterAssumption DEF Document
<1>2. names \subseteq Field /\ \A k \in names : o[k] \in FieldDoc \/ o[k][1] = "arr"
  BY <1>1, ObjectEntries DEF Field, Name
<1>3. IsFiniteSet(names)
  <2>1. names \subseteq Key
    BY <1>2 DEF Field
  <2> QED BY <2>1, FilterAssumption, FS_Subset
<1>4. keys \in Seq(names) /\ ToSet(keys) = names
  BY <1>3, ListOfSet
<1> HIDE DEF keys
<1>5. DOMAIN conds = DOMAIN keys /\ \A x \in DOMAIN keys : conds[x] = ParseFieldCondition(keys[x], o[keys[x]])
  OBVIOUS
<1> HIDE DEF conds, names, o
<1>6. ASSUME NEW x \in DOMAIN keys PROVE conds[x] \in Tree[1] \cup {ParseError}
  <2>1. keys[x] \in names
    BY <1>4
  <2> QED BY <1>2, <1>5, <2>1, ParseFieldAgrees
<1>7. \E m \in Nat : DOMAIN keys = 1..m
  BY <1>4
<1>8. conds \in Seq(Tree[1] \cup {ParseError})
  <2>1. PICK m \in Nat : DOMAIN keys = 1..m
    BY <1>7
  <2>2. conds \in [1..m -> Tree[1] \cup {ParseError}]
    BY <1>5, <1>6, <2>1 DEF conds
  <2> QED BY <2>2
<1>9. ToSet(conds) = {ParseFieldCondition(k, o[k]) : k \in names}
  BY <1>4, <1>5 DEF ToSet
<1>10. conds = <<>> <=> names = {}
  <2>1. conds = <<>> <=> DOMAIN conds = {}
    BY <1>8
  <2> QED BY <1>4, <1>5, <2>1 DEF ToSet
<1> QED BY <1>0, <1>8, <1>9, <1>10 DEF names, o

-----------------------------------------------------------------------------
(* A condition selects what a document means, and its height is bounded.   *)

(* In a state with the invariant, the records that the document describes  *)
(* are the ones that the condition selects.                                *)
Agrees(c, j) == IInv /\ ExactInts => \A i \in live : Selects(c, i) <=> meta[i] \in Means[j]

(* What the induction over the nesting shows of the parser.                *)
ParsedWell(n, j) ==
    LET c == ParseCondition[j] IN c # ParseError => c \in Tree[n + 1] /\ Agrees(c, j)

(* The conditions of fields fit on every level above them.                 *)
LEMMA TreeOfFields == \A n \in 1..(Depth + 1) : Tree[1] \subseteq Tree[n]
<1> DEFINE T == {n \in 0..(Depth + 1) : n = 0 \/ Tree[1] \subseteq Tree[n]}
<1>0. Depth \in Nat
  BY FilterAssumption
<1>1. 0 \in T
  BY <1>0
<1>2. ASSUME NEW n \in 1..(Depth + 1), n - 1 \in T PROVE n \in T
  <2>1. n \in 0..(Depth + 1) /\ n # 0
    BY <1>0
  <2>2. Tree[n - 1] \subseteq Tree[n]
    BY <2>1, TreeLevels
  <2>3. n - 1 = 0 => n = 1
    BY <1>0
  <2> QED BY <1>2, <2>1, <2>2, <2>3
<1>3. \A n \in 0..(Depth + 1) : n \in T
  <2> HIDE DEF T
  <2> QED BY <1>0, <1>1, <1>2, IntervalInduction
<1> QED BY <1>0, <1>3

(* A list under $and or $or.                                               *)
LEMMA ListAgrees ==
    ASSUME NEW n \in 1..Depth, NEW j \in Json[n], ~ Refused(j), NEW k \in Lists,
           \A y \in Json[n - 1] : ParsedWell(n - 1, y)
    PROVE  LET conds == ParseList(ParseCondition, j[2], k)
           IN  /\ conds \in Seq(Tree[n] \cup {ParseError})
               /\ k \notin Entries(j[2]) => conds = <<>>
               /\ k \in Entries(j[2]) /\ conds \in Seq(Tree[n]) /\ IInv /\ ExactInts =>
                    \A i \in live :
                      /\ (\A x \in DOMAIN conds : Selects(conds[x], i))
                           <=> \A y \in Elements(j[2][k]) : meta[i] \in Means[y]
                      /\ (\E x \in DOMAIN conds : Selects(conds[x], i))
                           <=> \E y \in Elements(j[2][k]) : meta[i] \in Means[y]
<1> DEFINE conds == ParseList(ParseCondition, j[2], k)
           s == j[2][k][2]
<1>0. Depth \in Nat /\ n \in 1..(Depth + 2) /\ (n - 1) + 1 = n
  BY FilterAssumption
<1>1. CASE k \notin Entries(j[2])
  <2>1. conds = <<>>
    BY <1>1 DEF ParseList
  <2> HIDE DEF conds
  <2>2. conds \in Seq(Tree[n] \cup {ParseError})
    BY <2>1
  <2> QED BY <1>1, <2>1, <2>2 DEF conds
<1>2. CASE k \in Entries(j[2])
  <2>1. j[2][k][1] = "arr" /\ s \in Seq(Json[n - 1])
    BY <1>0, <1>2, Listed DEF Refused
  <2>2. Elements(j[2][k]) = ToSet(s)
    BY <2>1 DEF Elements
  <2>3. conds = [x \in DOMAIN s |-> ParseCondition[s[x]]]
    BY <1>2 DEF ParseList
  <2> HIDE DEF conds, s
  <2>4. \A x \in DOMAIN s : s[x] \in Json[n - 1] /\ ParsedWell(n - 1, s[x])
    BY <2>1
  <2>5. \A x \in DOMAIN s : conds[x] \in Tree[n] \cup {ParseError}
    BY <1>0, <2>3, <2>4 DEF ParsedWell
  <2>6. conds \in Seq(Tree[n] \cup {ParseError}) /\ DOMAIN conds = DOMAIN s
    <3>1. PICK m \in Nat : DOMAIN s = 1..m
      BY <2>1
    <3>2. conds \in [1..m -> Tree[n] \cup {ParseError}]
      BY <2>3, <2>5, <3>1
    <3> QED BY <2>3, <3>2
  <2>7. ASSUME conds \in Seq(Tree[n]), IInv, ExactInts, NEW i \in live, NEW x \in DOMAIN s
        PROVE  Selects(conds[x], i) <=> meta[i] \in Means[s[x]]
    <3>1. conds[x] \in Tree[n] /\ conds[x] = ParseCondition[s[x]]
      BY <2>3, <2>6, <2>7
    <3>2. conds[x] # ParseError
      <4>1. n \in 0..(Depth + 1)
        BY <1>0
      <4> QED BY <3>1, <4>1, LeafOrLists DEF Leaf, ParseError
    <3> QED BY <2>4, <2>7, <3>1, <3>2 DEF ParsedWell, Agrees
  <2>8. ASSUME conds \in Seq(Tree[n]), IInv, ExactInts, NEW i \in live
        PROVE  /\ (\A x \in DOMAIN conds : Selects(conds[x], i))
                    <=> \A y \in Elements(j[2][k]) : meta[i] \in Means[y]
               /\ (\E x \in DOMAIN conds : Selects(conds[x], i))
                    <=> \E y \in Elements(j[2][k]) : meta[i] \in Means[y]
    BY <2>2, <2>6, <2>7, <2>8 DEF ToSet
  <2> QED BY <1>2, <2>6, <2>8 DEF conds
<1> QED BY <1>1, <1>2

(* The fields of an object.                                                *)
LEMMA FieldsAgree ==
    ASSUME NEW j \in Document, j[1] = "obj", ParseFields(j[2]) \in Seq(Tree[1]),
           IInv, ExactInts, NEW i \in live
    PROVE  (\A x \in DOMAIN ParseFields(j[2]) : Selects(ParseFields(j[2])[x], i))
              <=> \A k \in Entries(j[2]) \ Lists : FieldHolds(k, j[2][k], meta[i])
<1> DEFINE conds == ParseFields(j[2])
           o == j[2]
           names == Entries(o) \ Lists
<1>1. Depth + 2 \in 0..(Depth + 2) /\ Document = Json[Depth + 2] /\ 1 \in 0..(Depth + 1)
  BY FilterAssumption DEF Document
<1>2. names \subseteq Field /\ \A k \in names : o[k] \in FieldDoc \/ o[k][1] = "arr"
  BY <1>1, ObjectEntries DEF Field, Name
<1>3. ToSet(conds) = {ParseFieldCondition(k, o[k]) : k \in names} /\ ToSet(conds) \subseteq Tree[1]
  <2>1. ToSet(conds) = {ParseFieldCondition(k, o[k]) : k \in names}
    BY FieldList
  <2> HIDE DEF conds
  <2>2. conds \in Seq(Tree[1])
    BY DEF conds
  <2> QED BY <2>1, <2>2 DEF ToSet
<1>4. ASSUME NEW k \in names PROVE Selects(ParseFieldCondition(k, o[k]), i) <=> FieldHolds(k, o[k], meta[i])
  <2>1. ParseFieldCondition(k, o[k]) \in Tree[1]
    BY <1>3
  <2>2. ParseFieldCondition(k, o[k]) # ParseError
    BY <1>1, <2>1, LeafOrLists DEF Leaf, ParseError
  <2> QED BY <1>2, <2>2, ParseFieldAgrees
<1> HIDE DEF conds, names, o
<1>5. (\A x \in DOMAIN conds : Selects(conds[x], i)) <=> \A c \in ToSet(conds) : Selects(c, i)
  BY DEF ToSet
<1>6. (\A c \in ToSet(conds) : Selects(c, i)) <=> \A k \in names : FieldHolds(k, o[k], meta[i])
  BY <1>3, <1>4
<1> QED BY <1>5, <1>6 DEF conds, names, o

(* An object whose lists are parsed well is parsed well.                   *)
LEMMA ObjectAgrees ==
    ASSUME NEW n \in 1..Depth, NEW j \in Json[n], \A y \in Json[n - 1] : ParsedWell(n - 1, y),
           ParseCondition[j] # ParseError
    PROVE  ParseCondition[j] \in Tree[n + 1] /\ Agrees(ParseCondition[j], j)
<1> DEFINE o == j[2]
           c == ParseCondition[j]
           or == ParseList(ParseCondition, o, "$or")
           and == ParseList(ParseCondition, o, "$and")
           fields == ParseFields(o)
<1>0. /\ Depth \in Nat /\ n \in 1..(Depth + 1) /\ n + 1 \in 1..(Depth + 1) /\ n + 1 \in 0..(Depth + 1)
      /\ n \in 0..(Depth + 2) /\ n \in 0..(Depth + 1) /\ (n + 1) - 1 = n /\ n + 1 # 0
  BY FilterAssumption
<1>1. j \in Document
  BY <1>0, JsonLevels
<1>2. ~ Refused(j) /\ c = ParseObject(ParseCondition, o)
  BY <1>1, ParseDef
<1>3. j[1] = "obj"
  BY <1>2 DEF Refused
<1>4. fields \in Seq(Tree[n] \cup {ParseError})
  <2>1. fields \in Seq(Tree[1] \cup {ParseError})
    BY <1>1, <1>3, FieldList
  <2>2. Tree[1] \subseteq Tree[n]
    BY <1>0, TreeOfFields
  <2> HIDE DEF fields
  <2> QED BY <2>1, <2>2
<1>5. \A m \in Metadata : m \in Means[j] <=>
        \A k \in Entries(o) : CASE k = "$and" -> \A x \in Elements(o[k]) : m \in Means[x]
                                [] k = "$or"  -> \E x \in Elements(o[k]) : m \in Means[x]
                                [] OTHER      -> FieldHolds(k, o[k], m)
  BY <1>1, <1>3, MeansDef
<1>6. IInv => \A i \in live : i \in Id /\ meta[i] \in Metadata
  BY DEF IInv, TypeOK
<1>7. "$or" \in Lists /\ "$and" \in Lists
  BY DEF Lists
<1>8. /\ or \in Seq(Tree[n] \cup {ParseError}) /\ and \in Seq(Tree[n] \cup {ParseError})
      /\ "$or" \notin Entries(o) => or = <<>>
      /\ "$and" \notin Entries(o) => and = <<>>
  BY <1>2, <1>7, ListAgrees
<1>9. CASE "$or" \in Entries(o)
  <2>1. Entries(o) = {"$or"}
    BY <1>2, <1>9 DEF Refused, Lists
  <2>2. and = <<>> /\ fields = <<>>
    BY <1>1, <1>3, <1>8, <2>1, FieldList DEF Lists
  <2>3. \A m \in Metadata : m \in Means[j] <=> \E x \in Elements(o["$or"]) : m \in Means[x]
    BY <1>5, <2>1
  <2>4. ASSUME or \in Seq(Tree[n]), IInv, ExactInts, NEW i \in live
        PROVE  (\E x \in DOMAIN or : Selects(or[x], i)) <=> meta[i] \in Means[j]
    BY <1>2, <1>6, <1>7, <1>9, <2>3, <2>4, ListAgrees
  <2>5. CASE Len(or) > 1 /\ ParseError \notin ToSet(or)
    <3>1. c = <<"or", or>>
      BY <1>2, <2>5 DEF ParseObject
    <3> HIDE DEF or, c
    <3>2. or \in Seq(Tree[n])
      BY <1>8, <2>5 DEF ToSet
    <3>3. c \in Tree[n + 1]
      <4>1. <<"or", or>> \in {"and", "or"} \X {s \in Seq(Tree[n]) : Len(s) > 1}
        BY <2>5, <3>2
      <4> QED BY <1>0, <3>1, <4>1, TreeLevels
    <3>4. c \in WhereCondition
      BY <1>0, <3>3, TreeLevels
    <3>5. EvalTree[c] = UNION {EvalTree[or[x]] : x \in DOMAIN or}
      <4>1. c[1] = "or" /\ c[2] = or
        BY <3>1
      <4> QED BY <3>4, <4>1, EvalDef
    <3>6. \A i \in Id : Selects(c, i) <=> \E x \in DOMAIN or : Selects(or[x], i)
      BY <3>5 DEF Selects
    <3>7. Agrees(c, j)
      BY <1>6, <2>4, <3>2, <3>6 DEF Agrees
    <3> QED BY <3>3, <3>7 DEF c
  <2>6. CASE ~ (Len(or) > 1 /\ ParseError \notin ToSet(or))
    <3>1. c = NormalizeList(or \o and \o fields)
      BY <1>2, <2>6 DEF ParseObject
    <3> HIDE DEF or, and, fields, c
    <3>2. or \o and \o fields = or
      BY <1>8, <2>2
    <3>3. /\ c \in Tree[n + 1] /\ or \in Seq(Tree[n])
          /\ \A i \in Id : Selects(c, i) <=> \A x \in DOMAIN or : Selects(or[x], i)
      <4>1. c # ParseError
        BY DEF c
      <4> QED BY <1>0, <1>8, <3>1, <3>2, <4>1, NormalizeAgrees
    <3>4. or # <<>> /\ ParseError \notin ToSet(or)
      BY <3>1, <3>2 DEF NormalizeList, c
    <3>5. DOMAIN or = {1}
      <4>1. Len(or) \in Nat /\ Len(or) # 0 /\ DOMAIN or = 1..Len(or)
        BY <1>8, <3>4
      <4>2. ~ (Len(or) > 1)
        BY <2>6, <3>4
      <4>3. \A l \in Nat : l # 0 /\ ~ (l > 1) => l = 1
        OBVIOUS
      <4>4. Len(or) = 1
        BY <4>1, <4>2, <4>3
      <4>5. 1..1 = {1}
        OBVIOUS
      <4> QED BY <4>1, <4>4, <4>5
    <3>6. Agrees(c, j)
      BY <1>6, <2>4, <3>3, <3>5 DEF Agrees
    <3> QED BY <3>3, <3>6 DEF c
  <2> QED BY <2>5, <2>6
<1>10. CASE "$or" \notin Entries(o)
  <2>1. or = <<>>
    BY <1>8, <1>10
  <2>2. c = NormalizeList(or \o and \o fields)
    <3>1. Len(or) = 0 /\ ~ (0 > 1)
      BY <2>1
    <3> QED BY <1>2, <3>1 DEF ParseObject
  <2> DEFINE conds == and \o fields
  <2>3. /\ \A i \in Id : meta[i] \in Metadata => (meta[i] \in Means[j] <=>
             /\ "$and" \in Entries(o) => \A y \in Elements(o["$and"]) : meta[i] \in Means[y]
             /\ \A k \in Entries(o) \ Lists : FieldHolds(k, o[k], meta[i]))
    BY <1>5, <1>10 DEF Lists
  <2>4. ASSUME and \in Seq(Tree[n]), IInv, ExactInts, NEW i \in live
        PROVE  (\A x \in DOMAIN and : Selects(and[x], i)) <=>
                  ("$and" \in Entries(o) => \A y \in Elements(o["$and"]) : meta[i] \in Means[y])
    <3>1. CASE "$and" \in Entries(o)
      BY <1>2, <1>7, <2>4, <3>1, ListAgrees
    <3>2. CASE "$and" \notin Entries(o)
      <4>1. DOMAIN and = {}
        BY <1>8, <3>2
      <4> QED BY <3>2, <4>1
    <3> QED BY <3>1, <3>2
  <2>5. ASSUME fields \in Seq(Tree[n]), IInv, ExactInts, NEW i \in live
        PROVE  (\A x \in DOMAIN fields : Selects(fields[x], i)) <=>
                  \A k \in Entries(o) \ Lists : FieldHolds(k, o[k], meta[i])
    <3>1. ParseError \notin Tree[n]
      BY <1>0, LeafOrLists DEF Leaf, ParseError
    <3>2. fields \in Seq(Tree[1] \cup {ParseError})
      BY <1>1, <1>3, FieldList
    <3>3. fields \in Seq(Tree[1])
      <4> HIDE DEF fields
      <4> QED BY <2>5, <3>1, <3>2
    <3> QED BY <1>1, <1>3, <2>5, <3>3, FieldsAgree
  <2> HIDE DEF or, and, fields, c, o
  <2>6. or \o and \o fields = conds /\ conds \in Seq(Tree[n] \cup {ParseError})
    BY <1>4, <1>8, <2>1
  <2>7. /\ c \in Tree[n + 1] /\ conds \in Seq(Tree[n])
        /\ \A i \in Id : Selects(c, i) <=> \A x \in DOMAIN conds : Selects(conds[x], i)
    <3>1. c # ParseError
      BY DEF c
    <3> HIDE DEF conds
    <3> QED BY <1>0, <2>2, <2>6, <3>1, NormalizeAgrees
  <2>8. and \in Seq(Tree[n]) /\ fields \in Seq(Tree[n])
    <3>1. \A x \in 1..Len(and) : and[x] = conds[x] /\ x \in 1..Len(conds)
      BY <1>4, <1>8
    <3>2. \A x \in 1..Len(fields) : fields[x] = conds[Len(and) + x] /\ Len(and) + x \in 1..Len(conds)
      BY <1>4, <1>8
    <3>3. \A x \in 1..Len(conds) : conds[x] \in Tree[n]
      BY <2>7
    <3> HIDE DEF conds
    <3>4. /\ Len(and) \in Nat /\ DOMAIN and = 1..Len(and) /\ and = [x \in 1..Len(and) |-> and[x]]
          /\ Len(fields) \in Nat /\ DOMAIN fields = 1..Len(fields)
          /\ fields = [x \in 1..Len(fields) |-> fields[x]]
      BY <1>4, <1>8
    <3>5. and \in [1..Len(and) -> Tree[n]] /\ fields \in [1..Len(fields) -> Tree[n]]
      BY <3>1, <3>2, <3>3, <3>4
    <3> QED BY <3>4, <3>5
  <2>9. ASSUME NEW i \in Id
        PROVE  (\A x \in DOMAIN conds : Selects(conds[x], i)) <=>
                  /\ \A x \in DOMAIN and : Selects(and[x], i)
                  /\ \A x \in DOMAIN fields : Selects(fields[x], i)
    <3>1. \A x \in DOMAIN and : x \in DOMAIN conds /\ conds[x] = and[x]
      BY <2>8
    <3>2. \A x \in DOMAIN fields : Len(and) + x \in DOMAIN conds /\ conds[Len(and) + x] = fields[x]
      BY <2>8
    <3>3. \A x \in DOMAIN conds : x \in DOMAIN and \/ (x - Len(and) \in DOMAIN fields /\ conds[x] = fields[x - Len(and)])
      BY <2>8
    <3> HIDE DEF conds
    <3> QED BY <3>1, <3>2, <3>3
  <2>10. Agrees(c, j)
    BY <1>6, <2>3, <2>4, <2>5, <2>7, <2>8, <2>9 DEF Agrees
  <2> QED BY <2>7, <2>10 DEF c
<1> QED BY <1>9, <1>10

(* Every document that is accepted is parsed into what it means.           *)
LEMMA ParseAgrees == \A n \in 0..Depth : \A j \in Json[n] : ParsedWell(n, j)
<1> DEFINE T == {n \in 0..Depth : \A j \in Json[n] : ParsedWell(n, j)}
<1>0. Depth \in Nat
  BY FilterAssumption
<1>1. 0 \in T
  <2>1. ASSUME NEW j \in Json[0] PROVE ParseCondition[j] = ParseError
    <3>1. j[1] # "obj"
      BY <2>1, JsonDef DEF Operand, Scalar, Null
    <3>2. 0 \in 0..(Depth + 2)
      BY <1>0
    <3>3. j \in Document
      BY <3>2, JsonLevels
    <3> QED BY <3>1, <3>3, ParseDef DEF Refused
  <2> QED BY <1>0, <2>1 DEF ParsedWell
<1>2. ASSUME NEW n \in 1..Depth, n - 1 \in T PROVE n \in T
  BY <1>0, <1>2, ObjectAgrees DEF ParsedWell
<1>3. \A n \in 0..Depth : n \in T
  <2> HIDE DEF T
  <2> QED BY <1>0, <1>1, <1>2, IntervalInduction
<1> QED BY <1>3

(* In each state that satisfies IInv.                                      *)
LEMMA IInvSelects == IInv => SelectsWhatItMeans
<1> SUFFICES ASSUME IInv, ExactInts, NEW d \in Accepted
             PROVE  Candidates(EvalTree[Parsed[d]]) = {i \in live : meta[i] \in Means[d]}
  BY DEF SelectsWhatItMeans
<1>1. Depth \in 0..Depth /\ d \in Json[Depth] /\ Parsed[d] = ParseCondition[d] /\ ParseCondition[d] # ParseError
  BY FilterAssumption DEF Accepted, Parsed
<1>2. \A i \in live : offsets[i] \in EvalTree[Parsed[d]] <=> meta[i] \in Means[d]
  BY <1>1, ParseAgrees DEF ParsedWell, Agrees, Selects
<1>3. \A i \in live : \A o : <<o, i>> \in id_by_offset <=> o = offsets[i]
  BY DEF IInv, OffsetInv
<1> QED BY <1>2, <1>3 DEF Candidates

-----------------------------------------------------------------------------
(* Written back and parsed again, a condition is the same.                 *)

(* An object with one entry has that entry and no other.                   *)
LEMMA OneEntry ==
    ASSUME NEW N, NEW k \in N, NEW v, v # Absent
    PROVE  /\ Entry(N, k, v)[1] = "obj" /\ Entry(N, k, v)[2][k] = v
           /\ Entries(Entry(N, k, v)[2]) = {k}
           /\ \A S : v \in S => Entry(N, k, v) \in Objects(N, S)
BY DEF Entry, Entries, Obj, Objects

(* One entry is listed as it is.                                           *)
LEMMA ListOfOne ==
    ASSUME NEW x
    PROVE  SetToSeq({x}) = <<x>>
<1>1. IsFiniteSet({x}) /\ Cardinality({x}) = 1
  BY FS_Singleton
<1> DEFINE s == SetToSeq({x})
<1>2. s \in Seq({x}) /\ Len(s) = 1
  BY <1>1, ListOfSet
<1> HIDE DEF s
<1>3. s[1] = x
  BY <1>2
<1> QED BY <1>2, <1>3 DEF s

(* A list of one that is no error is its element.                          *)
LEMMA NormalizeOne ==
    ASSUME NEW c, c # ParseError
    PROVE  NormalizeList(<<c>>) = c
<1>1. Len(<<c>>) = 1 /\ <<c>> # <<>> /\ <<c>>[1] = c /\ ToSet(<<c>>) = {c}
  BY DEF ToSet
<1> QED BY <1>1 DEF NormalizeList

(* What op_to_value writes is read as the comparison it was.               *)
LEMMA OpWrittenBack ==
    ASSUME NEW c \in Leaf
    PROVE  LET d == c[2]
               v == IF d.op \in {"in", "nin"} THEN Arr([i \in DOMAIN d.args |-> Val(d.args[i])])
                    ELSE Val(d.args[1])
           IN  /\ OpToValue(d) = Entry(OpName, Dollar[d.op], v)
               /\ v \in Operand /\ v # Absent /\ Dollar[d.op] \in OpName
               /\ ParseOp(d.key, Dollar[d.op], v) = c
<1> DEFINE d == c[2]
           v == IF d.op \in {"in", "nin"} THEN Arr([i \in DOMAIN d.args |-> Val(d.args[i])])
                ELSE Val(d.args[1])
<1>1. OpToValue(d) = Entry(OpName, Dollar[d.op], v)
  BY DEF OpToValue
<1>2. /\ d.op \in Operators /\ d.op \in DOMAIN Dollar
      /\ \A x \in Literal : <<"val", x>> \in Scalar
  BY LeafComparison, OperatorsAre DEF Scalar
<1>3. /\ Dollar[d.op] \in OpName
      /\ (CHOOSE o \in DOMAIN Dollar : Dollar[o] = Dollar[d.op]) = d.op
  BY <1>2, OperatorNames
<1>4. c = Compare(d.key, d.op, d.args)
  BY DEF Leaf, Compare
<1>5. CASE d.op \in {"eq", "ne"}
  <2>1. PICK x \in Literal : d.args = <<x>>
    BY <1>5 DEF Leaf, RangeOps
  <2>2. v = <<"val", x>>
    BY <1>5, <2>1 DEF Val
  <2> HIDE DEF v
  <2>3. v \in Operand /\ v # Absent
    BY <1>2, <2>2 DEF Operand, Absent
  <2>4. ParseOp(d.key, Dollar[d.op], v) = Compare(d.key, d.op, <<x>>)
    BY <1>2, <1>3, <1>5, <2>2 DEF ParseOp, IsVal
  <2> QED BY <1>1, <1>3, <1>4, <2>1, <2>3, <2>4 DEF v
<1>6. CASE d.op \in RangeOps
  <2>1. PICK x \in Literal : x.kind = "float" /\ d.args = <<x>>
    BY <1>6 DEF Leaf, RangeOps
  <2>2. v = <<"val", x>>
    BY <1>6, <2>1 DEF Val, RangeOps
  <2> HIDE DEF v
  <2>3. v \in Operand /\ v # Absent
    BY <1>2, <2>2 DEF Operand, Absent
  <2>4. AsFloat(x) = x /\ Numeric(x)
    <3>1. x \in [kind : Kinds, n : Nat]
      BY LiteralType
    <3> QED BY <2>1, <3>1 DEF AsFloat, AsF64, Numeric
  <2>5. ParseOp(d.key, Dollar[d.op], v) = Compare(d.key, d.op, <<x>>)
    BY <1>2, <1>3, <1>6, <2>2, <2>4 DEF ParseOp, IsVal, IsNum, RangeOps
  <2> QED BY <1>1, <1>3, <1>4, <2>1, <2>3, <2>5 DEF v
<1>7. CASE d.op \in {"in", "nin"}
  <2>1. d.args \in Seq(Literal)
    BY <1>7 DEF Leaf, RangeOps
  <2> DEFINE s == [i \in DOMAIN d.args |-> <<"val", d.args[i]>>]
  <2>2. v = <<"arr", s>>
    BY <1>7 DEF Arr, Val
  <2>3. s \in Seq(Scalar) /\ DOMAIN s = DOMAIN d.args
    <3>1. \A i \in DOMAIN d.args : <<"val", d.args[i]>> \in Scalar
      BY <1>2, <2>1
    <3>2. PICK m \in Nat : DOMAIN d.args = 1..m
      BY <2>1
    <3>3. s \in [1..m -> Scalar]
      BY <3>1, <3>2
    <3> HIDE DEF s
    <3> QED BY <3>2, <3>3
  <2>4. \A i \in DOMAIN d.args : s[i] = <<"val", d.args[i]>>
    OBVIOUS
  <2> HIDE DEF v, s
  <2>5. v \in Operand /\ v # Absent
    BY <2>2, <2>3 DEF Operand, Absent
  <2>6. \A i \in DOMAIN s : IsVal(s[i])
    BY <2>3, <2>4 DEF IsVal
  <2>7. [i \in DOMAIN s |-> s[i][2]] = d.args
    BY <2>1, <2>3, <2>4
  <2>8. ParseOp(d.key, Dollar[d.op], v) = Compare(d.key, d.op, [i \in DOMAIN s |-> s[i][2]])
    BY <1>2, <1>3, <1>7, <2>2, <2>6 DEF ParseOp, RangeOps
  <2> QED BY <1>1, <1>3, <1>4, <2>5, <2>7, <2>8 DEF v
<1> QED BY <1>2, <1>5, <1>6, <1>7 DEF Operators

(* A comparison is written as a field with one operator, and read back.    *)
LEMMA LeafWrittenBack ==
    ASSUME NEW c \in Leaf
    PROVE  ConditionToValue[c] \in Json[1] /\ ParseCondition[ConditionToValue[c]] = c
<1> DEFINE k == c[2].key
           j == ConditionToValue[c]
           v == OpToValue(c[2])
<1>1. /\ Depth \in Nat /\ 1 \in 0..(Depth + 2) /\ 1 # 0 /\ Depth + 1 \in 0..(Depth + 1)
  BY FilterAssumption
<1>2. c \in WhereCondition
  BY <1>1, TreeLevels
<1>3. j = Entry(Name, k, v)
  BY <1>2, ValueDef, LeafComparison
<1>4. k \in Name /\ k \notin Lists /\ k \in Field
  BY LeafComparison DEF Field, Name
<1>5. PICK name \in OpName, w \in Operand :
        v = Entry(OpName, name, w) /\ w # Absent /\ ParseOp(k, name, w) = c
  BY OpWrittenBack
<1>6. c # ParseError
  BY DEF Leaf, ParseError
<1> HIDE DEF k, j, v
<1>7. /\ v[1] = "obj" /\ v[2][name] = w /\ Entries(v[2]) = {name}
      /\ v \in Objects(OpName, Operand)
  BY <1>5, OneEntry
<1>8. v # Absent
  BY <1>5 DEF Entry, Obj, Absent
<1>9. j[1] = "obj" /\ j[2][k] = v /\ Entries(j[2]) = {k}
  BY <1>3, <1>4, <1>8, OneEntry
<1>10. j \in Json[1]
  <2>1. v \in FieldDoc \cup ({"arr"} \X Seq(Json[1 - 1]))
    BY <1>7 DEF FieldDoc
  <2>2. j \in Objects(Name, FieldDoc \cup ({"arr"} \X Seq(Json[1 - 1])))
    BY <1>3, <1>4, <1>8, <2>1, OneEntry
  <2> QED BY <1>1, <2>2, JsonLevels
<1>11. j \in Document
  BY <1>1, <1>10, JsonLevels
<1>12. ~ Refused(j)
  BY <1>4, <1>9 DEF Refused, Lists
<1>13. ParseFieldCondition(k, v) = c
  <2>1. SetToSeq(Entries(v[2])) = <<name>>
    BY <1>7, ListOfOne
  <2>2. [i \in DOMAIN <<name>> |-> ParseOp(k, <<name>>[i], v[2][<<name>>[i]])] = <<c>>
    BY <1>5, <1>7
  <2> QED BY <1>6, <1>7, <2>1, <2>2, NormalizeOne DEF ParseFieldCondition
<1>14. ParseFields(j[2]) = <<c>>
  <2>1. Entries(j[2]) \ Lists = {k}
    BY <1>4, <1>9
  <2>2. SetToSeq(Entries(j[2]) \ Lists) = <<k>>
    BY <2>1, ListOfOne
  <2>3. [i \in DOMAIN <<k>> |-> ParseFieldCondition(<<k>>[i], j[2][<<k>>[i]])] = <<c>>
    BY <1>9, <1>13
  <2> QED BY <2>2, <2>3 DEF ParseFields
<1>15. ParseList(ParseCondition, j[2], "$or") = <<>> /\ ParseList(ParseCondition, j[2], "$and") = <<>>
  BY <1>4, <1>9 DEF ParseList, Lists
<1>16. <<>> \o <<>> \o <<c>> = <<c>> /\ Len(<<>>) = 0 /\ ~ (0 > 1)
  OBVIOUS
<1>17. ParseObject(ParseCondition, j[2]) = NormalizeList(<<c>>)
  BY <1>14, <1>15, <1>16 DEF ParseObject
<1>18. ParseCondition[j] = c
  BY <1>6, <1>11, <1>12, <1>17, ParseDef, NormalizeOne
<1> QED BY <1>10, <1>18 DEF j

(* A list is written under its name, and read back element by element.     *)
LEMMA NodeWrittenBack ==
    ASSUME NEW n \in 1..(Depth + 1), NEW c \in Tree[n], c[1] # "cmp",
           \A e \in Tree[n - 1] : ConditionToValue[e] \in Json[n] /\ ParseCondition[ConditionToValue[e]] = e
    PROVE  ConditionToValue[c] \in Json[n + 1] /\ ParseCondition[ConditionToValue[c]] = c
<1> DEFINE k == IF c[1] = "and" THEN "$and" ELSE "$or"
           j == ConditionToValue[c]
           s == [i \in DOMAIN c[2] |-> ConditionToValue[c[2][i]]]
<1>1. /\ Depth \in Nat /\ n \in 0..(Depth + 1) /\ n - 1 \in 0..(Depth + 1) /\ n + 1 \in 0..(Depth + 2)
      /\ n + 1 # 0 /\ (n + 1) - 1 = n
  BY FilterAssumption
<1>2. /\ c[1] \in {"and", "or"} /\ c = <<c[1], c[2]>>
      /\ c[2] \in Seq(Tree[n - 1]) /\ Len(c[2]) > 1 /\ c \in WhereCondition
  BY <1>1, LeafOrLists, TreeLevels
<1>3. j = Entry(Name, k, <<"arr", s>>)
  BY <1>2, ValueDef DEF Arr
<1>4. k \in Name /\ k \in Lists /\ <<"arr", s>> # Absent
  BY DEF Name, Lists, Absent
<1>5. s \in Seq(Json[n]) /\ DOMAIN s = DOMAIN c[2] /\ \A i \in DOMAIN s : s[i] = ConditionToValue[c[2][i]]
  <2>1. \A i \in DOMAIN c[2] : ConditionToValue[c[2][i]] \in Json[n]
    BY <1>2
  <2> QED BY <1>2, <2>1
<1>6. ParseError \notin Tree[n - 1]
  BY <1>1, LeafOrLists DEF Leaf, ParseError
<1>7. \A i \in DOMAIN s : ParseCondition[s[i]] = c[2][i]
  BY <1>2, <1>5
<1> HIDE DEF j, s
<1>8. j[1] = "obj" /\ j[2][k] = <<"arr", s>> /\ Entries(j[2]) = {k}
  BY <1>3, <1>4, OneEntry
<1>9. j \in Json[n + 1]
  <2>1. <<"arr", s>> \in FieldDoc \cup ({"arr"} \X Seq(Json[(n + 1) - 1]))
    BY <1>1, <1>5
  <2>2. j \in Objects(Name, FieldDoc \cup ({"arr"} \X Seq(Json[(n + 1) - 1])))
    BY <1>3, <1>4, <2>1, OneEntry
  <2> QED BY <1>1, <2>2, JsonLevels
<1>10. j \in Document
  BY <1>1, <1>9, JsonLevels
<1>11. ~ Refused(j)
  BY <1>4, <1>8 DEF Refused, Lists
<1>12. ParseList(ParseCondition, j[2], k) = c[2]
  <2>1. ParseList(ParseCondition, j[2], k) = [i \in DOMAIN s |-> ParseCondition[s[i]]]
    BY <1>8 DEF ParseList
  <2> QED BY <1>2, <1>5, <1>7, <2>1
<1>13. \A l \in Lists : l # k => ParseList(ParseCondition, j[2], l) = <<>>
  BY <1>8 DEF ParseList
<1>14. ParseFields(j[2]) = <<>>
  BY <1>4, <1>8, <1>10, FieldList
<1>15. ParseError \notin ToSet(c[2]) /\ c[2] # <<>> /\ Len(c[2]) # 1
  <2>1. \A i \in DOMAIN c[2] : c[2][i] \in Tree[n - 1]
    BY <1>2
  <2>2. ParseError \notin ToSet(c[2])
    BY <1>6, <2>1 DEF ToSet
  <2>3. Len(c[2]) \in Nat /\ Len(<<>>) = 0 /\ \A l \in Nat : l > 1 => l # 1 /\ l # 0
    BY <1>2
  <2>4. c[2] # <<>> /\ Len(c[2]) # 1
    BY <1>2, <2>3
  <2> QED BY <2>2, <2>4
<1>16. ParseObject(ParseCondition, j[2]) = c
  <2>1. CASE c[1] = "or"
    BY <1>2, <1>12, <1>15, <2>1 DEF ParseObject
  <2>2. CASE c[1] = "and"
    <3>1. /\ ParseList(ParseCondition, j[2], "$or") = <<>>
          /\ ParseList(ParseCondition, j[2], "$and") = c[2]
      BY <1>12, <1>13, <2>2 DEF Lists
    <3>2. <<>> \o c[2] \o <<>> = c[2] /\ Len(<<>>) = 0 /\ ~ (0 > 1)
      BY <1>2
    <3>3. ParseObject(ParseCondition, j[2]) = NormalizeList(c[2])
      BY <1>14, <3>1, <3>2 DEF ParseObject
    <3> QED BY <1>2, <1>15, <2>2, <3>3 DEF NormalizeList
  <2> QED BY <1>2, <2>1, <2>2
<1>17. ParseCondition[j] = c
  BY <1>10, <1>11, <1>16, ParseDef
<1> QED BY <1>9, <1>17 DEF j

(* By induction over the height of the tree.                               *)
LEMMA WrittenBack ==
    \A n \in 0..(Depth + 1) : \A c \in Tree[n] :
        ConditionToValue[c] \in Json[n + 1] /\ ParseCondition[ConditionToValue[c]] = c
<1> DEFINE T == {n \in 0..(Depth + 1) : \A c \in Tree[n] :
                    ConditionToValue[c] \in Json[n + 1] /\ ParseCondition[ConditionToValue[c]] = c}
<1>0. Depth \in Nat
  BY FilterAssumption
<1>1. 0 \in T
  BY <1>0, LeafWrittenBack, TreeDef
<1>2. ASSUME NEW n \in 1..(Depth + 1), n - 1 \in T PROVE n \in T
  <2>1. /\ n \in 0..(Depth + 1) /\ n + 1 \in 0..(Depth + 2) /\ (n - 1) + 1 = n /\ 1 \in 0..(Depth + 2)
        /\ n \in 0..(Depth + 2) /\ n + 1 # 0 /\ (n + 1) - 1 = n /\ n - 1 \in 0..(Depth + 1)
    BY <1>0
  <2>2. ASSUME NEW c \in Tree[n]
        PROVE  ConditionToValue[c] \in Json[n + 1] /\ ParseCondition[ConditionToValue[c]] = c
    <3>1. CASE c[1] = "cmp"
      <4>1. c \in Leaf
        BY <2>1, <2>2, <3>1, LeafOrLists
      <4>2. Leaf \subseteq Tree[n - 1]
        BY <2>1, TreeLevels
      <4>3. ConditionToValue[c] \in Json[n] /\ ParseCondition[ConditionToValue[c]] = c
        BY <1>2, <2>1, <4>1, <4>2
      <4>4. Json[n] \subseteq Json[n + 1]
        BY <2>1, JsonLevels
      <4> QED BY <4>3, <4>4
    <3>2. CASE c[1] # "cmp"
      BY <1>2, <2>1, <3>2, NodeWrittenBack
    <3> QED BY <3>1, <3>2
  <2> QED BY <2>1, <2>2
<1>3. \A n \in 0..(Depth + 1) : n \in T
  <2> HIDE DEF T
  <2> QED BY <1>0, <1>1, <1>2, IntervalInduction
<1> QED BY <1>3

(* What the parser makes of a document has a height the last lemma covers. *)
LEMMA AllRoundTrip == RoundTrips
<1> SUFFICES ASSUME NEW d \in Accepted PROVE Reparsed[d] = Parsed[d]
  BY DEF RoundTrips
<1>1. /\ Depth \in 0..Depth /\ Depth + 1 \in 0..(Depth + 1)
      /\ d \in Json[Depth] /\ Parsed[d] = ParseCondition[d] /\ ParseCondition[d] # ParseError
  BY FilterAssumption DEF Accepted, Parsed
<1>2. Parsed[d] \in Tree[Depth + 1]
  BY <1>1, ParseAgrees DEF ParsedWell
<1> QED BY <1>1, <1>2, WrittenBack DEF Reparsed

-----------------------------------------------------------------------------
(* Type correctness, and no offset in use is handed out again: offset_for  *)
(* and load_checkpoint keep next_offset above all of them.                 *)
THEOREM PostingsTypeCorrect == Spec => []TypeOK
<1>1. IInv => TypeOK
  BY DEF IInv
<1> QED
  BY <1>1, IInvHolds, PTL

(* Postings::evaluate agrees with WhereFilter::matches after any history,  *)
(* for all filters, if integers stay below 2^53.                           *)
THEOREM PostingsEvaluateAgrees == Spec => []EvaluateAgrees
BY IInvAgrees, IInvHolds, PTL

(* A filter document selects the records whose metadata it describes: what *)
(* parse_object, parse_list, parse_field_condition and parse_op make of a  *)
(* document of any nesting, evaluated on the postings by eval_condition    *)
(* after any history, are the live records of which the document is true   *)
(* key by key and operator by operator, if integers stay below 2^53.       *)
THEOREM FilterSelectsWhatItMeans == Spec => []SelectsWhatItMeans
BY IInvSelects, IInvHolds, PTL

(* A filter that condition_to_value wrote and the parser read back is the  *)
(* same condition, whatever its nesting, and selects the same records.     *)
THEOREM FilterRoundTrips == Spec => []RoundTrips
BY AllRoundTrip, PTL

=============================================================================
