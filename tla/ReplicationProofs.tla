-------------------------- MODULE ReplicationProofs --------------------------
(***************************************************************************)
(* What a follower of the write-ahead log holds, for any history of the    *)
(* leader, any way of pruning and losing it, and any failures of the       *)
(* follower and the network.                                               *)
(***************************************************************************)
EXTENDS Replication, FiniteSetTheorems, Recursion, TLAPS

DeltaRecords == [seq : 1..MaxSeq, op : Operation]

Shapes ==
    /\ TypeOK
    /\ wal = [s \in (pruned + 1)..last_seq |-> hist[s]]
    /\ todo \in Seq({"shared", "own"})
    /\ delta \in Seq(DeltaRecords)

(* What is left of a delta is a stretch of seqs beyond the position; it    *)
(* starts right behind it, or behind what is pruned.                       *)
InOrder ==
    /\ \A k \in DOMAIN delta : delta[k].seq = delta[1].seq + k - 1
    /\ delta # <<>> => /\ last_applied < delta[1].seq
                       /\ delta[1].seq = last_applied + 1 \/ delta[1].seq <= pruned + 1
    /\ missed \subseteq 1..Reached
    /\ pc = "absent" => last_applied = 0

(* What the follower holds is part of the leader's history, and a replay   *)
(* of the log over the copy has all that it needs to catch up with it.     *)
Grounded ==
    ~ forked =>
        /\ Reached <= last_seq
        /\ \A k \in DOMAIN delta : /\ delta[k].seq <= last_seq
                                   /\ delta[k].op = hist[delta[k].seq]
        /\ delta # <<>> => seed <= delta[Len(delta)].seq
        /\ 0 < last_applied /\ last_applied < seed =>
              delta # <<>> /\ delta[1].seq = last_applied + 1

(* Up to n, every missed operation on i has been made up for.              *)
WholeTo(h, m, i, n) ==
    \A s \in m : h[s].id = i =>
        \E t \in (s + 1)..n : t \notin m /\ h[t].id = i /\ h[t].kind # "Update"

(* A record of i that stands for n operations.                             *)
Agreed(h, rec, m, i, n) == WholeTo(h, m, i, n) => rec = StateOf(h, n)[i]

(* The operations p + 1 to n were replayed over the copy c of the record   *)
(* of i: a full write made it that of n; updates changed its metadata.     *)
Replayed(h, rec, c, m, i, p, n) ==
    WholeTo(h, m, i, n) =>
        IF \E t \in (p + 1)..n : t \notin m /\ h[t].id = i /\ h[t].kind # "Update"
        THEN rec = StateOf(h, n)[i]
        ELSE /\ rec.vec = c.vec
             /\ rec.meta = IF \E t \in (p + 1)..n : h[t].id = i THEN StateOf(h, n)[i].meta
                           ELSE c.meta

Position ==
    /\ ~ forked => disk = StateAt(seed)
    /\ last_applied = 0 => missed = {} /\ records = disk
    /\ ~ forked /\ 0 < last_applied /\ last_applied < seed =>
          \E p \in 0..(last_applied - 1) :
              /\ missed \subseteq (p + 1)..last_applied
              /\ \A i \in Id : Replayed(hist, records[i], disk[i], missed, i, p, last_applied)
    /\ ~ forked /\ Settled =>
          \A i \in Id : Agreed(hist, records[i], missed, i, Reached)

Inv == Shapes /\ InOrder /\ Grounded /\ Position /\ MissedOnlyPruned
-----------------------------------------------------------------------------
(* Operations and histories.                                               *)

Entry == [vec : 0..MaxSeq, meta : 0..MaxSeq]

LEMMA NoRecordsType == NoRecord \in Entry /\ NoRecords \in Records /\ \A i \in Id : NoRecords[i] = NoRecord
BY ReplicationAssumption DEF NoRecord, NoRecords, Records, Entry

(* What an operation does to its own record and to the others.             *)
LEMMA ApplyFacts ==
    ASSUME NEW rs \in Records, NEW op \in Operation, NEW s \in 0..MaxSeq
    PROVE  /\ ApplyOperation(rs, op, s) \in Records
           /\ \A i \in Id \ {op.id} : ApplyOperation(rs, op, s)[i] = rs[i]
           /\ op.kind = "Update" => /\ ApplyOperation(rs, op, s)[op.id].vec = rs[op.id].vec
                                    /\ ApplyOperation(rs, op, s)[op.id].meta = s
           /\ op.kind # "Update" => \A qs \in Records :
                 ApplyOperation(rs, op, s)[op.id] = ApplyOperation(qs, op, s)[op.id]
           /\ op.kind = "Update" => \A qs \in Records : qs[op.id] = rs[op.id] =>
                 ApplyOperation(rs, op, s)[op.id] = ApplyOperation(qs, op, s)[op.id]
<1>1. op.id \in Id /\ op.kind \in {"Upsert", "Update", "Delete"}
  BY DEF Operation
<1>2. CASE op.kind = "Upsert"
  <2>1. \A qs \in Records : ApplyOperation(qs, op, s) = [qs EXCEPT ![op.id] = [vec |-> s, meta |-> s]]
    BY <1>2 DEF ApplyOperation
  <2> QED BY <1>1, <1>2, <2>1 DEF Records
<1>3. CASE op.kind = "Delete"
  <2>1. \A qs \in Records : ApplyOperation(qs, op, s) = [qs EXCEPT ![op.id] = NoRecord]
    BY <1>3 DEF ApplyOperation
  <2> QED BY <1>1, <1>3, <2>1, NoRecordsType DEF Records, Entry
<1>4. CASE op.kind = "Update"
  <2>1. \A qs \in Records : ApplyOperation(qs, op, s) = [qs EXCEPT ![op.id].meta = s]
    BY <1>4 DEF ApplyOperation
  <2> DEFINE Touched(qs) == [qs[op.id] EXCEPT !.meta = s]
  <2>2. ASSUME NEW qs \in Records
        PROVE  /\ Touched(qs) \in Entry
               /\ Touched(qs).vec = qs[op.id].vec
               /\ Touched(qs).meta = s
               /\ ApplyOperation(qs, op, s) = [qs EXCEPT ![op.id] = Touched(qs)]
    BY <1>1, <2>1 DEF Records, Entry
  <2>3. ASSUME NEW qs \in Records
        PROVE  /\ ApplyOperation(qs, op, s) \in Records
               /\ \A i \in Id \ {op.id} : ApplyOperation(qs, op, s)[i] = qs[i]
               /\ ApplyOperation(qs, op, s)[op.id] = Touched(qs)
    <3> HIDE DEF Touched
    <3>1. Touched(qs) \in [vec : 0..MaxSeq, meta : 0..MaxSeq]
      BY <2>2 DEF Entry
    <3> QED BY <1>1, <2>2, <3>1 DEF Records
  <2>4. ASSUME NEW qs \in Records, qs[op.id] = rs[op.id] PROVE Touched(qs) = Touched(rs)
    BY <2>4
  <2> HIDE DEF Touched
  <2> QED BY <1>4, <2>2, <2>3, <2>4
<1> QED BY <1>1, <1>2, <1>3, <1>4

History == {h \in Seq(Operation) : Len(h) <= MaxSeq}

(* g is the way of the records through the first m operations.             *)
Path(g, h, m) ==
    /\ g \in [0..m -> Records] /\ g[0] = NoRecords
    /\ \A k \in 1..m : g[k] = ApplyOperation(g[k - 1], h[k], k)

LEMMA StatePath ==
    ASSUME NEW h \in History, NEW m \in 0..Len(h)
    PROVE  \E g : Path(g, h, m) /\ g[m] = StateOf(h, m)
<1> DEFINE H == [x \in (1..m) \X Records |-> ApplyOperation(x[2], h[x[1]], x[1])]
           state[k \in 0..m] == IF k = 0 THEN NoRecords ELSE ApplyOperation(state[k - 1], h[k], k)
<1>1. m \in Nat /\ \A k \in 1..m : h[k] \in Operation /\ k \in 0..MaxSeq
  BY ReplicationAssumption DEF History
<1>2. H \in [(1..m) \X Records -> Records]
  BY <1>1, ApplyFacts
<1>3. \A k \in 1..m, t \in Records : H[<<k, t>>] = ApplyOperation(t, h[k], k)
  OBVIOUS
<1> HIDE DEF H, state
<1>4. PICK g : Recurs(g, m, Records, NoRecords, H)
  BY <1>1, <1>2, NoRecordsType, RecursiveFunction
<1>5. Path(g, h, m)
  <2>1. \A k \in 1..m : k - 1 \in 0..m /\ g[k - 1] \in Records
    BY <1>1, <1>4 DEF Recurs
  <2> QED BY <1>3, <1>4, <2>1 DEF Recurs, Path
<1>6. g = [k \in 0..m |-> IF k = 0 THEN NoRecords ELSE ApplyOperation(g[k - 1], h[k], k)]
  BY <1>5 DEF Path
<1>7. state = [k \in 0..m |-> IF k = 0 THEN NoRecords ELSE ApplyOperation(state[k - 1], h[k], k)]
  BY <1>6 DEF state
<1>8. \A k \in 0..m : state[k] = g[k]
  <2> DEFINE T == {k \in 0..m : state[k] = g[k]}
  <2>1. 0 \in T
    BY <1>1, <1>5, <1>7 DEF Path
  <2>2. \A k \in 1..m : k - 1 \in T => k \in T
    BY <1>1, <1>5, <1>7 DEF Path
  <2> HIDE DEF T
  <2>3. \A k \in 0..m : k \in T
    BY <1>1, <2>1, <2>2, IntervalInduction
  <2> QED BY <2>3 DEF T
<1>9. StateOf(h, m) = state[m]
  BY DEF StateOf, state
<1> QED BY <1>1, <1>5, <1>8, <1>9

(* Histories that begin alike lead to the same records.                    *)
LEMMA SameStates ==
    ASSUME NEW h \in History, NEW e \in History, NEW n \in 0..Len(h), n <= Len(e),
           \A k \in 1..n : h[k] = e[k]
    PROVE  StateOf(h, n) = StateOf(e, n)
<1>0. n \in Nat /\ n \in 0..Len(e)
  BY DEF History
<1>1. PICK f : Path(f, h, n) /\ f[n] = StateOf(h, n)
  BY StatePath
<1>2. PICK g : Path(g, e, n) /\ g[n] = StateOf(e, n)
  BY <1>0, StatePath
<1> DEFINE T == {k \in 0..n : f[k] = g[k]}
<1>3. 0 \in T
  BY <1>0, <1>1, <1>2 DEF Path
<1>4. \A k \in 1..n : k - 1 \in T => k \in T
  BY <1>0, <1>1, <1>2 DEF Path
<1> HIDE DEF T
<1>5. \A k \in 0..n : k \in T
  BY <1>0, <1>3, <1>4, IntervalInduction
<1> QED BY <1>0, <1>1, <1>2, <1>5 DEF T

(* The records after n operations.                                         *)
LEMMA StateFacts ==
    ASSUME NEW h \in History, NEW n \in 0..Len(h)
    PROVE  /\ StateOf(h, n) \in Records /\ StateOf(h, 0) = NoRecords
           /\ n # 0 => StateOf(h, n) = ApplyOperation(StateOf(h, n - 1), h[n], n)
<1>0. n \in Nat /\ Len(h) \in Nat /\ 0 \in 0..Len(h)
  BY DEF History
<1>1. PICK g : Path(g, h, n) /\ g[n] = StateOf(h, n)
  BY StatePath
<1>2. PICK f : Path(f, h, 0) /\ f[0] = StateOf(h, 0)
  BY <1>0, StatePath
<1>3. ASSUME n # 0 PROVE g[n - 1] = StateOf(h, n - 1)
  <2>1. n - 1 \in 0..Len(h) /\ n - 1 \in 0..n
    BY <1>0, <1>3
  <2>2. PICK f2 : Path(f2, h, n - 1) /\ f2[n - 1] = StateOf(h, n - 1)
    BY <2>1, StatePath
  <2> DEFINE T == {k \in 0..(n - 1) : f2[k] = g[k]}
  <2>3. 0 \in T
    BY <1>0, <1>1, <2>1, <2>2 DEF Path
  <2>4. \A k \in 1..(n - 1) : k - 1 \in T => k \in T
    BY <1>0, <1>1, <2>1, <2>2 DEF Path
  <2> HIDE DEF T
  <2>5. \A k \in 0..(n - 1) : k \in T
    BY <1>0, <2>1, <2>3, <2>4, IntervalInduction, SMTT(40)
  <2> QED BY <1>0, <2>1, <2>2, <2>5 DEF T
<1> QED BY <1>0, <1>1, <1>2, <1>3 DEF Path

(* A record stays what it was where no operation is on it.                 *)
LEMMA Unchanging ==
    ASSUME NEW h \in History, NEW n \in 0..Len(h), NEW m \in 0..n, NEW i \in Id,
           \A t \in (m + 1)..n : h[t].id # i
    PROVE  StateOf(h, n)[i] = StateOf(h, m)[i]
<1> DEFINE T == {k \in 0..(n - m) : StateOf(h, m + k)[i] = StateOf(h, m)[i]}
<1>1. n \in Nat /\ m \in Nat /\ n - m \in Nat /\ Len(h) \in Nat
  BY DEF History
<1>2. 0 \in T
  BY <1>1
<1>3. ASSUME NEW k \in 1..(n - m), k - 1 \in T PROVE k \in T
  <2>1. m + k \in 1..Len(h) /\ m + k \in (m + 1)..n /\ m + (k - 1) = (m + k) - 1
    BY <1>1
  <2>2. /\ StateOf(h, m + k) = ApplyOperation(StateOf(h, m + (k - 1)), h[m + k], m + k)
        /\ StateOf(h, m + (k - 1)) \in Records
    <3>1. m + k \in 0..Len(h) /\ m + (k - 1) \in 0..Len(h)
      BY <1>1, <2>1
    <3> QED BY <1>1, <2>1, <3>1, StateFacts
  <2>3. h[m + k] \in Operation /\ m + k \in 0..MaxSeq
    BY <1>1, <2>1, ReplicationAssumption DEF History
  <2>4. StateOf(h, m + k)[i] = StateOf(h, m + (k - 1))[i]
    BY <2>1, <2>2, <2>3, ApplyFacts
  <2> QED BY <1>3, <2>4
<1> HIDE DEF T
<1>4. \A k \in 0..(n - m) : k \in T
  BY <1>1, <1>2, <1>3, IntervalInduction
<1>5. n - m \in T /\ m + (n - m) = n
  BY <1>1, <1>4
<1> QED BY <1>5 DEF T

-----------------------------------------------------------------------------
(* Records that follow a history.                                          *)

(* The operation q of a history.                                           *)
LEMMA HistoryFacts ==
    ASSUME NEW h \in History, NEW q \in 1..Len(h)
    PROVE  /\ h[q] \in Operation /\ h[q].id \in Id /\ q \in 0..MaxSeq /\ q \in Nat
           /\ q \in 0..Len(h) /\ q - 1 \in 0..Len(h)
           /\ StateOf(h, q) \in Records /\ StateOf(h, q - 1) \in Records
           /\ StateOf(h, q) = ApplyOperation(StateOf(h, q - 1), h[q], q)
<1>1. Len(h) \in Nat /\ Len(h) <= MaxSeq /\ h[q] \in Operation
  BY DEF History
<1>2. h[q].id \in Id
  BY <1>1 DEF Operation
<1>3. q \in 0..MaxSeq /\ q \in Nat /\ q \in 0..Len(h) /\ q - 1 \in 0..Len(h)
  BY <1>1, ReplicationAssumption
<1> QED BY <1>1, <1>2, <1>3, StateFacts

(* The next operation is replayed.                                         *)
LEMMA ReplayStep ==
    ASSUME NEW h \in History, NEW q \in 1..Len(h), NEW p \in 0..(q - 1),
           NEW m \in SUBSET ((p + 1)..(q - 1)), NEW rs \in Records, NEW reads \in BOOLEAN,
           NEW i \in Id, NEW c \in Entry,
           Replayed(h, rs[i], c, m, i, p, q - 1)
    PROVE  Replayed(h, (IF reads THEN ApplyOperation(rs, h[q], q) ELSE rs)[i], c,
                    m \cup (IF reads THEN {} ELSE {q}), i, p, q)
<1> DEFINE rt == IF reads THEN ApplyOperation(rs, h[q], q) ELSE rs
           mt == m \cup (IF reads THEN {} ELSE {q})
           Full(t) == h[t].id = i /\ h[t].kind # "Update"
<1>1. /\ h[q] \in Operation /\ h[q].id \in Id /\ q \in 0..MaxSeq /\ q \in Nat /\ p \in Nat
      /\ StateOf(h, q) \in Records /\ StateOf(h, q - 1) \in Records
      /\ StateOf(h, q) = ApplyOperation(StateOf(h, q - 1), h[q], q)
  BY HistoryFacts
<1>2. \A t \in (p + 1)..q : (t \in (p + 1)..(q - 1) \/ t = q) /\ t \in Int
  BY <1>1
<1>3. \A s \in mt : s \in (p + 1)..q
  BY <1>1
<1>4. SUFFICES ASSUME WholeTo(h, mt, i, q)
               PROVE  IF \E t \in (p + 1)..q : t \notin mt /\ Full(t)
                      THEN rt[i] = StateOf(h, q)[i]
                      ELSE /\ rt[i].vec = c.vec
                           /\ rt[i].meta = IF \E t \in (p + 1)..q : h[t].id = i
                                           THEN StateOf(h, q)[i].meta ELSE c.meta
  BY DEF Replayed
<1>5. CASE h[q].id # i
  <2>1. rt[i] = rs[i] /\ StateOf(h, q)[i] = StateOf(h, q - 1)[i]
    BY <1>1, <1>5, ApplyFacts
  <2>2. WholeTo(h, m, i, q - 1)
    <3>1. ASSUME NEW s \in m, h[s].id = i
          PROVE  \E t \in (s + 1)..(q - 1) : t \notin m /\ h[t].id = i /\ h[t].kind # "Update"
      <4>1. PICK t \in (s + 1)..q : t \notin mt /\ h[t].id = i /\ h[t].kind # "Update"
        BY <1>4, <3>1 DEF WholeTo
      <4>2. t # q /\ t \in (s + 1)..(q - 1)
        BY <1>1, <1>3, <1>5, <4>1
      <4> QED BY <4>1, <4>2
    <3> QED BY <3>1 DEF WholeTo
  <2>3. (\E t \in (p + 1)..q : t \notin mt /\ Full(t)) <=> (\E t \in (p + 1)..(q - 1) : t \notin m /\ Full(t))
    BY <1>1, <1>2, <1>5
  <2>4. (\E t \in (p + 1)..q : h[t].id = i) <=> (\E t \in (p + 1)..(q - 1) : h[t].id = i)
    BY <1>1, <1>2, <1>5
  <2> HIDE DEF rt, mt
  <2> QED BY <2>1, <2>2, <2>3, <2>4 DEF Replayed
<1>6. CASE h[q].id = i /\ ~ reads
  <2>1. q \in mt
    BY <1>6
  <2>2. \A t \in (q + 1)..q : FALSE
    BY <1>1
  <2> QED BY <1>4, <1>6, <2>1, <2>2 DEF WholeTo
<1>7. CASE h[q].id = i /\ reads /\ h[q].kind # "Update"
  <2>1. q \in (p + 1)..q /\ q \notin mt
    BY <1>1, <1>7
  <2>2. rt[i] = StateOf(h, q)[i]
    BY <1>1, <1>7, ApplyFacts
  <2> QED BY <1>7, <2>1, <2>2
<1>8. CASE h[q].id = i /\ reads /\ h[q].kind = "Update"
  <2>1. rt = ApplyOperation(rs, h[q], q) /\ mt = m
    BY <1>8
  <2>2. WholeTo(h, m, i, q - 1)
    <3>1. ASSUME NEW s \in m, h[s].id = i
          PROVE  \E t \in (s + 1)..(q - 1) : t \notin m /\ h[t].id = i /\ h[t].kind # "Update"
      <4>1. PICK t \in (s + 1)..q : t \notin mt /\ h[t].id = i /\ h[t].kind # "Update"
        BY <1>4, <2>1, <3>1 DEF WholeTo
      <4>2. t # q /\ t \in (s + 1)..(q - 1)
        BY <1>1, <1>3, <1>8, <4>1
      <4> QED BY <2>1, <4>1, <4>2
    <3> QED BY <3>1 DEF WholeTo
  <2>3. (\E t \in (p + 1)..q : t \notin mt /\ Full(t)) <=> (\E t \in (p + 1)..(q - 1) : t \notin m /\ Full(t))
    BY <1>1, <1>2, <1>8, <2>1
  <2>4. \E t \in (p + 1)..q : h[t].id = i
    BY <1>1, <1>8
  <2>5. rt[i].vec = rs[i].vec /\ rt[i].meta = q /\ StateOf(h, q)[i].meta = q
    BY <1>1, <1>8, <2>1, ApplyFacts
  <2>6. rs[i] = StateOf(h, q - 1)[i] => rt[i] = StateOf(h, q)[i]
    BY <1>1, <1>8, <2>1, ApplyFacts
  <2> HIDE DEF rt, mt
  <2> QED BY <2>2, <2>3, <2>4, <2>5, <2>6 DEF Replayed
<1> QED BY <1>5, <1>6, <1>7, <1>8

(* The replay has caught up with the copy.                                 *)
LEMMA ReplayEnd ==
    ASSUME NEW h, NEW rec \in Entry, NEW c \in Entry, NEW m, NEW i, NEW p, NEW n,
           Replayed(h, rec, c, m, i, p, n), c = StateOf(h, n)[i]
    PROVE  Agreed(h, rec, m, i, n)
<1>1. rec.vec = c.vec /\ rec.meta = c.meta => rec = c
  BY DEF Entry
<1> QED BY <1>1 DEF Replayed, Agreed

(* Beyond the copy, an operation is applied after a gap.                   *)
LEMMA AgreeStep ==
    ASSUME NEW h \in History, NEW q \in 1..Len(h), NEW n \in 0..(q - 1),
           NEW m \in SUBSET (1..n), NEW rs \in Records, NEW reads \in BOOLEAN, NEW i \in Id,
           Agreed(h, rs[i], m, i, n)
    PROVE  Agreed(h, (IF reads THEN ApplyOperation(rs, h[q], q) ELSE rs)[i],
                  m \cup (n + 1)..(q - 1) \cup (IF reads THEN {} ELSE {q}), i, q)
<1> DEFINE rt == IF reads THEN ApplyOperation(rs, h[q], q) ELSE rs
           mt == m \cup (n + 1)..(q - 1) \cup (IF reads THEN {} ELSE {q})
<1>1. /\ h[q] \in Operation /\ h[q].id \in Id /\ q \in 0..MaxSeq /\ q \in Nat /\ n \in Nat
      /\ StateOf(h, q) \in Records /\ StateOf(h, q - 1) \in Records
      /\ StateOf(h, q) = ApplyOperation(StateOf(h, q - 1), h[q], q)
      /\ q \in 0..Len(h) /\ q - 1 \in 0..Len(h)
  BY HistoryFacts
<1>2. /\ \A s \in mt : s \in 1..q
      /\ \A t \in 1..q : t \notin mt => (t \in 1..n /\ t \notin m) \/ (t = q /\ reads)
      /\ \A s \in m : s \in mt /\ s \in 1..n
      /\ \A s \in (n + 1)..(q - 1) : s \in mt /\ s \in 1..q
  BY <1>1
<1>3. SUFFICES ASSUME WholeTo(h, mt, i, q) PROVE rt[i] = StateOf(h, q)[i]
  BY DEF Agreed
<1>4. CASE h[q].id = i /\ reads /\ h[q].kind # "Update"
  BY <1>1, <1>4, ApplyFacts
<1>5. CASE ~ (h[q].id = i /\ reads /\ h[q].kind # "Update")
  <2> HIDE DEF mt
  <2>1. ASSUME NEW s \in mt, h[s].id = i
        PROVE  \E t \in (s + 1)..n : t \in 1..n /\ t \notin m /\ h[t].id = i /\ h[t].kind # "Update"
    <3>1. PICK t \in (s + 1)..q : t \notin mt /\ h[t].id = i /\ h[t].kind # "Update"
      BY <1>3, <2>1 DEF WholeTo
    <3>2. t \in 1..q /\ s \in 1..q
      BY <1>1, <1>2, <3>1
    <3>3. t \in 1..n /\ t \notin m
      BY <1>2, <1>5, <3>1, <3>2
    <3> QED BY <1>1, <3>1, <3>2, <3>3
  <2>2. WholeTo(h, m, i, n)
    BY <1>2, <2>1 DEF WholeTo
  <2>3. \A s \in (n + 1)..(q - 1) : h[s].id # i
    <3>1. ASSUME NEW s \in (n + 1)..(q - 1) PROVE \A t \in (s + 1)..n : FALSE
      BY <1>1
    <3> QED BY <1>2, <2>1, <3>1
  <2>4. StateOf(h, q - 1)[i] = StateOf(h, n)[i]
    BY <1>1, <2>3, Unchanging
  <2>5. rs[i] = StateOf(h, q - 1)[i]
    BY <2>2, <2>4 DEF Agreed
  <2>6. CASE h[q].id # i
    BY <1>1, <2>5, <2>6, ApplyFacts
  <2>7. CASE h[q].id = i /\ reads /\ h[q].kind = "Update"
    BY <1>1, <2>5, <2>7, ApplyFacts
  <2>8. CASE h[q].id = i /\ ~ reads
    <3>1. q \in mt
      BY <2>8 DEF mt
    <3>2. \A t \in (q + 1)..n : FALSE
      BY <1>1
    <3> QED BY <2>1, <2>8, <3>1, <3>2
  <2> QED BY <1>5, <2>6, <2>7, <2>8
<1> QED BY <1>4, <1>5

(* All of this is about the first n operations.                            *)
LEMMA PrefixKeeps ==
    ASSUME NEW h \in History, NEW e \in History, NEW n \in 0..Len(h), n <= Len(e),
           \A k \in 1..n : h[k] = e[k], NEW m \in SUBSET (1..n)
    PROVE  /\ StateOf(h, n) = StateOf(e, n)
           /\ \A i, rec : Agreed(h, rec, m, i, n) => Agreed(e, rec, m, i, n)
           /\ \A i, rec, c : \A p \in Nat : Replayed(h, rec, c, m, i, p, n) => Replayed(e, rec, c, m, i, p, n)
<1>1. StateOf(h, n) = StateOf(e, n)
  BY SameStates
<1>2. n \in Nat /\ \A s \in m : s \in 1..n /\ h[s] = e[s]
  BY DEF History
<1>3. ASSUME NEW i PROVE WholeTo(h, m, i, n) <=> WholeTo(e, m, i, n)
  <2>1. \A s \in m : \A t \in (s + 1)..n : t \in 1..n /\ h[t] = e[t]
    BY <1>2
  <2> QED BY <1>2, <2>1, SMTT(40) DEF WholeTo
<1>4. ASSUME NEW p \in Nat PROVE \A t \in (p + 1)..n : h[t] = e[t]
  BY <1>2
<1>5. \A i, rec : Agreed(h, rec, m, i, n) => Agreed(e, rec, m, i, n)
  BY <1>1, <1>3 DEF Agreed
<1>6. ASSUME NEW i, NEW rec, NEW c, NEW p \in Nat, Replayed(h, rec, c, m, i, p, n)
      PROVE  Replayed(e, rec, c, m, i, p, n)
  BY <1>1, <1>3, <1>4, <1>6 DEF Replayed
<1> QED BY <1>1, <1>5, <1>6

-----------------------------------------------------------------------------
(* Deltas.                                                                 *)

(* There is one increasing way through an interval.                        *)
LEMMA Increasing ==
    ASSUME NEW n \in Nat, NEW lo \in Nat, NEW q \in [1..n -> lo..(lo + n - 1)],
           \A i, j \in 1..n : i < j => q[i] < q[j]
    PROVE  \A i \in 1..n : q[i] = lo + i - 1
<1> DEFINE T == {k \in 0..n : k = 0 \/ q[k] >= lo + k - 1}
           U == {k \in 0..n : k = n \/ q[n - k] <= lo + (n - k) - 1}
<1>0. \A k \in 1..n : q[k] \in Int /\ lo <= q[k] /\ q[k] <= lo + n - 1
  OBVIOUS
<1>1. 0 \in T
  OBVIOUS
<1>2. ASSUME NEW k \in 1..n, k - 1 \in T PROVE k \in T
  <2>1. CASE k = 1
    BY <1>0, <2>1
  <2>2. CASE k # 1
    <3>1. k - 1 \in 1..n /\ k - 1 < k
      BY <2>2
    <3>2. q[k - 1] < q[k] /\ q[k - 1] >= lo + (k - 1) - 1
      BY <1>2, <3>1
    <3> QED BY <1>0, <3>1, <3>2
  <2> QED BY <2>1, <2>2
<1>3. 0 \in U
  <2>1. CASE n = 0
    BY <2>1
  <2>2. CASE n # 0
    <3>1. n \in 1..n /\ n - 0 = n
      BY <2>2
    <3> QED BY <1>0, <3>1
  <2> QED BY <2>1, <2>2
<1>4. ASSUME NEW k \in 1..n, k - 1 \in U PROVE k \in U
  <2>1. CASE k = n
    BY <2>1
  <2>2. CASE k # n
    <3>1. n - k \in 1..n /\ n - (k - 1) \in 1..n /\ n - k < n - (k - 1)
      BY <2>2
    <3>2. q[n - k] < q[n - (k - 1)] /\ q[n - (k - 1)] <= lo + (n - (k - 1)) - 1
      BY <1>4, <3>1
    <3> QED BY <1>0, <3>1, <3>2
  <2> QED BY <2>1, <2>2
<1> HIDE DEF T, U
<1>5. \A k \in 0..n : k \in T
  BY <1>1, <1>2, IntervalInduction
<1>6. \A k \in 0..n : k \in U
  BY <1>3, <1>4, IntervalInduction
<1>7. ASSUME NEW i \in 1..n PROVE q[i] = lo + i - 1
  <2>1. q[i] >= lo + i - 1
    BY <1>5 DEF T
  <2>2. n - i \in 0..n /\ n - (n - i) = i /\ n - i # n
    OBVIOUS
  <2>3. q[i] <= lo + i - 1
    BY <1>6, <2>2 DEF U
  <2> QED BY <1>0, <2>1, <2>3
<1> QED BY <1>7

Stretch(lo) == [k \in 1..(last_seq + 1 - lo) |-> [seq |-> lo + k - 1, op |-> hist[lo + k - 1]]]

(* A delta is the end of the log, from the given seq or from what is       *)
(* pruned.                                                                 *)
LEMMA DeltaIs ==
    ASSUME Shapes, NEW from \in Nat \ {0}
    PROVE  \/ WalDelta(from) = <<>>
           \/ \E lo \in from..last_seq : /\ WalDelta(from) = Stretch(lo)
                                         /\ lo = from \/ lo = pruned + 1
<1>1. /\ last_seq \in Nat /\ pruned \in Nat /\ pruned <= last_seq
      /\ wal = [s \in (pruned + 1)..last_seq |-> hist[s]]
      /\ DOMAIN wal = (pruned + 1)..last_seq
  BY ReplicationAssumption DEF Shapes, TypeOK
<1>2. CASE from > last_seq
  <2>1. [k \in DOMAIN <<>> |-> DeltaRecord(<<>>[k])] = <<>>
    OBVIOUS
  <2> QED BY <1>2, <2>1 DEF WalDelta
<1>3. CASE ~ (from > last_seq)
  <2> DEFINE lo == IF from <= pruned THEN pruned + 1 ELSE from
             n == last_seq + 1 - lo
             seqs == {s \in DOMAIN wal : from <= s /\ s <= last_seq}
             Sorted(q) == q \in [1..n -> seqs] /\ \A i, j \in 1..n : i < j => q[i] < q[j]
             range == ReadRange(from, last_seq)
  <2>1. lo \in Nat /\ n \in Nat /\ lo >= from /\ (lo = from \/ lo = pruned + 1) /\ lo + n - 1 = last_seq
        /\ last_seq - lo + 1 = n
    BY <1>1, <1>3
  <2>2. seqs = lo..last_seq
    BY <1>1, <1>3
  <2> HIDE DEF lo
  <2>3. Cardinality(seqs) = n
    <3>1. Cardinality(lo..last_seq) = IF lo > last_seq THEN 0 ELSE last_seq - lo + 1
      BY <1>1, <2>1, FS_Interval
    <3>2. (IF lo > last_seq THEN 0 ELSE last_seq - lo + 1) = n
      BY <1>1, <2>1
    <3>3. Cardinality(seqs) = Cardinality(lo..last_seq)
      BY <2>2
    <3> HIDE DEF n, seqs
    <3> QED BY <3>1, <3>2, <3>3
  <2>4. range = CHOOSE q \in [1..n -> seqs] : \A i, j \in 1..n : i < j => q[i] < q[j]
    BY <2>3 DEF ReadRange
  <2>5. Sorted([i \in 1..n |-> lo + i - 1])
    BY <1>1, <2>1, <2>2
  <2>6. Sorted(range)
    BY <2>4, <2>5
  <2>7. range \in [1..n -> lo..(lo + n - 1)] /\ \A i \in 1..n : range[i] = lo + i - 1
    <3>1. range \in [1..n -> lo..(lo + n - 1)]
      BY <2>1, <2>2, <2>6
    <3>2. \A i, j \in 1..n : i < j => range[i] < range[j]
      BY <2>6
    <3> HIDE DEF range, n, seqs
    <3> QED BY <2>1, <3>1, <3>2, Increasing
  <2>8. WalDelta(from) = [k \in DOMAIN range |-> DeltaRecord(range[k])]
    BY <1>3 DEF WalDelta
  <2> HIDE DEF range
  <2>9. DOMAIN range = 1..n /\ \A k \in 1..n : DeltaRecord(range[k]) = [seq |-> lo + k - 1, op |-> hist[lo + k - 1]]
    <3>1. ASSUME NEW k \in 1..n PROVE wal[range[k]] = hist[lo + k - 1] /\ range[k] = lo + k - 1
      <4>1. lo + k - 1 \in lo..last_seq
        BY <1>1, <2>1
      <4>2. lo + k - 1 \in (pruned + 1)..last_seq
        BY <1>1, <2>2, <4>1
      <4> QED BY <1>1, <2>7, <4>2
    <3> QED BY <2>7, <3>1 DEF DeltaRecord
  <2>10. WalDelta(from) = Stretch(lo)
    BY <2>8, <2>9 DEF Stretch
  <2>11. CASE lo <= last_seq
    BY <1>1, <2>1, <2>10, <2>11
  <2>12. CASE lo > last_seq
    <3>1. 1..n = {}
      BY <1>1, <2>1, <2>12
    <3>2. DOMAIN range = {}
      BY <2>9, <3>1
    <3> QED BY <2>8, <3>2
  <2> QED BY <1>1, <2>1, <2>11, <2>12
<1> QED BY <1>2, <1>3

(* The records of a stretch.                                               *)
LEMMA StretchFacts ==
    ASSUME Shapes, NEW lo \in 1..last_seq
    PROVE  /\ Stretch(lo) \in Seq(DeltaRecords) /\ Stretch(lo) # <<>>
           /\ DOMAIN Stretch(lo) = 1..(last_seq + 1 - lo) /\ Len(Stretch(lo)) = last_seq + 1 - lo
           /\ \A k \in DOMAIN Stretch(lo) : /\ Stretch(lo)[k].seq = lo + k - 1
                                            /\ Stretch(lo)[k].op = hist[lo + k - 1]
                                            /\ lo + k - 1 \in 1..last_seq
<1>1. last_seq \in 0..MaxSeq /\ last_seq \in Nat /\ hist \in Seq(Operation) /\ Len(hist) = last_seq /\ MaxSeq \in Nat
  BY ReplicationAssumption DEF Shapes, TypeOK
<1>2. last_seq + 1 - lo \in Nat /\ last_seq + 1 - lo >= 1
  BY <1>1
<1>3. ASSUME NEW k \in 1..(last_seq + 1 - lo)
      PROVE  lo + k - 1 \in 1..last_seq /\ lo + k - 1 \in 1..MaxSeq /\ hist[lo + k - 1] \in Operation
  <2>1. lo + k - 1 \in 1..last_seq /\ lo + k - 1 \in 1..MaxSeq
    BY <1>1
  <2> QED BY <1>1, <2>1
<1>4. \A k \in 1..(last_seq + 1 - lo) : [seq |-> lo + k - 1, op |-> hist[lo + k - 1]] \in DeltaRecords
  BY <1>3 DEF DeltaRecords
<1>5. Stretch(lo) \in Seq(DeltaRecords) /\ DOMAIN Stretch(lo) = 1..(last_seq + 1 - lo)
      /\ Len(Stretch(lo)) = last_seq + 1 - lo
  BY <1>2, <1>4 DEF Stretch
<1>6. Stretch(lo) # <<>>
  BY <1>2, <1>5
<1> QED BY <1>3, <1>5, <1>6 DEF Stretch

-----------------------------------------------------------------------------
(* Each step keeps the shapes.                                             *)

LEMMA Bounds ==
    ASSUME Shapes
    PROVE  /\ MaxSeq \in Nat /\ last_seq \in Nat /\ last_seq <= MaxSeq
           /\ pruned \in Nat /\ pruned <= last_seq
           /\ hist \in History /\ Len(hist) = last_seq /\ hist \in Seq(Operation)
           /\ last_applied \in Nat /\ last_applied <= MaxSeq /\ seed \in Nat /\ seed <= MaxSeq
           /\ Reached \in Nat /\ Reached <= MaxSeq /\ last_applied <= Reached /\ seed <= Reached
           /\ Reached = last_applied \/ Reached = seed
           /\ records \in Records /\ disk \in Records
BY ReplicationAssumption DEF Shapes, TypeOK, History, Reached

(* The first record of a delta, and what is left without it.               *)
LEMMA DeltaHead ==
    ASSUME Shapes, delta # <<>>
    PROVE  /\ Head(delta) = delta[1] /\ delta[1] \in DeltaRecords /\ Len(delta) \in Nat \ {0}
           /\ DOMAIN delta = 1..Len(delta)
           /\ Head(delta).seq \in 1..MaxSeq /\ Head(delta).op \in Operation
           /\ Tail(delta) \in Seq(DeltaRecords) /\ Len(Tail(delta)) = Len(delta) - 1
           /\ DOMAIN Tail(delta) = 1..(Len(delta) - 1)
           /\ \A k \in DOMAIN Tail(delta) : Tail(delta)[k] = delta[k + 1] /\ k + 1 \in DOMAIN delta
<1>1. delta \in Seq(DeltaRecords)
  BY DEF Shapes
<1>2. Len(delta) \in Nat \ {0} /\ DOMAIN delta = 1..Len(delta) /\ Head(delta) = delta[1] /\ delta[1] \in DeltaRecords
  BY <1>1
<1>3. Head(delta).seq \in 1..MaxSeq /\ Head(delta).op \in Operation
  BY <1>2 DEF DeltaRecords
<1>4. Tail(delta) \in Seq(DeltaRecords) /\ Len(Tail(delta)) = Len(delta) - 1
  BY <1>1
<1>5. DOMAIN Tail(delta) = 1..(Len(delta) - 1)
  BY <1>4
<1>6. \A k \in DOMAIN Tail(delta) : Tail(delta)[k] = delta[k + 1] /\ k + 1 \in DOMAIN delta
  BY <1>1, <1>2, <1>5
<1> QED BY <1>2, <1>3, <1>4, <1>5, <1>6

LEMMA WriteShapes ==
    ASSUME Shapes, NEW op \in Operation, LeaderWrite(op)
    PROVE  Shapes'
<1>1. last_seq' = last_seq + 1 /\ hist' = Append(hist, op) /\ last_seq' <= MaxSeq
  BY Bounds, ReplicationAssumption DEF LeaderWrite
<1>2. hist' \in Seq(Operation) /\ Len(hist') = last_seq'
  BY <1>1, Bounds
<1>3. \A s \in 1..last_seq : hist'[s] = hist[s]
  BY <1>1, Bounds
<1>4. hist'[last_seq + 1] = op
  BY <1>1, Bounds
<1>5. wal' = [s \in (pruned' + 1)..last_seq' |-> hist'[s]]
  <2>1. wal = [s \in (pruned + 1)..last_seq |-> hist[s]] /\ pruned' = pruned
    BY DEF Shapes, LeaderWrite
  <2>2. DOMAIN wal \cup {last_seq + 1} = (pruned' + 1)..last_seq'
    BY <1>1, <2>1, Bounds
  <2>3. wal' = [s \in (pruned' + 1)..last_seq' |-> IF s = last_seq + 1 THEN op ELSE wal[s]]
    BY <2>2 DEF LeaderWrite
  <2>4. \A s \in (pruned' + 1)..last_seq' : s # last_seq + 1 => wal[s] = hist'[s]
    <3>1. ASSUME NEW s \in (pruned' + 1)..last_seq', s # last_seq + 1
          PROVE  s \in (pruned + 1)..last_seq /\ s \in 1..last_seq
      BY <1>1, <2>1, <3>1, Bounds
    <3> QED BY <1>3, <2>1, <3>1
  <2> QED BY <1>4, <2>3, <2>4
<1>6. DOMAIN wal' = (pruned' + 1)..last_seq'
  BY <1>5
<1>7. last_seq' \in 0..MaxSeq /\ pruned' \in 0..last_seq'
  BY <1>1, Bounds DEF LeaderWrite
<1> QED BY <1>2, <1>5, <1>6, <1>7
        DEF Shapes, TypeOK, LeaderWrite, loopVars, copyVars, faultVars

LEMMA CutShapes ==
    ASSUME Shapes, NEW n \in Nat, LeaderPrune(n) \/ LeaderPowerLoss(n)
    PROVE  Shapes'
<1>0. wal = [s \in (pruned + 1)..last_seq |-> hist[s]]
  BY DEF Shapes
<1>1. CASE LeaderPrune(n)
  <2>1. last_seq' = last_seq /\ hist' = hist /\ pruned' = n /\ pruned < n /\ n <= last_seq
    BY <1>1 DEF LeaderPrune
  <2>2. wal' = [s \in {t \in DOMAIN wal : t > n} |-> wal[s]]
    BY <1>1 DEF LeaderPrune, Restrict
  <2>3. {t \in DOMAIN wal : t > n} = (pruned' + 1)..last_seq'
    BY <1>0, <2>1, Bounds
  <2>4. \A s \in (pruned' + 1)..last_seq' : wal[s] = hist'[s]
    BY <1>0, <2>1, <2>3
  <2>5. wal' = [s \in (pruned' + 1)..last_seq' |-> hist'[s]]
    BY <2>2, <2>3, <2>4
  <2>6. DOMAIN wal' = (pruned' + 1)..last_seq'
    BY <2>5
  <2>7. pruned' \in 0..last_seq'
    BY <2>1, Bounds
  <2> QED BY <1>1, <2>1, <2>5, <2>6, <2>7
          DEF Shapes, TypeOK, LeaderPrune, loopVars, copyVars, faultVars
<1>2. CASE LeaderPowerLoss(n)
  <2>1. last_seq' = n /\ hist' = SubSeq(hist, 1, n) /\ pruned' = pruned /\ pruned <= n /\ n < last_seq
    BY <1>2 DEF LeaderPowerLoss
  <2>2. hist' \in Seq(Operation) /\ Len(hist') = last_seq' /\ \A s \in 1..n : hist'[s] = hist[s]
    BY <2>1, Bounds
  <2>3. wal' = [s \in {t \in DOMAIN wal : t <= n} |-> wal[s]]
    BY <1>2 DEF LeaderPowerLoss, Restrict
  <2>4. {t \in DOMAIN wal : t <= n} = (pruned' + 1)..last_seq'
    BY <1>0, <2>1, Bounds
  <2>5. \A s \in (pruned' + 1)..last_seq' : wal[s] = hist'[s]
    <3>1. ASSUME NEW s \in (pruned' + 1)..last_seq' PROVE s \in 1..n /\ s \in (pruned + 1)..last_seq
      BY <2>1, Bounds
    <3> QED BY <1>0, <2>2, <3>1
  <2>6. wal' = [s \in (pruned' + 1)..last_seq' |-> hist'[s]]
    BY <2>3, <2>4, <2>5
  <2>7. DOMAIN wal' = (pruned' + 1)..last_seq'
    BY <2>6
  <2>8. last_seq' \in 0..MaxSeq /\ pruned' \in 0..last_seq'
    BY <2>1, Bounds
  <2>9. losses' \in 0..MaxPowerLoss /\ forked' \in BOOLEAN
    BY <1>2, ReplicationAssumption DEF LeaderPowerLoss, Shapes, TypeOK
  <2> QED BY <1>2, <2>2, <2>6, <2>7, <2>8, <2>9
          DEF Shapes, TypeOK, LeaderPowerLoss, loopVars, copyVars
<1> QED BY <1>1, <1>2

LEMMA JoinShapes == Shapes /\ (Join \/ FollowerRestart) => Shapes'
<1> SUFFICES ASSUME Shapes, Join \/ FollowerRestart PROVE Shapes'
  OBVIOUS
<1>1. CASE Join
  <2>1. disk' \in Records /\ records' \in Records /\ seed' \in 0..MaxSeq
    <3>1. StateOf(hist, last_seq) \in Records
      BY Bounds, StateFacts
    <3> QED BY <1>1, <3>1, Bounds DEF Join, StateAt
  <2> QED BY <1>1, <2>1 DEF Shapes, TypeOK, Join, leaderVars, faultVars
<1>2. CASE FollowerRestart
  <2>1. restarts' \in 0..MaxRestart /\ MaxRetries = 3
    BY <1>2, ReplicationAssumption DEF FollowerRestart, Shapes, TypeOK, MaxRetries
  <2> QED BY <1>2, <2>1, ReplicationAssumption DEF Shapes, TypeOK, FollowerRestart, leaderVars
<1> QED BY <1>1, <1>2

LEMMA NextCollectionShapes ==
    ASSUME Shapes, pc \in {"fetch", "apply"}, NextCollection
    PROVE  /\ todo' \in Seq({"shared", "own"}) /\ attempt' = 0 /\ pc' \in {"sleep", "fetch"}
           /\ (pc' \in {"fetch", "apply"}) <=> (todo' # <<>>)
<1>1. todo \in Seq({"shared", "own"}) /\ todo # <<>>
  BY DEF Shapes, TypeOK
<1>2. Tail(todo) \in Seq({"shared", "own"})
  BY <1>1
<1> QED BY <1>2 DEF NextCollection

LEMMA LoopShapes == Shapes /\ LoopStep => Shapes'
<1> SUFFICES ASSUME Shapes, LoopStep PROVE Shapes'
  OBVIOUS
<1>0. MaxRetries = 3
  BY DEF MaxRetries
<1>1. CASE Poll
  BY <1>0, <1>1, ReplicationAssumption DEF Poll, Shapes, TypeOK, leaderVars, copyVars, faultVars
<1>2. CASE FetchOk
  <2>1. NextSeq \in Nat \ {0}
    BY Bounds DEF NextSeq
  <2>2. delta' \in Seq(DeltaRecords)
    <3>1. CASE WalDelta(NextSeq) = <<>>
      BY <1>2, <3>1 DEF FetchOk
    <3>2. CASE \E lo \in NextSeq..last_seq : WalDelta(NextSeq) = Stretch(lo)
      <4>1. PICK lo \in NextSeq..last_seq : WalDelta(NextSeq) = Stretch(lo)
        BY <3>2
      <4>2. lo \in 1..last_seq
        BY <2>1, Bounds
      <4> QED BY <1>2, <4>1, <4>2, StretchFacts DEF FetchOk
    <3> QED BY <2>1, <3>1, <3>2, DeltaIs
  <2> QED BY <1>2, <2>2 DEF FetchOk, Shapes, TypeOK, leaderVars, copyVars, faultVars
<1>3. CASE FetchError
  <2>1. fails' \in 0..MaxFail
    <3>1. fails' = fails \/ (fails < MaxFail /\ fails' = fails + 1)
      BY <1>3 DEF FetchError
    <3>2. fails \in 0..MaxFail /\ MaxFail \in Nat
      BY ReplicationAssumption DEF Shapes, TypeOK
    <3> QED BY <3>1, <3>2
  <2>2. CASE attempt + 1 < MaxRetries
    <3>1. attempt' \in 0..(MaxRetries - 1)
      BY <1>0, <1>3, <2>2 DEF FetchError, Shapes, TypeOK
    <3> QED BY <1>3, <2>1, <2>2, <3>1 DEF FetchError, Shapes, TypeOK, leaderVars, copyVars
  <2>3. CASE ~ (attempt + 1 < MaxRetries)
    <3>1. NextCollection /\ pc = "fetch"
      BY <1>3, <2>3 DEF FetchError
    <3>2. delta' = <<>>
      BY <1>3, <3>1 DEF FetchError, Shapes, TypeOK
    <3> QED BY <1>0, <1>3, <2>1, <3>1, <3>2, NextCollectionShapes DEF FetchError, Shapes, TypeOK, leaderVars, copyVars
  <2> QED BY <2>2, <2>3
<1>4. CASE ApplyRecord
  <2> DEFINE r == Head(delta)
  <2>1. r.seq \in 1..MaxSeq /\ r.seq \in 0..MaxSeq /\ r.op \in Operation /\ Tail(delta) \in Seq(DeltaRecords)
    BY <1>4, DeltaHead, Bounds DEF ApplyRecord
  <2>2. records' \in Records
    BY <1>4, <2>1, Bounds, ApplyFacts DEF ApplyRecord
  <2>3. missed' \subseteq 1..MaxSeq
    <3>1. missed \subseteq 1..MaxSeq
      BY DEF Shapes, TypeOK
    <3>2. (Reached + 1)..(r.seq - 1) \subseteq 1..MaxSeq
      BY <2>1, Bounds
    <3> QED BY <1>4, <2>1, <3>1, <3>2 DEF ApplyRecord
  <2> HIDE DEF r
  <2>4. last_applied' \in 0..MaxSeq /\ delta' \in Seq(DeltaRecords) /\ pc' = "apply"
    BY <1>4, <2>1 DEF ApplyRecord, r
  <2> QED BY <1>4, <2>2, <2>3, <2>4 DEF ApplyRecord, Shapes, TypeOK, leaderVars, faultVars
<1>5. CASE ApplyDone
  <2>1. NextCollection /\ pc = "apply" /\ delta' = <<>>
    BY <1>5 DEF ApplyDone
  <2> QED BY <1>0, <1>5, <2>1, NextCollectionShapes DEF ApplyDone, Shapes, TypeOK, leaderVars, copyVars, faultVars
<1> QED BY <1>1, <1>2, <1>3, <1>4, <1>5 DEF LoopStep

LEMMA ShapesStep == Shapes /\ Next => Shapes'
<1>1. \A n \in 0..MaxSeq : n \in Nat
  BY ReplicationAssumption
<1>2. \A n \in 1..MaxSeq : n \in Nat
  BY ReplicationAssumption
<1> QED BY <1>1, <1>2, WriteShapes, CutShapes, JoinShapes, LoopShapes DEF Next

-----------------------------------------------------------------------------
(* Each step keeps what the records rest on.                               *)

(* Steps that leave the follower's copy and its delta alone, and keep the  *)
(* part of the history that they stand for.                                *)
LeaderKeeps ==
    /\ UNCHANGED <<delta, copyVars>> /\ pruned <= pruned'
    /\ pc = "absent" <=> pc' = "absent"
    /\ ~ forked' => /\ ~ forked
                    /\ \A s \in Held : s <= last_seq => s <= last_seq'
                    /\ \A k \in 1..last_seq : k <= last_seq' => hist'[k] = hist[k]

LEMMA WriteKeeps == ASSUME Shapes, NEW op \in Operation, LeaderWrite(op) PROVE LeaderKeeps
<1>1. last_seq' = last_seq + 1 /\ hist' = Append(hist, op) /\ pruned' = pruned /\ forked' = forked
      /\ UNCHANGED <<delta, copyVars, pc>>
  BY DEF LeaderWrite, loopVars, faultVars
<1>2. \A k \in 1..last_seq : hist'[k] = hist[k]
  BY <1>1, Bounds
<1>3. \A s \in Held : s \in Nat
  <2>1. \A k \in DOMAIN delta : delta[k].seq \in Nat
    <3>1. \A k \in DOMAIN delta : delta[k] \in DeltaRecords
      BY DEF Shapes
    <3> QED BY <3>1 DEF DeltaRecords
  <2> QED BY <2>1, Bounds DEF Held
<1> QED BY <1>1, <1>2, <1>3, Bounds DEF LeaderKeeps

LEMMA CutKeeps ==
    ASSUME Shapes, NEW n \in Nat, LeaderPrune(n) \/ LeaderPowerLoss(n)
    PROVE  LeaderKeeps
<1>1. CASE LeaderPrune(n)
  BY <1>1, Bounds DEF LeaderPrune, LeaderKeeps, loopVars, faultVars
<1>2. CASE LeaderPowerLoss(n)
  <2>1. last_seq' = n /\ hist' = SubSeq(hist, 1, n) /\ pruned' = pruned /\ n < last_seq
        /\ UNCHANGED <<delta, copyVars, pc>>
    BY <1>2 DEF LeaderPowerLoss, loopVars
  <2>2. \A k \in 1..last_seq : k <= last_seq' => hist'[k] = hist[k]
    BY <2>1, Bounds
  <2>3. \A s \in Held : s \in Nat
    <3>1. \A k \in DOMAIN delta : delta[k].seq \in Nat
      <4>1. \A k \in DOMAIN delta : delta[k] \in DeltaRecords
        BY DEF Shapes
      <4> QED BY <4>1 DEF DeltaRecords
    <3> QED BY <3>1, Bounds DEF Held
  <2>4. ~ forked' => ~ forked /\ \A s \in Held : ~ (s > n)
    BY <1>2 DEF LeaderPowerLoss, Shapes, TypeOK
  <2>5. ~ forked' => \A s \in Held : s <= last_seq'
    BY <2>1, <2>3, <2>4
  <2> QED BY <2>1, <2>2, <2>4, <2>5, Bounds DEF LeaderKeeps
<1> QED BY <1>1, <1>2

LEMMA LoopKeeps == ASSUME Shapes, Poll \/ FetchError \/ ApplyDone PROVE LeaderKeeps
<1>1. UNCHANGED <<delta, copyVars, leaderVars, forked>> /\ pc # "absent"
  BY DEF Poll, FetchError, ApplyDone, faultVars
<1>2. pc' # "absent"
  BY DEF Poll, FetchError, ApplyDone, NextCollection
<1> QED BY <1>1, <1>2, Bounds DEF LeaderKeeps, leaderVars

(* Such a step keeps everything.                                           *)
LEMMA KeepsInv == ASSUME Inv, Shapes', LeaderKeeps PROVE Inv'
<1> USE DEF Inv
<1>1. /\ delta' = delta /\ last_applied' = last_applied /\ records' = records /\ disk' = disk
      /\ seed' = seed /\ missed' = missed /\ Reached' = Reached /\ pruned <= pruned'
      /\ (pc' = "absent" => pc = "absent")
  BY DEF LeaderKeeps, copyVars, Reached
<1>2. Reached \in Nat /\ pruned \in Nat /\ pruned' \in Nat /\ last_seq' \in Nat /\ missed \subseteq 1..Reached
      /\ last_seq \in Nat
  <2>1. pruned' \in Nat /\ last_seq' \in Nat
    BY ReplicationAssumption DEF Shapes, TypeOK
  <2> QED BY <2>1, Bounds DEF InOrder
<1>3. InOrder'
  <2>1. delta # <<>> => delta[1].seq \in Nat
    BY DeltaHead DEF DeltaRecords
  <2> QED BY <1>1, <1>2, <2>1 DEF InOrder
<1>4. ASSUME ~ forked'
      PROVE  /\ ~ forked /\ Reached <= last_seq /\ Reached <= last_seq'
             /\ \A k \in 1..Reached : hist'[k] = hist[k]
  <2>1. ~ forked /\ Reached <= last_seq
    BY <1>4 DEF LeaderKeeps, Grounded
  <2>2. Reached \in Held
    BY Bounds DEF Held
  <2>3. Reached <= last_seq'
    BY <1>4, <2>1, <2>2 DEF LeaderKeeps
  <2>4. \A k \in 1..Reached : k \in 1..last_seq /\ k <= last_seq'
    BY <1>2, <2>1, <2>3
  <2> QED BY <1>4, <2>1, <2>3, <2>4 DEF LeaderKeeps
<1>5. Grounded'
  <2>1. SUFFICES ASSUME ~ forked'
                 PROVE  /\ Reached <= last_seq'
                        /\ \A k \in DOMAIN delta : /\ delta[k].seq <= last_seq'
                                                   /\ delta[k].op = hist'[delta[k].seq]
                        /\ delta # <<>> => seed <= delta[Len(delta)].seq
                        /\ 0 < last_applied /\ last_applied < seed =>
                              delta # <<>> /\ delta[1].seq = last_applied + 1
    BY <1>1 DEF Grounded
  <2>2. ASSUME NEW k \in DOMAIN delta
        PROVE  delta[k].seq <= last_seq' /\ delta[k].op = hist'[delta[k].seq]
    <3>1. delta[k] \in DeltaRecords
      BY DEF Shapes
    <3>2. delta[k].seq \in Nat /\ 1 <= delta[k].seq
      BY <3>1 DEF DeltaRecords
    <3>3. delta[k].seq \in Held
      BY DEF Held
    <3>4. delta[k].seq <= last_seq /\ delta[k].op = hist[delta[k].seq]
      BY <1>4, <2>1 DEF Grounded
    <3>5. delta[k].seq <= last_seq'
      BY <2>1, <3>3, <3>4 DEF LeaderKeeps
    <3>6. delta[k].seq \in 1..last_seq
      BY <1>2, <3>2, <3>4
    <3> QED BY <2>1, <3>4, <3>5, <3>6 DEF LeaderKeeps
  <2> QED BY <1>4, <2>1, <2>2 DEF Grounded
<1>6. Position'
  <2>1. last_applied = 0 => missed = {} /\ records = disk
    BY DEF Position
  <2>2. ASSUME ~ forked'
        PROVE  /\ disk = StateOf(hist', seed)
               /\ 0 < last_applied /\ last_applied < seed =>
                    \E p \in 0..(last_applied - 1) :
                        /\ missed \subseteq (p + 1)..last_applied
                        /\ \A i \in Id : Replayed(hist', records[i], disk[i], missed, i, p, last_applied)
               /\ Settled => \A i \in Id : Agreed(hist', records[i], missed, i, Reached)
    <3>1. /\ hist' \in History /\ Reached <= Len(hist') /\ Reached \in 0..Len(hist) /\ hist \in History
      <4>1. hist' \in History /\ Len(hist') = last_seq'
        BY DEF Shapes, TypeOK, History
      <4> QED BY <1>2, <1>4, <2>2, <4>1, Bounds
    <3>2. \A k \in 1..Reached : hist[k] = hist'[k]
      BY <1>4, <2>2
    <3>3. ASSUME NEW n \in 0..Reached
          PROVE  n \in 0..Len(hist) /\ n <= Len(hist') /\ \A k \in 1..n : hist[k] = hist'[k]
      <4>1. Len(hist) \in Nat /\ Len(hist') \in Nat
        BY DEF Shapes, TypeOK
      <4> QED BY <1>2, <3>1, <3>2, <4>1
    <3>4. seed \in 0..Reached /\ last_applied \in 0..Reached /\ Reached \in 0..Reached
      BY Bounds
    <3>5. disk = StateOf(hist', seed)
      <4>1. disk = StateOf(hist, seed)
        BY <1>4, <2>2 DEF Position, StateAt
      <4> QED BY <3>1, <3>3, <3>4, <4>1, SameStates
    <3>6. ASSUME 0 < last_applied, last_applied < seed
          PROVE  \E p \in 0..(last_applied - 1) :
                        /\ missed \subseteq (p + 1)..last_applied
                        /\ \A i \in Id : Replayed(hist', records[i], disk[i], missed, i, p, last_applied)
      <4>1. PICK p \in 0..(last_applied - 1) :
                        /\ missed \subseteq (p + 1)..last_applied
                        /\ \A i \in Id : Replayed(hist, records[i], disk[i], missed, i, p, last_applied)
        BY <1>4, <2>2, <3>6 DEF Position
      <4>2. missed \in SUBSET (1..last_applied) /\ p \in Nat
        BY <4>1, Bounds
      <4> QED BY <3>1, <3>3, <3>4, <4>1, <4>2, PrefixKeeps
    <3>7. ASSUME Settled PROVE \A i \in Id : Agreed(hist', records[i], missed, i, Reached)
      <4>1. \A i \in Id : Agreed(hist, records[i], missed, i, Reached)
        BY <1>4, <2>2, <3>7 DEF Position
      <4> QED BY <1>2, <3>1, <3>3, <3>4, <4>1, PrefixKeeps
    <3> QED BY <3>5, <3>6, <3>7
  <2>3. Settled' = Settled
    BY <1>1 DEF Settled
  <2> QED BY <1>1, <2>1, <2>2, <2>3 DEF Position, StateAt
<1>7. MissedOnlyPruned'
  <2>1. ASSUME ~ forked', NEW s \in missed PROVE s <= pruned' \/ hist'[s].kind \in Undecodable
    <3>1. s \in 1..Reached
      BY <1>2
    <3>2. s <= pruned \/ hist[s].kind \in Undecodable
      BY <1>4, <2>1 DEF MissedOnlyPruned
    <3> QED BY <1>1, <1>2, <1>4, <2>1, <3>1, <3>2
  <2> QED BY <1>1, <2>1 DEF MissedOnlyPruned
<1> QED BY <1>3, <1>5, <1>6, <1>7

(* The follower starts from its copy: nothing is missed yet.               *)
LEMMA FreshInv == ASSUME Inv, Shapes', Join \/ FollowerRestart PROVE Inv'
<1> USE DEF Inv
<1>1. /\ last_applied' = 0 /\ missed' = {} /\ records' = disk' /\ delta' = <<>> /\ pc' # "absent"
      /\ Reached' = seed' /\ hist' = hist /\ last_seq' = last_seq /\ forked' = forked /\ pruned' = pruned
  <2>1. CASE Join
    <3>1. last_applied = 0 /\ missed = {} /\ delta = <<>>
      BY <2>1 DEF Join, InOrder, Position, Shapes, TypeOK
    <3>2. seed' \in Nat /\ last_applied' = 0
      BY <2>1, <3>1, Bounds DEF Join
    <3> QED BY <2>1, <3>1, <3>2 DEF Join, leaderVars, faultVars, Reached
  <2>2. CASE FollowerRestart
    <3>1. seed' \in Nat /\ last_applied' = 0
      BY <2>2, Bounds DEF FollowerRestart
    <3> QED BY <2>2, <3>1 DEF FollowerRestart, leaderVars, Reached
  <2> QED BY <2>1, <2>2
<1>2. ~ forked => /\ seed' <= last_seq /\ disk' = StateOf(hist, seed')
  <2>1. CASE Join
    BY <2>1, Bounds DEF Join, StateAt
  <2>2. CASE FollowerRestart
    BY <2>2, Bounds DEF FollowerRestart, Grounded, Position, StateAt
  <2> QED BY <2>1, <2>2
<1>3. seed' \in Nat
  BY ReplicationAssumption DEF Shapes, TypeOK
<1>4. InOrder' /\ MissedOnlyPruned'
  BY <1>1 DEF InOrder, MissedOnlyPruned
<1>5. Grounded'
  BY <1>1, <1>2 DEF Grounded
<1>6. Position'
  BY <1>1, <1>2 DEF Position, StateAt, Agreed
<1> QED BY <1>4, <1>5, <1>6

(* A delta is fetched.                                                     *)
LEMMA FetchInv == ASSUME Inv, Shapes', FetchOk PROVE Inv'
<1> USE DEF Inv
<1>1. /\ UNCHANGED <<leaderVars, copyVars, faultVars>> /\ delta' = WalDelta(NextSeq)
      /\ pc # "absent" /\ pc' # "absent" /\ delta = <<>>
  BY DEF FetchOk, Shapes, TypeOK
<1>2. /\ last_seq' = last_seq /\ hist' = hist /\ pruned' = pruned /\ forked' = forked
      /\ last_applied' = last_applied /\ records' = records /\ disk' = disk /\ seed' = seed
      /\ missed' = missed /\ Reached' = Reached /\ Settled' = Settled
  BY <1>1 DEF leaderVars, copyVars, faultVars, Reached, Settled
<1>3. NextSeq \in Nat \ {0} /\ NextSeq = last_applied + 1
  BY Bounds DEF NextSeq
<1>4. Position' /\ MissedOnlyPruned'
  BY <1>2 DEF Position, MissedOnlyPruned, StateAt
<1>5. ~ forked => Reached <= last_seq /\ ~ (0 < last_applied /\ last_applied < seed)
  BY <1>1 DEF Grounded
<1>6. CASE delta' = <<>>
  <2>1. DOMAIN delta' = {}
    BY <1>6
  <2>2. InOrder'
    BY <1>1, <1>2, <1>6, <2>1 DEF InOrder
  <2>3. Grounded'
    BY <1>2, <1>5, <1>6, <2>1 DEF Grounded
  <2> QED BY <1>4, <2>2, <2>3
<1>7. CASE delta' # <<>>
  <2>1. PICK lo \in NextSeq..last_seq : delta' = Stretch(lo) /\ (lo = NextSeq \/ lo = pruned + 1)
    BY <1>1, <1>3, <1>7, DeltaIs
  <2>2. lo \in 1..last_seq /\ last_applied < lo /\ lo \in Nat
    BY <1>3, <2>1, Bounds
  <2>3. /\ DOMAIN delta' = 1..(last_seq + 1 - lo) /\ Len(delta') = last_seq + 1 - lo
        /\ \A k \in DOMAIN delta' : /\ delta'[k].seq = lo + k - 1 /\ delta'[k].op = hist[lo + k - 1]
                                    /\ lo + k - 1 \in 1..last_seq
    BY <2>1, <2>2, StretchFacts
  <2>4. 1 \in DOMAIN delta' /\ delta'[1].seq = lo /\ Len(delta') \in DOMAIN delta' /\ delta'[Len(delta')].seq = last_seq
    <3>1. last_seq \in Nat /\ last_seq + 1 - lo \in 1..(last_seq + 1 - lo) /\ 1 \in 1..(last_seq + 1 - lo)
      BY <2>2, Bounds
    <3>2. lo + 1 - 1 = lo /\ lo + (last_seq + 1 - lo) - 1 = last_seq
      BY <2>2, <3>1
    <3>3. delta'[1].seq = lo + 1 - 1 /\ delta'[Len(delta')].seq = lo + (last_seq + 1 - lo) - 1
      BY <2>3, <3>1
    <3> QED BY <2>3, <3>1, <3>2, <3>3
  <2>5. InOrder'
    <3>1. \A k \in DOMAIN delta' : delta'[k].seq = delta'[1].seq + k - 1
      BY <2>3, <2>4
    <3> QED BY <1>1, <1>2, <1>3, <2>1, <2>2, <2>4, <3>1, Bounds, SMTT(40) DEF InOrder
  <2>6. Grounded'
    <3>1. ASSUME NEW k \in DOMAIN delta' PROVE delta'[k].seq <= last_seq /\ delta'[k].op = hist[delta'[k].seq]
      BY <2>3, Bounds
    <3> QED BY <1>2, <1>5, <2>4, <3>1, Bounds DEF Grounded
  <2> QED BY <1>4, <2>5, <2>6
<1> QED BY <1>6, <1>7

(* A record of a delta is applied, or passed over.                         *)
LEMMA ApplyInv == ASSUME Inv, Shapes', ApplyRecord PROVE Inv'
<1> USE DEF Inv
<1> DEFINE r == Head(delta)
           q == r.seq
           reads == r.op.kind \notin Undecodable
<1>1. /\ delta # <<>> /\ pc = "apply" /\ pc' = "apply"
      /\ records' = IF reads THEN ApplyOperation(records, r.op, q) ELSE records
      /\ last_applied' = q /\ delta' = Tail(delta)
      /\ missed' = missed \cup (Reached + 1)..(q - 1) \cup (IF reads THEN {} ELSE {q})
      /\ disk' = disk /\ seed' = seed /\ last_seq' = last_seq /\ hist' = hist /\ pruned' = pruned
      /\ forked' = forked
  BY DEF ApplyRecord, leaderVars, faultVars
<1>2. /\ r = delta[1] /\ Len(delta) \in Nat \ {0} /\ DOMAIN delta = 1..Len(delta)
      /\ q \in 1..MaxSeq /\ q \in Nat /\ r.op \in Operation
      /\ DOMAIN delta' = 1..(Len(delta) - 1) /\ Len(delta') = Len(delta) - 1
      /\ \A k \in DOMAIN delta' : delta'[k] = delta[k + 1] /\ k + 1 \in DOMAIN delta
      /\ delta' \in Seq(DeltaRecords)
  BY <1>1, DeltaHead, Bounds
<1> HIDE DEF r, q, reads
<1>3. /\ \A k \in DOMAIN delta : delta[k].seq = q + k - 1
      /\ last_applied < q /\ (q = last_applied + 1 \/ q <= pruned + 1)
      /\ missed \subseteq 1..Reached
  BY <1>1, <1>2 DEF InOrder, q
<1>4. Reached' \in Nat /\ q <= Reached' /\ Reached <= Reached' /\ Reached' = IF q > seed THEN q ELSE seed
  BY <1>1, <1>2, <1>3, Bounds DEF Reached
<1>5. missed' \subseteq 1..Reached' /\ (Reached + 1)..(q - 1) \subseteq 1..(q - 1) /\ 1..Reached \subseteq 1..Reached'
  <2>0. Reached \in Nat /\ q \in Nat
    BY <1>2, Bounds
  <2>1. (Reached + 1)..(q - 1) \subseteq 1..(q - 1) /\ 1..Reached \subseteq 1..Reached'
    BY <1>4, <2>0
  <2>2. 1..(q - 1) \subseteq 1..Reached' /\ q \in 1..Reached'
    BY <1>2, <1>4
  <2> QED BY <1>1, <1>3, <2>1, <2>2
<1>6. /\ \A k \in DOMAIN delta' : delta'[k].seq = (q + 1) + k - 1
      /\ delta' # <<>> => delta'[1].seq = q + 1
  <2>1. \A k \in DOMAIN delta' : delta'[k].seq = (q + 1) + k - 1
    BY <1>2, <1>3, SMTT(40)
  <2>2. delta' # <<>> => 1 \in DOMAIN delta'
    BY <1>2
  <2> QED BY <1>2, <2>1, <2>2
<1>7. InOrder'
  <2>1. \A k \in DOMAIN delta' : delta'[k].seq = delta'[1].seq + k - 1
    <3>1. ASSUME NEW k \in DOMAIN delta' PROVE delta' # <<>>
      BY <1>2
    <3> QED BY <1>6, <3>1
  <2> QED BY <1>1, <1>2, <1>5, <1>6, <2>1, SMTT(40) DEF InOrder
<1>8. ASSUME ~ forked PROVE q \in 1..last_seq /\ r.op = hist[q] /\ q \in 1..Len(hist) /\ seed <= last_seq
  <2>1. 1 \in DOMAIN delta
    BY <1>2
  <2>2. q <= last_seq /\ r.op = hist[q] /\ Reached <= last_seq
    BY <1>2, <1>8, <2>1 DEF Grounded, q
  <2> QED BY <1>2, <2>2, Bounds
<1>9. Grounded'
  <2>1. SUFFICES ASSUME ~ forked
                 PROVE  /\ Reached' <= last_seq
                        /\ \A k \in DOMAIN delta' : /\ delta'[k].seq <= last_seq
                                                    /\ delta'[k].op = hist[delta'[k].seq]
                        /\ delta' # <<>> => seed <= delta'[Len(delta')].seq
                        /\ 0 < q /\ q < seed => delta' # <<>> /\ delta'[1].seq = q + 1
    BY <1>1 DEF Grounded
  <2>2. Reached' <= last_seq
    BY <1>4, <1>8, <2>1, Bounds
  <2>3. \A k \in DOMAIN delta' : delta'[k].seq <= last_seq /\ delta'[k].op = hist[delta'[k].seq]
    BY <1>2, <2>1 DEF Grounded
  <2>4. seed <= delta[Len(delta)].seq /\ delta[Len(delta)].seq = q + Len(delta) - 1
    <3>1. Len(delta) \in DOMAIN delta
      BY <1>2
    <3> QED BY <1>1, <1>3, <2>1, <3>1 DEF Grounded
  <2>5. ASSUME delta' # <<>> PROVE seed <= delta'[Len(delta')].seq
    <3>1. Len(delta') \in DOMAIN delta' /\ Len(delta') + 1 = Len(delta)
      BY <1>2, <2>5
    <3> QED BY <1>2, <2>4, <3>1
  <2>6. ASSUME q < seed PROVE delta' # <<>>
    <3>1. Len(delta) > 1
      BY <1>2, <2>4, <2>6, Bounds
    <3>2. Len(delta') # 0
      BY <1>2, <3>1
    <3> QED BY <3>2
  <2> QED BY <1>6, <2>2, <2>3, <2>5, <2>6
<1>10. MissedOnlyPruned'
  <2>1. ASSUME ~ forked, NEW s \in missed' PROVE s <= pruned \/ hist[s].kind \in Undecodable
    <3>1. CASE s \in missed
      BY <2>1, <3>1 DEF MissedOnlyPruned
    <3>2. CASE s \in (Reached + 1)..(q - 1)
      BY <1>2, <1>3, <3>2, Bounds, SMTT(40)
    <3>3. CASE s = q /\ ~ reads
      BY <1>8, <2>1, <3>3 DEF reads
    <3> QED BY <1>1, <2>1, <3>1, <3>2, <3>3
  <2> QED BY <1>1, <2>1 DEF MissedOnlyPruned
<1>11. Position'
  <2>1. SUFFICES ASSUME ~ forked
                 PROVE  /\ q < seed =>
                             \E p \in 0..(q - 1) :
                                 /\ missed' \subseteq (p + 1)..q
                                 /\ \A i \in Id : Replayed(hist, records'[i], disk[i], missed', i, p, q)
                        /\ q >= seed => \A i \in Id : Agreed(hist, records'[i], missed', i, q)
    <3>1. disk' = disk /\ last_applied' # 0 /\ (q >= seed => Reached' = q) /\ (Settled' <=> q >= seed)
      BY <1>1, <1>2, <1>4, Bounds DEF Settled
    <3> QED BY <1>1, <3>1 DEF Position, StateAt
  <2>2. /\ hist \in History /\ q \in 1..Len(hist) /\ reads \in BOOLEAN /\ records \in Records
        /\ r.op = hist[q] /\ disk \in Records /\ \A i \in Id : disk[i] \in Entry
        /\ records' = IF reads THEN ApplyOperation(records, hist[q], q) ELSE records
        /\ records' \in Records /\ \A i \in Id : records'[i] \in Entry
    <3>1. hist \in History /\ records \in Records /\ disk \in Records
      BY Bounds
    <3>2. records' \in Records
      BY DEF Shapes, TypeOK
    <3>3. \A i \in Id : disk[i] \in Entry /\ records'[i] \in Entry
      BY <3>1, <3>2 DEF Records, Entry
    <3> QED BY <1>1, <1>8, <2>1, <3>1, <3>2, <3>3 DEF reads
  <2>3. CASE q <= seed
    <3>1. (Reached + 1)..(q - 1) = {} /\ missed' = missed \cup (IF reads THEN {} ELSE {q})
      BY <1>1, <1>2, <2>3, Bounds
    <3>2. PICK p \in 0..(q - 1) :
              /\ missed \in SUBSET ((p + 1)..(q - 1))
              /\ \A i \in Id : Replayed(hist, records[i], disk[i], missed, i, p, q - 1)
      <4>1. CASE last_applied = 0
        <5>1. missed = {} /\ records = disk
          BY <4>1 DEF Position
        <5>2. q - 1 \in 0..(q - 1) /\ ((q - 1) + 1)..(q - 1) = {}
          BY <1>2
        <5>3. \A i \in Id : Replayed(hist, records[i], disk[i], missed, i, q - 1, q - 1)
          BY <5>1, <5>2 DEF Replayed
        <5> QED BY <5>1, <5>2, <5>3
      <4>2. CASE last_applied # 0
        <5>1. 0 < last_applied /\ last_applied < seed
          BY <1>2, <1>3, <2>3, <4>2, Bounds
        <5>2. q = last_applied + 1
          BY <1>2, <2>1, <5>1 DEF Grounded, q
        <5>3. q - 1 = last_applied /\ last_applied - 1 \in Nat
          BY <5>1, <5>2, Bounds
        <5>4. PICK p \in 0..(last_applied - 1) :
                 /\ missed \subseteq (p + 1)..last_applied
                 /\ \A i \in Id : Replayed(hist, records[i], disk[i], missed, i, p, last_applied)
          BY <2>1, <5>1 DEF Position
        <5>5. p \in 0..(q - 1)
          BY <5>3, <5>4, Bounds
        <5> QED BY <5>3, <5>4, <5>5
      <4> QED BY <4>1, <4>2
    <3>3. \A i \in Id : Replayed(hist, records'[i], disk[i], missed', i, p, q)
      BY <2>2, <3>1, <3>2, ReplayStep
    <3>4. missed' \subseteq (p + 1)..q
      BY <1>2, <3>1, <3>2
    <3>5. ASSUME q >= seed PROVE \A i \in Id : Agreed(hist, records'[i], missed', i, q)
      <4>1. q = seed
        BY <1>2, <2>3, <3>5, Bounds
      <4>2. disk = StateOf(hist, q)
        BY <2>1, <4>1 DEF Position, StateAt
      <4> QED BY <2>2, <3>3, <4>2, ReplayEnd
    <3> QED BY <3>3, <3>4, <3>5
  <2>4. CASE q > seed
    <3>1. Settled /\ Reached \in 0..(q - 1)
      <4>1. Reached \in 0..(q - 1)
        BY <1>2, <1>3, <2>4, Bounds
      <4>2. ASSUME 0 < last_applied, last_applied < seed PROVE FALSE
        <5>1. q = last_applied + 1
          BY <1>2, <2>1, <4>2 DEF Grounded, q
        <5> QED BY <2>4, <4>2, <5>1, Bounds
      <4> QED BY <4>1, <4>2, Bounds DEF Settled
    <3>2. \A i \in Id : Agreed(hist, records[i], missed, i, Reached)
      BY <2>1, <3>1 DEF Position
    <3>3. \A i \in Id : Agreed(hist, records'[i], missed', i, q)
      BY <1>1, <1>3, <2>2, <3>1, <3>2, AgreeStep
    <3> QED BY <1>2, <2>4, <3>3, Bounds
  <2>5. q <= seed \/ q > seed
    BY <1>2, Bounds
  <2> QED BY <2>3, <2>4, <2>5
<1> QED BY <1>7, <1>9, <1>10, <1>11

LEMMA InvInit == Init => Inv
<1> SUFFICES ASSUME Init PROVE Inv
  OBVIOUS
<1>1. NoRecords \in Records /\ StateOf(<<>>, 0) = NoRecords
  <2>1. <<>> \in History /\ 0 \in 0..Len(<<>>)
    BY ReplicationAssumption DEF History
  <2> QED BY <2>1, NoRecordsType, StateFacts
<1>2. Shapes
  <2>1. hist \in Seq(Operation) /\ Len(hist) = 0 /\ delta \in Seq(DeltaRecords) /\ todo \in Seq({"shared", "own"})
    BY DEF Init
  <2>2. (pruned + 1)..last_seq = {} /\ DOMAIN wal = {} /\ wal = [s \in {} |-> hist[s]]
    BY DEF Init
  <2>3. wal = [s \in (pruned + 1)..last_seq |-> hist[s]]
    BY <2>2
  <2>4. TypeOK
    <3>1. last_seq \in 0..MaxSeq /\ pruned \in 0..last_seq /\ last_applied \in 0..MaxSeq /\ seed \in 0..MaxSeq
      BY ReplicationAssumption DEF Init
    <3>2. attempt \in 0..(MaxRetries - 1)
      BY DEF Init, MaxRetries
    <3>3. fails \in 0..MaxFail /\ restarts \in 0..MaxRestart /\ losses \in 0..MaxPowerLoss
      BY ReplicationAssumption DEF Init
    <3>4. Len(hist) = last_seq /\ DOMAIN wal = (pruned + 1)..last_seq
      BY <2>1, <2>2 DEF Init
    <3> QED BY <1>1, <2>1, <3>1, <3>2, <3>3, <3>4 DEF TypeOK, Init
  <2> QED BY <2>1, <2>3, <2>4 DEF Shapes
<1>3. Reached = 0 /\ last_applied = 0 /\ seed = 0 /\ missed = {} /\ DOMAIN delta = {} /\ delta = <<>>
      /\ records = disk /\ last_seq = 0
  BY DEF Init, Reached
<1>4. InOrder /\ Grounded /\ MissedOnlyPruned
  BY <1>3 DEF InOrder, Grounded, MissedOnlyPruned
<1>5. Position
  <2>1. disk = StateOf(hist, 0) /\ records = StateOf(hist, 0)
    BY <1>1 DEF Init
  <2> QED BY <1>3, <2>1 DEF Position, StateAt, Agreed
<1> QED BY <1>2, <1>4, <1>5 DEF Inv

LEMMA InvStep == Inv /\ [Next]_vars => Inv'
<1> SUFFICES ASSUME Inv, [Next]_vars PROVE Inv'
  OBVIOUS
<1>1. CASE UNCHANGED vars
  BY <1>1 DEF vars, leaderVars, loopVars, copyVars, faultVars, Inv, Shapes, TypeOK, InOrder, Grounded,
              Position, MissedOnlyPruned, Reached, Settled, StateAt
<1>2. CASE Next
  <2>1. Shapes'
    BY <1>2, ShapesStep DEF Inv
  <2>2. CASE \E op \in Operation : LeaderWrite(op)
    BY <2>1, <2>2, WriteKeeps, KeepsInv DEF Inv
  <2>3. CASE \E n \in 1..MaxSeq : LeaderPrune(n)
    <3>1. \A n \in 1..MaxSeq : n \in Nat
      BY ReplicationAssumption
    <3> QED BY <2>1, <2>3, <3>1, CutKeeps, KeepsInv DEF Inv
  <2>4. CASE \E n \in 0..MaxSeq : LeaderPowerLoss(n)
    <3>1. \A n \in 0..MaxSeq : n \in Nat
      BY ReplicationAssumption
    <3> QED BY <2>1, <2>4, <3>1, CutKeeps, KeepsInv DEF Inv
  <2>5. CASE Join \/ FollowerRestart
    BY <2>1, <2>5, FreshInv
  <2>6. CASE Poll \/ FetchError \/ ApplyDone
    BY <2>1, <2>6, LoopKeeps, KeepsInv DEF Inv
  <2>7. CASE FetchOk
    BY <2>1, <2>7, FetchInv
  <2>8. CASE ApplyRecord
    BY <2>1, <2>8, ApplyInv
  <2> QED BY <1>2, <2>2, <2>3, <2>4, <2>5, <2>6, <2>7, <2>8 DEF Next, LoopStep
<1> QED BY <1>1, <1>2

LEMMA InvHolds == Spec => []Inv
BY InvInit, InvStep, PTL DEF Spec

-----------------------------------------------------------------------------
(* Theorems.                                                               *)

(* The follower's loop, its delta and the leader's log keep their types:   *)
(* the log is exactly the seqs after what a checkpoint pruned.             *)
THEOREM ReplicationTypeCorrect == Spec => []TypeOK
<1>1. Inv => TypeOK
  BY DEF Inv, Shapes
<1> QED BY <1>1, InvHolds, PTL

(* A follower passes over an operation only if the leader had pruned it    *)
(* before it was asked for it, or if the follower cannot read it, whatever *)
(* fails or restarts, as long as the leader does not lose what the         *)
(* follower already has.                                                   *)
THEOREM ReplicationMissedOnlyPruned == Spec => []MissedOnlyPruned
<1>1. Inv => MissedOnlyPruned
  BY DEF Inv
<1> QED BY <1>1, InvHolds, PTL

(* A follower's record is the leader's at the follower's position, unless  *)
(* an operation on it was missed and no full write has come since.         *)
THEOREM ReplicationAgreesAtPosition == Spec => []AgreesAtPosition
<1>1. Inv => AgreesAtPosition
  BY DEF Inv, Position, Agreed, WholeTo, AgreesAtPosition, Whole, StateAt
<1> QED BY <1>1, InvHolds, PTL

==============================================================================
