--------------------------- MODULE RaftNodeProofs ---------------------------
(***************************************************************************)
(* What a node guarantees for every number of terms and entries, every     *)
(* payload and every order of openraft's calls, if the process does not    *)
(* die between the two transactions of a purge.                            *)
(***************************************************************************)
EXTENDS RaftNode, Recursion, SequenceTheorems, TLAPS

NoCrashInPurge == "purging" \notin CrashAt

(* The last index that is purged, as ImplementsLogStore sees it.           *)
Purged == PurgedId.index

(* The entries go without a gap from the purged log id to n.               *)
EndsAt(n) == n \in Purged..MaxIndex /\ DOMAIN log_table = (Purged + 1)..n

(* What an entry's argument can be, and the states that entries lead to.   *)
Args == {p[2] : p \in Payload}

Machine == [nodes : SUBSET Args, leaders : SUBSET Args, collections : SUBSET Args,
            membership : Nat, last_applied : Nat]

Types ==
    /\ log_table \in [DOMAIN log_table -> LogEntry]
    /\ vote_table \in Term \cup {0}
    /\ state_table \in [term : Term \cup {0}, index : 0..MaxIndex]
    /\ last_purged \in [term : Term \cup {0}, node : Nat, index : 0..MaxIndex]
    /\ purging \in [term : Term \cup {0}, node : Nat, index : 0..MaxIndex]
    /\ pc \in {"down", "up", "halted"}
    /\ agreed \in Seq(LogEntry) /\ Len(agreed) <= MaxIndex
    /\ known \in 0..Len(agreed) /\ held \in 0..Len(agreed) /\ owed \in 0..Len(agreed)
    /\ crashes \in 0..MaxCrash

StoreInv ==
    /\ \E n \in 0..MaxIndex : EndsAt(n)
    /\ purging # NoLogId => pc = "up" /\ purging.index # 0
    /\ pc # "down" /\ purging = NoLogId => state_table = Stored(last_purged)

CommitInv ==
    /\ \A i \in 1..held : i <= Purged \/ (i \in DOMAIN log_table /\ log_table[i] = agreed[i])
    /\ owed = 0 => known <= held \/ known <= Purged
    /\ owed # 0 => /\ pc = "up" /\ purging = NoLogId
                   /\ known = owed /\ sm.last_applied = owed /\ Purged < owed
                   /\ \A i \in DOMAIN log_table : i < owed
    /\ snapshot.last_log_id \in 0..known
    /\ sm.last_applied \in 0..known
-----------------------------------------------------------------------------
(* Facts about the state machine.                                          *)

(* An entry makes a state of a state, one entry further.                   *)
LEMMA ApplyEntryType ==
    ASSUME NEW s \in Machine, NEW e \in LogEntry
    PROVE  ApplyEntry(s, e) \in Machine /\ ApplyEntry(s, e).last_applied = s.last_applied + 1
<1> DEFINE p == e.payload
           at == [s EXCEPT !.last_applied = @ + 1]
<1>1. p \in Payload /\ p[2] \in Args /\ p[1] \in PayloadKinds
  BY RaftNodeAssumption DEF LogEntry, Args
<1>2. at \in Machine /\ at.last_applied = s.last_applied + 1
  BY DEF Machine
<1> HIDE DEF p, at
<1>3. CASE p[1] = "Blank"
  BY <1>2, <1>3 DEF ApplyEntry, p, at
<1>4. CASE p[1] = "Membership"
  <2>1. ApplyEntry(s, e) = [at EXCEPT !.membership = at.last_applied]
    BY <1>4 DEF ApplyEntry, p, at
  <2> QED BY <1>2, <2>1 DEF Machine
<1>5. CASE p[1] \notin {"Blank", "Membership"}
  <2>1. ApplyEntry(s, e) = ApplyOperation(at, p)
    BY <1>5 DEF ApplyEntry, p, at
  <2>2. /\ ApplyOperation(at, p) \in Machine
        /\ ApplyOperation(at, p).last_applied = at.last_applied
    <3>1. p[1] \in {"AddNode", "RemoveNode", "AddCollection", "RemoveCollection",
                    "TransferLeadership"}
      BY <1>1, <1>5 DEF PayloadKinds
    <3>2. CASE p[1] = "AddNode"
      BY <1>1, <1>2, <3>2 DEF ApplyOperation, Machine
    <3>3. CASE p[1] = "RemoveNode"
      BY <1>1, <1>2, <3>3 DEF ApplyOperation, Machine
    <3>4. CASE p[1] = "AddCollection"
      BY <1>1, <1>2, <3>4 DEF ApplyOperation, Machine
    <3>5. CASE p[1] = "RemoveCollection"
      BY <1>1, <1>2, <3>5 DEF ApplyOperation, Machine
    <3>6. CASE p[1] = "TransferLeadership"
      BY <1>1, <1>2, <3>6 DEF ApplyOperation, Machine
    <3> QED BY <3>1, <3>2, <3>3, <3>4, <3>5, <3>6
  <2> QED BY <1>2, <2>1, <2>2
<1> QED BY <1>3, <1>4, <1>5

(* g is the way from s through the first m entries of es.                  *)
Path(g, s, es, m) ==
    /\ g \in [0..m -> Machine] /\ g[0] = s
    /\ \A k \in 1..m : g[k] = ApplyEntry(g[k - 1], es[k])

(* ApplyAll takes a way through all entries.                               *)
LEMMA ApplyAllPath ==
    ASSUME NEW s \in Machine, NEW es, NEW m \in Nat, Len(es) = m,
           \A k \in 1..m : es[k] \in LogEntry
    PROVE  \E g : Path(g, s, es, m) /\ g[m] = ApplyAll(s, es)
<1> DEFINE H == [x \in (1..m) \X Machine |-> ApplyEntry(x[2], es[x[1]])]
           after[k \in 0..m] == IF k = 0 THEN s ELSE ApplyEntry(after[k - 1], es[k])
<1>1. H \in [(1..m) \X Machine -> Machine]
  BY ApplyEntryType
<1>2. \A k \in 1..m, t \in Machine : H[<<k, t>>] = ApplyEntry(t, es[k])
  OBVIOUS
<1> HIDE DEF H, after
<1>3. PICK g : Recurs(g, m, Machine, s, H)
  BY <1>1, RecursiveFunction
<1>4. Path(g, s, es, m)
  <2>1. \A k \in 1..m : k - 1 \in 0..m /\ g[k - 1] \in Machine
    BY <1>3 DEF Recurs
  <2> QED BY <1>2, <1>3, <2>1 DEF Recurs, Path
<1>5. g = [k \in 0..m |-> IF k = 0 THEN s ELSE ApplyEntry(g[k - 1], es[k])]
  BY <1>4 DEF Path
<1>6. after = [k \in 0..m |-> IF k = 0 THEN s ELSE ApplyEntry(after[k - 1], es[k])]
  BY <1>5 DEF after
<1>7. \A k \in 0..m : after[k] = g[k]
  <2> DEFINE T == {k \in 0..m : after[k] = g[k]}
  <2>1. 0 \in T
    BY <1>4, <1>6 DEF Path
  <2>2. \A k \in 1..m : k - 1 \in T => k \in T
    BY <1>4, <1>6 DEF Path
  <2> HIDE DEF T
  <2>3. \A k \in 0..m : k \in T
    BY <2>1, <2>2, IntervalInduction
  <2> QED BY <2>3 DEF T
<1>8. ApplyAll(s, es) = after[m]
  BY DEF ApplyAll, after
<1> QED BY <1>4, <1>7, <1>8

(* So any way through all entries ends where ApplyAll does.                *)
LEMMA ApplyAllIs ==
    ASSUME NEW s \in Machine, NEW es, NEW m \in Nat, Len(es) = m,
           \A k \in 1..m : es[k] \in LogEntry,
           NEW g, Path(g, s, es, m)
    PROVE  ApplyAll(s, es) = g[m]
<1>1. PICK h : Path(h, s, es, m) /\ h[m] = ApplyAll(s, es)
  BY ApplyAllPath
<1> DEFINE T == {k \in 0..m : h[k] = g[k]}
<1>2. 0 \in T
  BY <1>1 DEF Path
<1>3. \A k \in 1..m : k - 1 \in T => k \in T
  BY <1>1 DEF Path
<1> HIDE DEF T
<1>4. \A k \in 0..m : k \in T
  BY <1>2, <1>3, IntervalInduction
<1> QED BY <1>1, <1>4 DEF T

(* The states that the committed log leads to.                             *)
LEMMA AgreedPath ==
    ASSUME agreed \in Seq(LogEntry)
    PROVE  \E g : /\ Path(g, NewSm, agreed, Len(agreed))
                  /\ \A n \in 0..Len(agreed) : StateAfter(n) = g[n] /\ g[n].last_applied = n
<1> DEFINE m == Len(agreed)
<1>1. NewSm \in Machine /\ NewSm.last_applied = 0 /\ m \in Nat
  BY DEF NewSm, Machine
<1>2. \A k \in 1..m : agreed[k] \in LogEntry
  OBVIOUS
<1>3. PICK g : Path(g, NewSm, agreed, m)
  BY <1>1, <1>2, ApplyAllPath
<1>4. ASSUME NEW n \in 0..m PROVE StateAfter(n) = g[n]
  <2> DEFINE es == SubSeq(agreed, 1, n)
             h == [k \in 0..n |-> g[k]]
  <2>1. Len(es) = n /\ n \in Nat /\ \A k \in 1..n : es[k] = agreed[k] /\ es[k] \in LogEntry
    BY <1>1, <1>2
  <2> HIDE DEF es
  <2>2. Path(h, NewSm, es, n)
    <3>1. h \in [0..n -> Machine] /\ h[0] = NewSm
      BY <1>1, <1>3 DEF Path
    <3>2. ASSUME NEW k \in 1..n PROVE h[k] = ApplyEntry(h[k - 1], es[k])
      <4>1. k \in 1..m /\ h[k] = g[k] /\ h[k - 1] = g[k - 1]
        BY <1>1
      <4> HIDE DEF h
      <4> QED BY <1>3, <2>1, <4>1 DEF Path
    <3> QED BY <3>1, <3>2 DEF Path
  <2>3. h[n] = g[n]
    BY <2>1
  <2> HIDE DEF h
  <2>4. ApplyAll(NewSm, es) = h[n]
    BY <1>1, <2>1, <2>2, ApplyAllIs
  <2> QED BY <2>3, <2>4 DEF StateAfter, es
<1>5. \A n \in 0..m : g[n].last_applied = n
  <2> DEFINE T == {n \in 0..m : g[n].last_applied = n}
  <2>1. 0 \in T
    BY <1>1, <1>3 DEF Path
  <2>2. ASSUME NEW n \in 1..m, n - 1 \in T PROVE n \in T
    <3>1. g[n] = ApplyEntry(g[n - 1], agreed[n]) /\ g[n - 1] \in Machine
      BY <1>1, <1>3 DEF Path
    <3>2. g[n].last_applied = g[n - 1].last_applied + 1
      BY <1>2, <3>1, ApplyEntryType
    <3> QED BY <2>2, <3>2
  <2> HIDE DEF T
  <2>3. \A n \in 0..m : n \in T
    BY <1>1, <2>1, <2>2, IntervalInduction
  <2> QED BY <2>3 DEF T
<1> QED BY <1>3, <1>4, <1>5

(* Every prefix of the committed log leads to a state at its end, and      *)
(* sending that state as a snapshot gives it back.                         *)
LEMMA StateAfterFacts ==
    ASSUME agreed \in Seq(LogEntry), NEW n \in 0..Len(agreed)
    PROVE  /\ StateAfter(n) \in Machine /\ StateAfter(n).last_applied = n
           /\ Installed(SnapshotOf(StateAfter(n))) = StateAfter(n)
           /\ SnapshotOf(StateAfter(n)).last_log_id = n
<1>1. StateAfter(n) \in Machine /\ StateAfter(n).last_applied = n
  BY AgreedPath DEF Path
<1>2. \A s \in Machine : Installed(SnapshotOf(s)) = s
  BY DEF Machine, Installed, SnapshotOf
<1>3. SnapshotOf(StateAfter(n)).last_log_id = n
  BY <1>1 DEF SnapshotOf
<1> QED BY <1>1, <1>2, <1>3

(* Applying the next committed entries leads from prefix to prefix.        *)
LEMMA ApplyExtends ==
    ASSUME agreed \in Seq(LogEntry), NEW a \in 0..Len(agreed), NEW n \in a..Len(agreed),
           NEW es, Len(es) = n - a, \A k \in 1..(n - a) : es[k] = agreed[a + k]
    PROVE  ApplyAll(StateAfter(a), es) = StateAfter(n)
<1>1. PICK g : /\ Path(g, NewSm, agreed, Len(agreed))
               /\ \A k \in 0..Len(agreed) : StateAfter(k) = g[k]
  BY AgreedPath
<1> DEFINE m == n - a
           h == [k \in 0..m |-> g[a + k]]
<1>2. m \in Nat /\ Len(agreed) \in Nat /\ h[0] = g[a] /\ h[m] = g[n] /\ g[a] \in Machine
  BY <1>1 DEF Path
<1>3. Path(h, g[a], es, m)
  <2>1. h \in [0..m -> Machine]
    <3>1. \A k \in 0..m : a + k \in 0..Len(agreed)
      BY <1>2
    <3>2. \A k \in 0..m : g[a + k] \in Machine
      BY <1>1, <3>1 DEF Path
    <3> QED BY <3>2
  <2>2. ASSUME NEW k \in 1..m PROVE h[k] = ApplyEntry(h[k - 1], es[k])
    <3>1. /\ a + k \in 1..Len(agreed) /\ h[k] = g[a + k] /\ h[k - 1] = g[(a + k) - 1]
          /\ es[k] = agreed[a + k]
      BY <1>2
    <3> HIDE DEF h
    <3> QED BY <1>1, <3>1 DEF Path
  <2> HIDE DEF h
  <2> QED BY <1>2, <2>1, <2>2 DEF Path
<1>4. \A k \in 1..m : es[k] \in LogEntry
  BY <1>2
<1> HIDE DEF h
<1>5. ApplyAll(g[a], es) = h[m]
  BY <1>2, <1>3, <1>4, ApplyAllIs, ZenonT(60)
<1> QED BY <1>1, <1>2, <1>5

(* What the cluster commits later does not change what it committed.       *)
LEMMA AgreeExtends ==
    ASSUME agreed \in Seq(LogEntry), NEW e \in LogEntry, agreed' = Append(agreed, e),
           NEW n \in 0..Len(agreed)
    PROVE  StateAfter(n)' = StateAfter(n)
<1>1. \A k \in 1..Len(agreed) : agreed'[k] = agreed[k]
  OBVIOUS
<1>2. agreed' \in Seq(LogEntry) /\ Len(agreed') = Len(agreed) + 1
  OBVIOUS
<1>3. SubSeq(agreed', 1, n) = SubSeq(agreed, 1, n)
  BY <1>1, <1>2
<1> QED BY <1>3 DEF StateAfter

-----------------------------------------------------------------------------
(* Facts about the log.                                                    *)

LEMMA EmptyLog ==
    ASSUME Types PROVE log_table = <<>> <=> DOMAIN log_table = {}
<1>1. log_table = [i \in DOMAIN log_table |-> log_table[i]]
  BY DEF Types
<1> QED BY <1>1

(* get_log_state reports the end of the log, or the purged log id.         *)
LEMMA LastLog ==
    ASSUME Types, Serving, NEW n \in Nat, EndsAt(n)
    PROVE  /\ LastLogId.index = n /\ Store!LastLogId.index = n
           /\ Purged = last_purged.index
<1>1. Purged = last_purged.index /\ Purged \in Nat /\ n >= Purged /\ n \in 0..MaxIndex
  BY RaftNodeAssumption DEF Serving, Purged, PurgedId, Stored, EndsAt, Types
<1>2. CASE n = Purged
  <2>1. DOMAIN log_table = {} /\ log_table = <<>>
    BY <1>1, <1>2, EmptyLog DEF EndsAt
  <2>2. LastLogId.index = n
    BY <1>1, <1>2, <2>1 DEF LastLogId, FindLastLogId
  <2>3. Store!IsLast(0, DOMAIN log_table) /\ \A k : Store!IsLast(k, DOMAIN log_table) => k = 0
    BY <2>1 DEF Store!IsLast
  <2>4. Store!LastLogId = PurgedId
    BY <1>1, <2>3 DEF Store!LastLogId
  <2> QED BY <1>1, <1>2, <2>2, <2>4 DEF Purged
<1>3. CASE n > Purged
  <2>1. n \in DOMAIN log_table /\ \A i \in DOMAIN log_table : i <= n
    BY <1>1, <1>3 DEF EndsAt
  <2>2. \A k \in DOMAIN log_table : (\A i \in DOMAIN log_table : i <= k) => k = n
    BY <1>1, <2>1 DEF EndsAt
  <2>3. (CHOOSE k \in DOMAIN log_table : \A i \in DOMAIN log_table : i <= k) = n
    BY <2>1, <2>2
  <2>4. log_table # <<>>
    BY <2>1, EmptyLog
  <2>5. FindLastLogId = FullLogId(log_table[n].term, n)
    BY <2>3, <2>4 DEF FindLastLogId
  <2>6. LastLogId.index = n
    BY <1>1, <1>3, <2>5 DEF LastLogId, FullLogId, NoLogId
  <2>7. Store!IsLast(n, DOMAIN log_table) /\ \A k \in 0..MaxIndex :
           Store!IsLast(k, DOMAIN log_table) => k = n
    BY <1>1, <2>1, <2>2 DEF Store!IsLast
  <2>8. (CHOOSE k \in 0..MaxIndex : Store!IsLast(k, DOMAIN log_table)) = n
    BY <1>1, <2>7
  <2>9. Store!LastLogId.index = n
    <3>1. n # 0
      BY <1>1, <1>3
    <3>2. Store!LastLogId = [term |-> log_table[n].term, index |-> n]
      BY <2>8, <3>1 DEF Store!LastLogId
    <3> QED BY <3>2
  <2> QED BY <1>1, <2>6, <2>9
<1> QED BY <1>1, <1>2, <1>3

(* The lengths of the batches that are appended.                           *)
LEMMA BatchLength ==
    ASSUME NEW es \in UNION {[1..k -> LogEntry] : k \in 1..MaxBatch}
    PROVE  Len(es) \in Nat \ {0} /\ \A k \in 1..Len(es) : es[k] \in LogEntry
<1>1. PICK k \in 1..MaxBatch : es \in [1..k -> LogEntry]
  OBVIOUS
<1>2. k \in Nat \ {0}
  BY RaftNodeAssumption
<1>3. es \in Seq(LogEntry) /\ Len(es) = k
  BY <1>1, <1>2
<1> QED BY <1>2, <1>3

-----------------------------------------------------------------------------
(* The steps.                                                              *)

(* Every step keeps the variables in their types.                          *)
LEMMA TypesStep == Types /\ StoreInv /\ CommitInv /\ [Next]_vars => Types'
<1> SUFFICES ASSUME Types, StoreInv, CommitInv, [Next]_vars PROVE Types'
  OBVIOUS
<1> USE RaftNodeAssumption
<1>1. CASE Start
  BY <1>1 DEF Start, OpenStore, Loaded, Types, NoLogId
<1>2. CASE BuildSnapshot
  BY <1>2 DEF BuildSnapshot, storeVars, Types
<1>3. CASE EndPurge
  BY <1>3 DEF EndPurge, SaveState, Stored, raftVars, Types, NoLogId, LogEntry
<1>4. CASE Crash
  <2>1. Len(agreed) \in Nat /\ 0 \in 0..Len(agreed) /\ 0 \in 0..MaxIndex
    BY DEF Types
  <2>2. /\ known' \in 0..Len(agreed') /\ held' \in 0..Len(agreed') /\ owed' \in 0..Len(agreed')
    BY <1>4, <2>1 DEF Crash, Types
  <2>4. crashes' \in 0..MaxCrash
    <3>1. crashes' = crashes + 1 /\ crashes < MaxCrash
      BY <1>4 DEF Crash
    <3>2. crashes \in 0..MaxCrash /\ MaxCrash \in Nat
      BY DEF Types
    <3> QED BY <3>1, <3>2
  <2>3. NoLogId \in [term : Term \cup {0}, node : Nat, index : 0..MaxIndex]
    BY <2>1 DEF NoLogId
  <2> QED BY <1>4, <2>2, <2>3, <2>4 DEF Crash, StoreLost, Types
<1>5. ASSUME NEW v \in Term, Vote(v) PROVE Types'
  BY <1>5 DEF Vote, VoteTxn, raftVars, Types
<1>6. ASSUME NEW es \in UNION {[1..k -> LogEntry] : k \in 1..MaxBatch}, AppendEntries(es)
      PROVE Types'
  <2>1. PICK m \in Nat : EndsAt(m)
    BY DEF StoreInv
  <2>2. LastLogId.index = m
    BY <1>6, <2>1, LastLog DEF AppendEntries
  <2>3. Len(es) \in Nat /\ \A k \in 1..Len(es) : es[k] \in LogEntry
    BY BatchLength
  <2>4. log_table' \in [DOMAIN log_table' -> LogEntry]
    <3>1. \A i \in (m + 1)..((m + 1) + Len(es) - 1) : i - (m + 1) + 1 \in 1..Len(es)
      BY <2>3
    <3> QED BY <1>6, <2>2, <2>3, <3>1 DEF AppendEntries, AppendTxn, Types
  <2> QED BY <1>6, <2>4 DEF AppendEntries, AppendTxn, raftVars, Types
<1>7. ASSUME NEW e \in LogEntry, Agree(e) PROVE Types'
  <2>1. /\ agreed' \in Seq(LogEntry) /\ Len(agreed') = Len(agreed) + 1
        /\ Len(agreed) + 1 <= MaxIndex /\ Len(agreed) \in Nat
    BY <1>7 DEF Agree, Types
  <2>2. 0..Len(agreed) \subseteq 0..Len(agreed')
    BY <2>1
  <2>3. /\ known' \in 0..Len(agreed') /\ held' \in 0..Len(agreed') /\ owed' \in 0..Len(agreed')
    BY <1>7, <2>2 DEF Agree, Types
  <2> QED BY <1>7, <2>1, <2>3 DEF Agree, storeVars, Types
<1>8. ASSUME NEW n \in 1..MaxIndex, TruncateFrom(n) PROVE Types'
  BY <1>8 DEF TruncateFrom, TruncateTxn, raftVars, Types, Restrict
<1>9. ASSUME NEW n \in 1..MaxIndex, LearnCommit(n) PROVE Types'
  <2>1. n \in 0..Len(agreed)
    BY <1>9 DEF LearnCommit, Types
  <2>2. known' \in 0..Len(agreed') /\ held' \in 0..Len(agreed')
    BY <1>9, <2>1 DEF LearnCommit, Types
  <2> QED BY <1>9, <2>2 DEF LearnCommit, storeVars, Types
<1>10. ASSUME NEW n \in 1..MaxIndex, Apply(n) PROVE Types'
  BY <1>10 DEF Apply, storeVars, Types
<1>11. ASSUME NEW n \in 1..MaxIndex, InstallSnapshot(n) PROVE Types'
  <2>1. n \in 0..Len(agreed)
    BY <1>11 DEF InstallSnapshot, Types
  <2>2. known' \in 0..Len(agreed') /\ owed' \in 0..Len(agreed')
    BY <1>11, <2>1 DEF InstallSnapshot, Types
  <2> QED BY <1>11, <2>2 DEF InstallSnapshot, storeVars, Types
<1>12. ASSUME NEW n \in 1..MaxIndex, BeginPurge(n) PROVE Types'
  <2>1. n \in 1..Len(agreed) /\ n \in 0..MaxIndex
    <3>1. n \in Nat \ {0} /\ Len(agreed) \in Nat /\ Len(agreed) <= MaxIndex
      <4>1. Len(agreed) \in Nat /\ Len(agreed) <= MaxIndex
        BY DEF Types
      <4> QED BY <4>1
    <3>2. owed <= Len(agreed) /\ snapshot.last_log_id <= known /\ known <= Len(agreed)
          /\ snapshot.last_log_id \in Int /\ known \in Int
      BY <3>1, SMTT(40) DEF Types, CommitInv
    <3>3. IF owed # 0 THEN n = owed ELSE n <= snapshot.last_log_id
      BY <1>12 DEF BeginPurge
    <3> QED BY <3>1, <3>2, <3>3
  <2>2. agreed[n] \in LogEntry
    BY <2>1, SMTT(40) DEF Types
  <2>3. FullLogId(agreed[n].term, n) \in [term : Term \cup {0}, node : Nat, index : 0..MaxIndex]
    BY <2>1, <2>2 DEF FullLogId, LogEntry
  <2>4. log_table' \in [DOMAIN log_table' -> LogEntry]
    BY <1>12 DEF BeginPurge, PurgeTxn, Restrict, Types
  <2>5. owed' \in 0..Len(agreed)
    BY <1>12 DEF BeginPurge, Types
  <2> QED BY <1>12, <2>3, <2>4, <2>5 DEF BeginPurge, PurgeTxn, Types
<1>13. CASE UNCHANGED vars
  BY <1>13 DEF vars, storeVars, Types
<1> QED BY <1>1, <1>2, <1>3, <1>4, <1>5, <1>6, <1>7, <1>8, <1>9, <1>10, <1>11,
    <1>12, <1>13 DEF Next

(* No step but the start of a purge changes the purged log id that the     *)
(* store stands by: neither a restart nor the end of the purge does.       *)
LEMMA KeepsPurgedId ==
    ASSUME NoCrashInPurge, Types, StoreInv
    PROVE  /\ Start \/ BuildSnapshot \/ EndPurge \/ Crash => PurgedId' = PurgedId
           /\ \A v : Vote(v) => PurgedId' = PurgedId
           /\ \A es : AppendEntries(es) => PurgedId' = PurgedId
           /\ \A e : Agree(e) => PurgedId' = PurgedId
           /\ \A n : TruncateFrom(n) \/ LearnCommit(n) \/ Apply(n) \/ InstallSnapshot(n)
                        => PurgedId' = PurgedId
<1>1. ASSUME Start PROVE PurgedId' = PurgedId
  <2>1. pc = "down" /\ pc' # "down" /\ purging = NoLogId /\ purging' = NoLogId
        /\ last_purged' = Loaded(state_table)
    BY <1>1 DEF Start, OpenStore, StoreInv
  <2>2. Stored(Loaded(state_table)) = state_table
    BY DEF Types, Stored, Loaded
  <2> QED BY <2>1, <2>2 DEF PurgedId
<1>2. ASSUME EndPurge PROVE PurgedId' = PurgedId
  BY <1>2 DEF EndPurge, SaveState, raftVars, PurgedId
<1>3. ASSUME Crash PROVE PurgedId' = PurgedId
  <2>1. purging = NoLogId
    BY <1>3 DEF Crash, NoCrashInPurge
  <2>2. PurgedId = state_table
    BY <1>3, <2>1 DEF Crash, StoreInv, PurgedId
  <2> QED BY <1>3, <2>2 DEF Crash, StoreLost, PurgedId
<1>4. BuildSnapshot => PurgedId' = PurgedId
  BY DEF BuildSnapshot, storeVars, PurgedId
<1>5. \A v : Vote(v) => PurgedId' = PurgedId
  BY DEF Vote, VoteTxn, raftVars, PurgedId
<1>6. \A es : AppendEntries(es) => PurgedId' = PurgedId
  BY DEF AppendEntries, AppendTxn, raftVars, PurgedId
<1>7. \A e : Agree(e) => PurgedId' = PurgedId
  BY DEF Agree, storeVars, PurgedId
<1>8. \A n : TruncateFrom(n) => PurgedId' = PurgedId
  BY DEF TruncateFrom, TruncateTxn, raftVars, PurgedId
<1>9. \A n : LearnCommit(n) => PurgedId' = PurgedId
  BY DEF LearnCommit, storeVars, PurgedId
<1>10. \A n : Apply(n) => PurgedId' = PurgedId
  BY DEF Apply, Serving, storeVars, PurgedId
<1>11. \A n : InstallSnapshot(n) => PurgedId' = PurgedId
  BY DEF InstallSnapshot, storeVars, PurgedId
<1> QED BY <1>1, <1>2, <1>3, <1>4, <1>5, <1>6, <1>7, <1>8, <1>9, <1>10, <1>11

LEMMA PurgedNat == Types => Purged \in Nat /\ MaxIndex \in Nat
BY RaftNodeAssumption DEF Types, Purged, PurgedId, Stored

(* A purge up to n leaves the entries after n.                             *)
LEMMA PurgeFacts ==
    ASSUME Types, StoreInv, NEW n \in 1..MaxIndex, BeginPurge(n)
    PROVE  /\ PurgedId' = [term |-> agreed[n].term, index |-> n]
           /\ PurgedId'.index = n /\ Purged < n
           /\ purging' # NoLogId /\ purging'.index = n /\ pc = "up" /\ pc' = "up"
           /\ DOMAIN log_table' = {i \in DOMAIN log_table : i > n}
           /\ \A i \in DOMAIN log_table' : log_table'[i] = log_table[i]
<1>1. purging' = FullLogId(agreed[n].term, n) /\ pc = "up" /\ pc' = "up"
  BY DEF BeginPurge, PurgeTxn, Serving
<1>2. purging'.index = n /\ purging' # NoLogId
  BY <1>1 DEF FullLogId, NoLogId
<1>3. PurgedId' = [term |-> agreed[n].term, index |-> n]
  BY <1>1, <1>2 DEF PurgedId, Stored, FullLogId
<1>4. Purged < n
  BY DEF BeginPurge, Serving, Purged, PurgedId, Stored
<1>5. FullLogId(agreed[n].term, n).index = n
  BY DEF FullLogId
<1>6. log_table' = [i \in {j \in DOMAIN log_table : j > n} |-> log_table[i]]
  BY <1>5 DEF BeginPurge, PurgeTxn, Restrict
<1> QED BY <1>1, <1>2, <1>3, <1>4, <1>6

(* An append goes on where the log ends.                                   *)
LEMMA AppendFacts ==
    ASSUME Types, StoreInv, NEW m \in Nat, EndsAt(m),
           NEW es \in UNION {[1..k -> LogEntry] : k \in 1..MaxBatch}, AppendEntries(es)
    PROVE  /\ m + Len(es) \in 0..MaxIndex
           /\ log_table' = [i \in DOMAIN log_table \cup (m + 1)..(m + Len(es)) |->
                               IF i > m THEN es[i - m] ELSE log_table[i]]
           /\ DOMAIN log_table' = (Purged + 1)..(m + Len(es))
<1>1. LastLogId.index = m
  BY LastLog DEF AppendEntries
<1>2. /\ Len(es) \in Nat /\ Purged \in Nat /\ m \in Purged..MaxIndex
      /\ DOMAIN log_table = (Purged + 1)..m
  <2>1. Purged \in Nat
    BY DEF Types, Purged, PurgedId, Stored
  <2> QED BY <2>1, BatchLength DEF EndsAt
<1>3. m + Len(es) <= MaxIndex
  BY <1>1 DEF AppendEntries
<1>4. log_table' = [i \in DOMAIN log_table \cup (m + 1)..(m + 1 + Len(es) - 1) |->
                       IF i \in (m + 1)..(m + 1 + Len(es) - 1) THEN es[i - (m + 1) + 1]
                       ELSE log_table[i]]
  BY <1>1 DEF AppendEntries, AppendTxn
<1>5. m + 1 + Len(es) - 1 = m + Len(es)
  BY <1>2
<1>6. \A i \in DOMAIN log_table \cup (m + 1)..(m + Len(es)) :
         /\ i \in (m + 1)..(m + Len(es)) <=> i > m
         /\ i - (m + 1) + 1 = i - m
  BY <1>2
<1>7. log_table' = [i \in DOMAIN log_table \cup (m + 1)..(m + Len(es)) |->
                       IF i > m THEN es[i - m] ELSE log_table[i]]
  BY <1>4, <1>5, <1>6
<1>8. DOMAIN log_table \cup (m + 1)..(m + Len(es)) = (Purged + 1)..(m + Len(es))
  BY <1>2
<1>9. MaxIndex \in Nat
  BY RaftNodeAssumption
<1> QED BY <1>2, <1>3, <1>7, <1>8, <1>9

(* A step that leaves the log and the purged log id alone leaves the log   *)
(* without a gap.                                                          *)
LEMMA SameLog ==
    ASSUME log_table' = log_table, PurgedId' = PurgedId, \E n \in 0..MaxIndex : EndsAt(n)
    PROVE  (\E n \in 0..MaxIndex : EndsAt(n))'
BY DEF EndsAt, Purged

(* Every step keeps the log without a gap, and the purged log id known.    *)
LEMMA StoreStep == NoCrashInPurge /\ Types /\ StoreInv /\ CommitInv /\ [Next]_vars => StoreInv'
<1> SUFFICES ASSUME NoCrashInPurge, Types, StoreInv, CommitInv, [Next]_vars PROVE StoreInv'
  OBVIOUS
<1>1. CASE Start
  <2>1. log_table' = log_table
    BY <1>1 DEF Start, storeVars, OpenStore
  <2>2. PurgedId' = PurgedId
    BY <1>1, KeepsPurgedId
  <2>3. (\E n \in 0..MaxIndex : EndsAt(n))'
    BY <2>1, <2>2, SameLog DEF StoreInv
  <2>4. Stored(Loaded(state_table)) = state_table
    BY DEF Types, Stored, Loaded
  <2> QED BY <1>1, <2>3, <2>4 DEF Start, OpenStore, StoreInv
<1>2. CASE BuildSnapshot
  <2>1. log_table' = log_table
    BY <1>2 DEF BuildSnapshot, storeVars
  <2>2. PurgedId' = PurgedId
    BY <1>2, KeepsPurgedId
  <2>3. (\E n \in 0..MaxIndex : EndsAt(n))'
    BY <2>1, <2>2, SameLog DEF StoreInv
  <2> QED BY <1>2, <2>3 DEF BuildSnapshot, storeVars, StoreInv
<1>3. CASE EndPurge
  <2>1. log_table' = log_table
    BY <1>3 DEF EndPurge, storeVars, SaveState, raftVars
  <2>2. PurgedId' = PurgedId
    BY <1>3, KeepsPurgedId
  <2>3. (\E n \in 0..MaxIndex : EndsAt(n))'
    BY <2>1, <2>2, SameLog DEF StoreInv
  <2> QED BY <1>3, <2>3 DEF EndPurge, storeVars, SaveState, raftVars, StoreInv
<1>4. CASE Crash
  <2>1. log_table' = log_table
    BY <1>4 DEF Crash, storeVars, StoreLost
  <2>2. PurgedId' = PurgedId
    BY <1>4, KeepsPurgedId
  <2>3. (\E n \in 0..MaxIndex : EndsAt(n))'
    BY <2>1, <2>2, SameLog DEF StoreInv
  <2> QED BY <1>4, <2>3 DEF Crash, storeVars, StoreLost, StoreInv
<1>5. ASSUME NEW v \in Term, Vote(v) PROVE StoreInv'
  <2>1. log_table' = log_table
    BY <1>5 DEF Vote, storeVars, VoteTxn, raftVars
  <2>2. PurgedId' = PurgedId
    BY <1>5, KeepsPurgedId
  <2>3. (\E n \in 0..MaxIndex : EndsAt(n))'
    BY <2>1, <2>2, SameLog DEF StoreInv
  <2> QED BY <1>5, <2>3 DEF Vote, storeVars, VoteTxn, raftVars, StoreInv
<1>6. ASSUME NEW es \in UNION {[1..k -> LogEntry] : k \in 1..MaxBatch}, AppendEntries(es)
      PROVE StoreInv'
  <2>1. PICK m \in Nat : EndsAt(m)
    BY RaftNodeAssumption DEF StoreInv
  <2>2. PurgedId' = PurgedId
    BY <1>6, KeepsPurgedId
  <2>3. EndsAt(m + Len(es))'
    <3>1. Purged \in Nat /\ Len(es) \in Nat /\ MaxIndex \in Nat
      BY BatchLength, PurgedNat
    <3>2. m + Len(es) \in Purged..MaxIndex
      <4>1. m \in Purged..MaxIndex /\ m + Len(es) \in 0..MaxIndex
        BY <1>6, <2>1, AppendFacts DEF EndsAt
      <4> QED BY <3>1, <4>1
    <3>3. DOMAIN log_table' = (Purged + 1)..(m + Len(es))
      BY <1>6, <2>1, AppendFacts
    <3> QED BY <2>2, <3>2, <3>3 DEF EndsAt, Purged
  <2>4. m + Len(es) \in 0..MaxIndex
    BY <1>6, <2>1, AppendFacts
  <2> QED BY <1>6, <2>3, <2>4 DEF AppendEntries, AppendTxn, raftVars, StoreInv
<1>7. ASSUME NEW e \in LogEntry, Agree(e) PROVE StoreInv'
  <2>1. log_table' = log_table
    BY <1>7 DEF Agree, storeVars
  <2>2. PurgedId' = PurgedId
    BY <1>7, KeepsPurgedId
  <2>3. (\E n \in 0..MaxIndex : EndsAt(n))'
    BY <2>1, <2>2, SameLog DEF StoreInv
  <2> QED BY <1>7, <2>3 DEF Agree, storeVars, StoreInv
<1>8. ASSUME NEW n \in 1..MaxIndex, TruncateFrom(n) PROVE StoreInv'
  <2>1. PICK m \in 0..MaxIndex : EndsAt(m)
    BY DEF StoreInv
  <2>2. PurgedId' = PurgedId /\ Purged \in Nat /\ MaxIndex \in Nat
    BY <1>8, KeepsPurgedId, PurgedNat
  <2>3. n \in (Purged + 1)..m /\ DOMAIN log_table' = {i \in (Purged + 1)..m : i < n}
    BY <1>8, <2>1 DEF TruncateFrom, TruncateTxn, Restrict, EndsAt
  <2>4. n - 1 \in Purged..MaxIndex /\ n - 1 \in 0..MaxIndex
        /\ {i \in (Purged + 1)..m : i < n} = (Purged + 1)..(n - 1)
    BY <2>2, <2>3
  <2>5. EndsAt(n - 1)'
    BY <2>2, <2>3, <2>4 DEF EndsAt, Purged
  <2> QED BY <1>8, <2>4, <2>5 DEF TruncateFrom, TruncateTxn, raftVars, StoreInv
<1>9. ASSUME NEW n \in 1..MaxIndex, LearnCommit(n) PROVE StoreInv'
  <2>1. log_table' = log_table
    BY <1>9 DEF LearnCommit, storeVars
  <2>2. PurgedId' = PurgedId
    BY <1>9, KeepsPurgedId
  <2>3. (\E m \in 0..MaxIndex : EndsAt(m))'
    BY <2>1, <2>2, SameLog DEF StoreInv
  <2> QED BY <1>9, <2>3 DEF LearnCommit, storeVars, StoreInv
<1>10. ASSUME NEW n \in 1..MaxIndex, Apply(n) PROVE StoreInv'
  <2>1. log_table' = log_table
    BY <1>10 DEF Apply, storeVars, Serving
  <2>2. PurgedId' = PurgedId
    BY <1>10, KeepsPurgedId
  <2>3. (\E m \in 0..MaxIndex : EndsAt(m))'
    BY <2>1, <2>2, SameLog DEF StoreInv
  <2> QED BY <1>10, <2>3 DEF Apply, storeVars, Serving, StoreInv
<1>11. ASSUME NEW n \in 1..MaxIndex, InstallSnapshot(n) PROVE StoreInv'
  <2>1. log_table' = log_table
    BY <1>11 DEF InstallSnapshot, storeVars
  <2>2. PurgedId' = PurgedId
    BY <1>11, KeepsPurgedId
  <2>3. (\E m \in 0..MaxIndex : EndsAt(m))'
    BY <2>1, <2>2, SameLog DEF StoreInv
  <2> QED BY <1>11, <2>3 DEF InstallSnapshot, storeVars, StoreInv
<1>12. ASSUME NEW n \in 1..MaxIndex, BeginPurge(n) PROVE StoreInv'
  <2>1. PICK m \in 0..MaxIndex : EndsAt(m)
    BY DEF StoreInv
  <2>2. /\ Purged' = n /\ Purged < n /\ DOMAIN log_table' = {i \in DOMAIN log_table : i > n}
        /\ purging' # NoLogId /\ purging'.index = n /\ pc' = "up"
    BY <1>12, PurgeFacts DEF Purged
  <2> DEFINE last == IF n < m THEN m ELSE n
  <2>3. Purged \in Nat /\ MaxIndex \in Nat /\ DOMAIN log_table = (Purged + 1)..m
    BY <2>1, PurgedNat DEF EndsAt
  <2>4. last \in n..MaxIndex /\ last \in 0..MaxIndex
        /\ {i \in (Purged + 1)..m : i > n} = (n + 1)..last
    BY <2>2, <2>3
  <2> HIDE DEF last
  <2>5. EndsAt(last)'
    BY <2>2, <2>3, <2>4 DEF EndsAt
  <2>6. n # 0
    OBVIOUS
  <2> QED BY <2>2, <2>4, <2>5, <2>6 DEF StoreInv
<1>13. CASE UNCHANGED vars
  BY <1>13 DEF vars, storeVars, StoreInv, EndsAt, Purged, PurgedId
<1> QED BY <1>1, <1>2, <1>3, <1>4, <1>5, <1>6, <1>7, <1>8, <1>9, <1>10, <1>11,
    <1>12, <1>13 DEF Next

(* What is applied is the committed log, as far as the process knows it,   *)
(* and a hole among it is a purged one.                                    *)
LEMMA ApplyFacts ==
    ASSUME NoCrashInPurge, Types, StoreInv, CommitInv, StateMachineAgrees,
           NEW n \in 1..MaxIndex, Apply(n)
    PROVE  /\ n \in 0..known /\ n > sm.last_applied /\ owed = 0
           /\ \/ pc' = pc /\ sm' = StateAfter(n) /\ sm'.last_applied = n
              \/ pc' = "halted" /\ sm' = sm /\ state_table # Stored(NoLogId)
<1> DEFINE a == sm.last_applied
           es == [k \in 1..(n - (a + 1) + 1) |-> log_table[(a + 1) + k - 1]]
<1>1. /\ a \in Nat /\ known \in Nat /\ Len(agreed) \in Nat /\ held \in Nat /\ known <= Len(agreed)
      /\ Purged \in Nat /\ MaxIndex \in Nat
  BY PurgedNat, SMTT(40) DEF Types, CommitInv
<1>2. Serving /\ a + 1 <= n /\ n <= known
  BY DEF Apply
<1>3. owed = 0 /\ (known <= held \/ known <= Purged)
  BY <1>1, <1>2 DEF CommitInv
<1>4. \A i \in 1..known : i > Purged => i \in DOMAIN log_table /\ log_table[i] = agreed[i]
  BY <1>1, <1>3 DEF CommitInv
<1>5. CASE ReadLogEntries(a + 1, n) = (a + 1)..n
  <2>1. pc' = pc /\ sm' = ApplyAll(sm, es)
    BY <1>5 DEF Apply
  <2>2. n \in a..Len(agreed) /\ a \in 0..Len(agreed) /\ n \in 0..Len(agreed)
    BY <1>1, <1>2
  <2>3. es = [k \in 1..(n - a) |-> log_table[a + k]]
    BY <1>1
  <2>4. ASSUME NEW k \in 1..(n - a) PROVE es[k] = agreed[a + k]
    <3>1. a + k \in (a + 1)..n /\ a + k \in 1..known
      BY <1>1, <1>2
    <3>2. a + k \in DOMAIN log_table
      BY <1>5, <3>1 DEF ReadLogEntries
    <3>3. a + k > Purged
      BY <1>1, <3>1, <3>2, SMTT(40) DEF StoreInv, EndsAt
    <3> QED BY <1>4, <2>3, <3>1, <3>3
  <2>5. Len(es) = n - a
    <3>1. n - a \in Nat
      BY <1>1, <1>2
    <3>2. \A k \in 1..(n - a) : es[k] \in LogEntry
      <4>1. \A k \in 1..(n - a) : a + k \in 1..Len(agreed)
        BY <1>1, <1>2
      <4>2. \A i \in 1..Len(agreed) : agreed[i] \in LogEntry
        BY DEF Types
      <4> HIDE DEF es
      <4> QED BY <2>4, <4>1, <4>2
    <3>3. es \in [1..(n - a) -> LogEntry]
      <4> HIDE DEF es
      <4>1. es = [k \in 1..(n - a) |-> es[k]]
        BY <2>3
      <4> QED BY <3>2, <4>1
    <3> HIDE DEF es
    <3>4. es \in Seq(LogEntry) /\ Len(es) = n - a
      BY <3>1, <3>3
    <3> QED BY <3>4
  <2>6. agreed \in Seq(LogEntry) /\ sm = StateAfter(a)
    BY DEF Types, StateMachineAgrees
  <2> HIDE DEF es, a
  <2>7. ApplyAll(StateAfter(a), es) = StateAfter(n)
    BY <2>2, <2>4, <2>5, <2>6, ApplyExtends
  <2>8. StateAfter(n).last_applied = n
    BY <2>2, <2>6, StateAfterFacts
  <2> QED BY <1>1, <1>2, <1>3, <2>1, <2>6, <2>7, <2>8 DEF a
<1>6. CASE ReadLogEntries(a + 1, n) # (a + 1)..n
  <2>1. pc' = "halted" /\ sm' = sm
    BY <1>6 DEF Apply
  <2>2. PICK i \in (a + 1)..n : i \notin DOMAIN log_table
    BY <1>6 DEF ReadLogEntries
  <2>3. i <= Purged /\ Purged # 0
    BY <1>1, <1>2, <1>4, <2>2
  <2>4. Purged = state_table.index
    BY <1>2 DEF Serving, StoreInv, Purged, PurgedId
  <2>5. state_table # Stored(NoLogId)
    BY <2>3, <2>4 DEF Stored, NoLogId
  <2> QED BY <1>1, <1>2, <1>3, <2>1, <2>5 DEF a
<1> QED BY <1>5, <1>6

(* What an installed snapshot brings.                                      *)
LEMMA InstallFacts ==
    ASSUME Types, StoreInv, NEW n \in 1..MaxIndex, InstallSnapshot(n)
    PROVE  /\ sm' = StateAfter(n) /\ sm'.last_applied = n /\ snapshot'.last_log_id = n
           /\ Purged < n /\ \A i \in DOMAIN log_table : i < n
<1>1. n \in 0..Len(agreed) /\ agreed \in Seq(LogEntry)
  BY DEF InstallSnapshot, Types
<1>2. sm' = Installed(SnapshotOf(StateAfter(n)))
  <2>1. snapshot' = SnapshotOf(StateAfter(n)) /\ sm' = Installed(snapshot')
    BY DEF InstallSnapshot
  <2> QED BY <2>1
<1>3. sm' = StateAfter(n) /\ sm'.last_applied = n /\ snapshot'.last_log_id = n
  BY <1>1, <1>2, StateAfterFacts DEF InstallSnapshot
<1>4. PICK m \in 0..MaxIndex : EndsAt(m)
  BY DEF StoreInv
<1>5. MaxIndex \in Nat /\ Purged \in Nat /\ m \in Nat
  BY PurgedNat
<1>6. LastLogId.index = m
  BY <1>4, <1>5, LastLog DEF InstallSnapshot
<1>7. m < n
  BY <1>5, <1>6 DEF InstallSnapshot
<1>8. m >= Purged /\ DOMAIN log_table = (Purged + 1)..m
  BY <1>4 DEF EndsAt
<1> QED BY <1>3, <1>5, <1>7, <1>8

(* Every step keeps what the node has stored of the committed log.         *)
LEMMA CommitStep == NoCrashInPurge /\ Types /\ StoreInv /\ CommitInv /\ StateMachineAgrees /\ [Next]_vars => CommitInv'
<1> SUFFICES ASSUME NoCrashInPurge, Types, StoreInv, CommitInv, StateMachineAgrees, [Next]_vars PROVE CommitInv'
  OBVIOUS
<1>1. CASE Start
  <2>1. Purged' = Purged /\ log_table' = log_table
    BY <1>1, KeepsPurgedId DEF Purged, Start, OpenStore
  <2> QED BY <1>1, <2>1 DEF Start, OpenStore, CommitInv
<1>2. CASE BuildSnapshot
  <2>1. Purged' = Purged
    BY <1>2, KeepsPurgedId DEF Purged
  <2>2. snapshot'.last_log_id \in 0..known
    BY <1>2 DEF BuildSnapshot, SnapshotOf, CommitInv
  <2> QED BY <1>2, <2>1, <2>2 DEF BuildSnapshot, storeVars, CommitInv
<1>3. CASE EndPurge
  <2>1. Purged' = Purged /\ log_table' = log_table
    BY <1>3, KeepsPurgedId DEF Purged, EndPurge, SaveState, raftVars
  <2> QED BY <1>3, <2>1 DEF EndPurge, SaveState, raftVars, CommitInv
<1>4. CASE Crash
  <2>1. Purged' = Purged
    BY <1>4, KeepsPurgedId DEF Purged
  <2>2. snapshot'.last_log_id = 0 /\ sm'.last_applied = 0
    BY <1>4 DEF Crash, SnapshotOf, NewSm
  <2>3. held \in Nat
    BY DEF Types
  <2> QED BY <1>4, <2>1, <2>2, <2>3 DEF Crash, StoreLost, CommitInv
<1>5. ASSUME NEW v \in Term, Vote(v) PROVE CommitInv'
  <2>1. Purged' = Purged /\ log_table' = log_table
    BY <1>5, KeepsPurgedId DEF Purged, Vote, VoteTxn, raftVars
  <2> QED BY <1>5, <2>1 DEF Vote, VoteTxn, raftVars, CommitInv
<1>6. ASSUME NEW es \in UNION {[1..k -> LogEntry] : k \in 1..MaxBatch}, AppendEntries(es)
      PROVE CommitInv'
  <2>1. PICK m \in Nat : EndsAt(m)
    BY RaftNodeAssumption DEF StoreInv
  <2>2. Purged' = Purged
    BY <1>6, KeepsPurgedId DEF Purged
  <2>3. \A i \in DOMAIN log_table : i \in DOMAIN log_table' /\ log_table'[i] = log_table[i]
    <3>1. \A i \in DOMAIN log_table : ~ (i > m)
      BY <2>1, PurgedNat DEF EndsAt
    <3> QED BY <1>6, <2>1, <3>1, AppendFacts
  <2> QED BY <1>6, <2>2, <2>3 DEF AppendEntries, AppendTxn, raftVars, CommitInv
<1>7. ASSUME NEW e \in LogEntry, Agree(e) PROVE CommitInv'
  <2>1. Purged' = Purged
    BY <1>7, KeepsPurgedId DEF Purged
  <2>2. \A i \in 1..held : agreed'[i] = agreed[i]
    BY <1>7, SMTT(40) DEF Agree, Types
  <2> QED BY <1>7, <2>1, <2>2 DEF Agree, storeVars, CommitInv
<1>8. ASSUME NEW n \in 1..MaxIndex, TruncateFrom(n) PROVE CommitInv'
  <2>1. Purged' = Purged
    BY <1>8, KeepsPurgedId DEF Purged
  <2>2. \A i \in 1..held : i < n
    BY <1>8 DEF TruncateFrom, Types
  <2>3. \A i \in DOMAIN log_table : i < n => i \in DOMAIN log_table' /\ log_table'[i] = log_table[i]
    BY <1>8 DEF TruncateFrom, TruncateTxn, Restrict
  <2> QED BY <1>8, <2>1, <2>2, <2>3 DEF TruncateFrom, TruncateTxn, raftVars, CommitInv
<1>9. ASSUME NEW n \in 1..MaxIndex, LearnCommit(n) PROVE CommitInv'
  <2>1. Purged' = Purged /\ Purged = last_purged.index
    BY <1>9, KeepsPurgedId DEF Purged, LearnCommit, Serving, PurgedId, Stored
  <2>2. /\ owed = 0 /\ n > known /\ known' = n /\ held' = (IF n > held THEN n ELSE held)
        /\ UNCHANGED <<log_table, agreed, sm, snapshot, owed>>
    BY <1>9 DEF LearnCommit, storeVars
  <2>3. \A i \in 1..n : i <= Purged \/ (i \in DOMAIN log_table /\ log_table[i] = agreed[i])
    BY <1>9, <2>1, PurgedNat DEF LearnCommit, MatchesUpTo
  <2>4. known \in Nat /\ held \in Nat
    BY DEF Types
  <2> QED BY <2>1, <2>2, <2>3, <2>4 DEF CommitInv
<1>10. ASSUME NEW n \in 1..MaxIndex, Apply(n) PROVE CommitInv'
  <2>1. Purged' = Purged
    BY <1>10, KeepsPurgedId DEF Purged
  <2>2. owed = 0 /\ sm'.last_applied \in 0..known
    BY <1>10, ApplyFacts DEF CommitInv
  <2> QED BY <1>10, <2>1, <2>2 DEF Apply, storeVars, CommitInv
<1>11. ASSUME NEW n \in 1..MaxIndex, InstallSnapshot(n) PROVE CommitInv'
  <2>1. Purged' = Purged
    BY <1>11, KeepsPurgedId DEF Purged
  <2>2. /\ sm'.last_applied = n /\ snapshot'.last_log_id = n /\ Purged < n
        /\ \A i \in DOMAIN log_table : i < n
    BY <1>11, InstallFacts
  <2>3. n \in 0..n /\ n # 0
    OBVIOUS
  <2> QED BY <1>11, <2>1, <2>2, <2>3 DEF InstallSnapshot, Serving, storeVars, CommitInv
<1>12. ASSUME NEW n \in 1..MaxIndex, BeginPurge(n) PROVE CommitInv'
  <2>1. /\ Purged' = n /\ Purged < n /\ DOMAIN log_table' = {i \in DOMAIN log_table : i > n}
        /\ \A i \in DOMAIN log_table' : log_table'[i] = log_table[i]
    BY <1>12, PurgeFacts DEF Purged
  <2>2. /\ owed' = 0 /\ (owed # 0 => n = owed)
        /\ UNCHANGED <<known, sm, snapshot, agreed, held>>
    BY <1>12 DEF BeginPurge
  <2>3. known \in Nat /\ held \in Nat /\ Purged \in Nat
    BY PurgedNat DEF Types
  <2>4. \A i \in 1..held : i <= n \/ (i \in DOMAIN log_table' /\ log_table'[i] = agreed[i])
    BY <2>1, <2>3 DEF CommitInv
  <2>5. known <= held \/ known <= n
    BY <2>1, <2>2, <2>3 DEF CommitInv
  <2> QED BY <2>1, <2>2, <2>4, <2>5 DEF CommitInv
<1>13. CASE UNCHANGED vars
  BY <1>13 DEF vars, storeVars, CommitInv, Purged, PurgedId
<1> QED BY <1>1, <1>2, <1>3, <1>4, <1>5, <1>6, <1>7, <1>8, <1>9, <1>10, <1>11,
    <1>12, <1>13 DEF Next

(* Every step keeps the state machine at what the committed log says.      *)
LEMMA StateStep == NoCrashInPurge /\ Types /\ StoreInv /\ CommitInv /\ StateMachineAgrees /\ [Next]_vars => StateMachineAgrees'
<1> SUFFICES ASSUME NoCrashInPurge, Types, StoreInv, CommitInv, StateMachineAgrees, [Next]_vars PROVE StateMachineAgrees'
  OBVIOUS
<1>1. CASE Start
  BY <1>1 DEF Start, StateMachineAgrees, StateAfter
<1>2. CASE BuildSnapshot
  BY <1>2 DEF BuildSnapshot, StateMachineAgrees, StateAfter
<1>3. CASE EndPurge
  BY <1>3 DEF EndPurge, raftVars, StateMachineAgrees, StateAfter
<1>4. CASE Crash
  <2>1. agreed \in Seq(LogEntry) /\ 0 \in 0..Len(agreed)
    BY DEF Types
  <2>2. StateAfter(0) = NewSm
    BY <2>1, AgreedPath DEF Path
  <2>3. sm' = NewSm /\ sm'.last_applied = 0 /\ agreed' = agreed
    BY <1>4 DEF Crash, NewSm
  <2> QED BY <2>2, <2>3 DEF StateMachineAgrees, StateAfter
<1>5. ASSUME NEW v \in Term, Vote(v) PROVE StateMachineAgrees'
  BY <1>5 DEF Vote, raftVars, StateMachineAgrees, StateAfter
<1>6. ASSUME NEW es \in UNION {[1..k -> LogEntry] : k \in 1..MaxBatch}, AppendEntries(es)
      PROVE StateMachineAgrees'
  BY <1>6 DEF AppendEntries, raftVars, StateMachineAgrees, StateAfter
<1>7. ASSUME NEW e \in LogEntry, Agree(e) PROVE StateMachineAgrees'
  <2>1. agreed \in Seq(LogEntry) /\ agreed' = Append(agreed, e) /\ sm' = sm
    BY <1>7 DEF Agree, Types
  <2>2. sm.last_applied \in 0..Len(agreed)
    BY SMTT(40) DEF Types, CommitInv
  <2>3. StateAfter(sm.last_applied)' = StateAfter(sm.last_applied)
    <3> DEFINE n == sm.last_applied
    <3>1. SubSeq(agreed', 1, n) = SubSeq(agreed, 1, n)
      BY <2>1, <2>2, AgreeExtends
    <3> QED BY <2>1, <3>1 DEF StateAfter
  <2> QED BY <2>1, <2>3 DEF StateMachineAgrees
<1>8. ASSUME NEW n \in 1..MaxIndex, TruncateFrom(n) PROVE StateMachineAgrees'
  BY <1>8 DEF TruncateFrom, raftVars, StateMachineAgrees, StateAfter
<1>9. ASSUME NEW n \in 1..MaxIndex, LearnCommit(n) PROVE StateMachineAgrees'
  BY <1>9 DEF LearnCommit, StateMachineAgrees, StateAfter
<1>10. ASSUME NEW n \in 1..MaxIndex, Apply(n) PROVE StateMachineAgrees'
  <2>1. sm' = sm \/ (sm' = StateAfter(n) /\ sm'.last_applied = n)
    BY <1>10, ApplyFacts
  <2> QED BY <1>10, <2>1 DEF Apply, StateMachineAgrees, StateAfter
<1>11. ASSUME NEW n \in 1..MaxIndex, InstallSnapshot(n)
      PROVE StateMachineAgrees'
  <2>1. sm' = StateAfter(n) /\ sm'.last_applied = n
    BY <1>11, InstallFacts
  <2> QED BY <1>11, <2>1 DEF InstallSnapshot, StateMachineAgrees, StateAfter
<1>12. ASSUME NEW n \in 1..MaxIndex, BeginPurge(n) PROVE StateMachineAgrees'
  BY <1>12 DEF BeginPurge, StateMachineAgrees, StateAfter
<1>13. CASE UNCHANGED vars
  BY <1>13 DEF vars, storeVars, StateMachineAgrees, StateAfter
<1> QED BY <1>1, <1>2, <1>3, <1>4, <1>5, <1>6, <1>7, <1>8, <1>9, <1>10, <1>11,
    <1>12, <1>13 DEF Next

(* Without a purge the log reaches back to its first entry, so no step halts. *)
LEMMA HaltStep == NoCrashInPurge /\ Types /\ StoreInv /\ CommitInv /\ StateMachineAgrees /\ HaltsOnlyAfterPurge /\ [Next]_vars => HaltsOnlyAfterPurge'
<1> SUFFICES ASSUME NoCrashInPurge, Types, StoreInv, CommitInv, StateMachineAgrees, HaltsOnlyAfterPurge, [Next]_vars PROVE HaltsOnlyAfterPurge'
  OBVIOUS
<1>1. CASE Start
  <2>1. PICK m \in 0..MaxIndex : EndsAt(m)
    BY DEF StoreInv
  <2> SUFFICES ASSUME state_table = Stored(NoLogId), pc' = "halted" PROVE FALSE
    BY <1>1 DEF Start, OpenStore, HaltsOnlyAfterPurge
  <2>2. Purged = 0 /\ state_table.index + 1 = 1
    <3>1. PurgedId = state_table
      BY <1>1 DEF Start, StoreInv, PurgedId
    <3> QED BY <3>1 DEF Purged, Stored, NoLogId
  <2>3. log_table # <<>> /\ 1 \notin DOMAIN log_table
    BY <1>1, <2>2 DEF Start
  <2>4. DOMAIN log_table = 1..m /\ DOMAIN log_table # {} /\ m \in Nat
    BY <2>1, <2>2, <2>3, EmptyLog, PurgedNat DEF EndsAt
  <2> QED BY <2>3, <2>4
<1>2. CASE BuildSnapshot
  BY <1>2 DEF BuildSnapshot, storeVars, HaltsOnlyAfterPurge
<1>3. CASE EndPurge
  BY <1>3 DEF EndPurge, raftVars, HaltsOnlyAfterPurge
<1>4. CASE Crash
  BY <1>4 DEF Crash, HaltsOnlyAfterPurge
<1>5. ASSUME NEW v \in Term, Vote(v) PROVE HaltsOnlyAfterPurge'
  BY <1>5 DEF Vote, VoteTxn, raftVars, HaltsOnlyAfterPurge
<1>6. ASSUME NEW es \in UNION {[1..k -> LogEntry] : k \in 1..MaxBatch}, AppendEntries(es)
      PROVE HaltsOnlyAfterPurge'
  BY <1>6 DEF AppendEntries, AppendTxn, raftVars, HaltsOnlyAfterPurge
<1>7. ASSUME NEW e \in LogEntry, Agree(e) PROVE HaltsOnlyAfterPurge'
  BY <1>7 DEF Agree, storeVars, HaltsOnlyAfterPurge
<1>8. ASSUME NEW n \in 1..MaxIndex, TruncateFrom(n) PROVE HaltsOnlyAfterPurge'
  BY <1>8 DEF TruncateFrom, TruncateTxn, raftVars, HaltsOnlyAfterPurge
<1>9. ASSUME NEW n \in 1..MaxIndex, LearnCommit(n) PROVE HaltsOnlyAfterPurge'
  BY <1>9 DEF LearnCommit, storeVars, HaltsOnlyAfterPurge
<1>10. ASSUME NEW n \in 1..MaxIndex, Apply(n) PROVE HaltsOnlyAfterPurge'
  <2>1. pc' = pc \/ state_table # Stored(NoLogId)
    BY <1>10, ApplyFacts
  <2> QED BY <1>10, <2>1 DEF Apply, Serving, storeVars, HaltsOnlyAfterPurge
<1>11. ASSUME NEW n \in 1..MaxIndex, InstallSnapshot(n)
      PROVE HaltsOnlyAfterPurge'
  BY <1>11 DEF InstallSnapshot, storeVars, HaltsOnlyAfterPurge
<1>12. ASSUME NEW n \in 1..MaxIndex, BeginPurge(n) PROVE HaltsOnlyAfterPurge'
  BY <1>12 DEF BeginPurge, PurgeTxn, HaltsOnlyAfterPurge
<1>13. CASE UNCHANGED vars
  BY <1>13 DEF vars, storeVars, HaltsOnlyAfterPurge
<1> QED BY <1>1, <1>2, <1>3, <1>4, <1>5, <1>6, <1>7, <1>8, <1>9, <1>10, <1>11,
    <1>12, <1>13 DEF Next

-----------------------------------------------------------------------------
(* The theorems.                                                           *)

Inv == Types /\ StoreInv /\ CommitInv /\ StateMachineAgrees /\ HaltsOnlyAfterPurge

LEMMA InitInv == Init => Inv
<1> SUFFICES ASSUME Init PROVE Inv
  OBVIOUS
<1>1. /\ log_table = <<>> /\ state_table = Stored(NoLogId) /\ last_purged = NoLogId
      /\ purging = NoLogId /\ pc = "down" /\ known = 0 /\ sm = NewSm
      /\ snapshot = SnapshotOf(NewSm) /\ owed = 0 /\ agreed = <<>> /\ held = 0
  BY DEF Init, StoreInit
<1>2. MaxIndex \in Nat /\ MaxCrash \in Nat /\ 0 \in 0..MaxIndex /\ Len(agreed) = 0
      /\ DOMAIN log_table = {} /\ agreed \in Seq(LogEntry)
  BY <1>1, RaftNodeAssumption
<1>3. Types
  <2>1. NoLogId \in [term : Term \cup {0}, node : Nat, index : 0..MaxIndex]
    BY <1>2 DEF NoLogId
  <2>2. state_table \in [term : Term \cup {0}, index : 0..MaxIndex]
    BY <1>1, <1>2 DEF Stored, NoLogId
  <2>3. log_table \in [DOMAIN log_table -> LogEntry]
    BY <1>1
  <2> QED BY <1>1, <1>2, <2>1, <2>2, <2>3 DEF Init, StoreInit, Types
<1>4. Purged = 0
  BY <1>1 DEF Purged, PurgedId, Stored, NoLogId
<1>5. StoreInv
  <2>1. EndsAt(0)
    BY <1>2, <1>4 DEF EndsAt
  <2> QED BY <1>1, <1>2, <2>1 DEF StoreInv
<1>6. CommitInv
  BY <1>1, <1>4 DEF CommitInv, SnapshotOf, NewSm
<1>7. StateMachineAgrees
  <2>1. StateAfter(0) = NewSm
    BY <1>2, AgreedPath DEF Path
  <2> QED BY <1>1, <2>1 DEF StateMachineAgrees, NewSm
<1>8. HaltsOnlyAfterPurge
  BY <1>1 DEF HaltsOnlyAfterPurge
<1> QED BY <1>3, <1>5, <1>6, <1>7, <1>8 DEF Inv

LEMMA InvStep == NoCrashInPurge /\ Inv /\ [Next]_vars => Inv'
BY TypesStep, StoreStep, CommitStep, StateStep, HaltStep DEF Inv

LEMMA Invariance == NoCrashInPurge => (Spec => []Inv)
<1> SUFFICES ASSUME NoCrashInPurge PROVE Spec => []Inv
  OBVIOUS
<1> QED BY InitInv, InvStep, PTL DEF Spec

(* The variables keep their types: in particular the state machine is      *)
(* never ahead of the commit index that the process has learned.           *)
THEOREM RaftTypeCorrect == NoCrashInPurge => (Spec => []TypeOK)
<1> SUFFICES ASSUME NoCrashInPurge PROVE Spec => []TypeOK
  OBVIOUS
<1>1. Inv => TypeOK
  <2> SUFFICES ASSUME Inv PROVE TypeOK
    OBVIOUS
  <2>1. Types /\ sm.last_applied \in 0..known
    BY DEF Inv, CommitInv
  <2>2. DOMAIN log_table \subseteq 1..MaxIndex
    <3>1. PICK n \in 0..MaxIndex : DOMAIN log_table = (Purged + 1)..n
      BY DEF Inv, StoreInv, EndsAt
    <3> QED BY <2>1, <3>1, PurgedNat
  <2> QED BY <2>1, <2>2 DEF Types, TypeOK
<1> QED BY <1>1, Invariance, PTL

(* redb_log_store.rs: a committed entry that the node stored is in the log *)
(* until it is purged, through crashes, restarts and truncations.          *)
THEOREM RaftNoHole == NoCrashInPurge => (Spec => []NoHole)
<1> SUFFICES ASSUME NoCrashInPurge PROVE Spec => []NoHole
  OBVIOUS
<1>1. Inv => NoHole
  <2> SUFFICES ASSUME Inv, Serving, NEW i \in 1..held
               PROVE  i <= last_purged.index \/ (i \in DOMAIN log_table /\ log_table[i] = agreed[i])
    BY DEF NoHole
  <2>1. Purged = last_purged.index
    BY DEF Serving, Purged, PurgedId, Stored
  <2> QED BY <2>1 DEF Inv, CommitInv
<1> QED BY <1>1, Invariance, PTL

(* state_machine.rs: applied in batches, replayed after a restart or       *)
(* installed from a snapshot, the state machine is what the committed log  *)
(* makes of it up to last_applied.                                         *)
THEOREM RaftStateMachineAgrees == NoCrashInPurge => (Spec => []StateMachineAgrees)
<1> SUFFICES ASSUME NoCrashInPurge PROVE Spec => []StateMachineAgrees
  OBVIOUS
<1>1. Inv => StateMachineAgrees
  BY DEF Inv
<1> QED BY <1>1, Invariance, PTL

(* A restarted node replays its log from the start; it is stopped by a     *)
(* hole only if its store has purged.                                      *)
THEOREM RaftHaltsOnlyAfterPurge == NoCrashInPurge => (Spec => []HaltsOnlyAfterPurge)
<1> SUFFICES ASSUME NoCrashInPurge PROVE Spec => []HaltsOnlyAfterPurge
  OBVIOUS
<1>1. Inv => HaltsOnlyAfterPurge
  BY DEF Inv
<1> QED BY <1>1, Invariance, PTL

-----------------------------------------------------------------------------
(* The refinement.                                                         *)

LEMMA RefinedInit == Init => Store!LogInit
BY DEF Init, StoreInit, PurgedId, Stored, NoLogId, Store!LogInit, Store!NoLogId

(* A step that changes nothing of what the in-memory store keeps.          *)
Stutter == UNCHANGED <<log_table, PurgedId, held, vote_table>>

LEMMA StutterIsStutter == Stutter => UNCHANGED Store!logVars
BY DEF Stutter, Store!logVars

(* Every step of the persistent store is one of the in-memory store, or    *)
(* none: the two transactions of a purge are one Purge, and crashes and    *)
(* reopens are not seen.                                                   *)
LEMMA RefinedStep ==
    NoCrashInPurge /\ Inv /\ [Next]_vars => [Store!LogNext]_(Store!logVars)
<1> SUFFICES ASSUME NoCrashInPurge, Inv, [Next]_vars
             PROVE  Store!LogNext \/ Stutter
  BY StutterIsStutter
<1> USE DEF Inv
<1>0. PICK m \in 0..MaxIndex : EndsAt(m)
  BY DEF StoreInv
<1>1. CASE Start
  BY <1>1, KeepsPurgedId DEF Start, OpenStore, Stutter
<1>2. CASE BuildSnapshot
  BY <1>2, KeepsPurgedId DEF BuildSnapshot, storeVars, Stutter
<1>3. CASE EndPurge
  BY <1>3, KeepsPurgedId DEF EndPurge, SaveState, raftVars, Stutter
<1>4. CASE Crash
  BY <1>4, KeepsPurgedId DEF Crash, StoreLost, Stutter
<1>5. ASSUME NEW v \in Term, Vote(v) PROVE Store!LogNext
  <2>1. Store!SaveVote(v)
    BY <1>5, KeepsPurgedId DEF Vote, VoteTxn, raftVars, Store!SaveVote
  <2> QED BY <2>1 DEF Store!LogNext
<1>6. ASSUME NEW es \in UNION {[1..k -> LogEntry] : k \in 1..MaxBatch}, AppendEntries(es)
      PROVE  Store!LogNext
  <2>1. Store!LastLogId.index = m /\ m \in Nat /\ m + Len(es) <= MaxIndex
    BY <1>0, <1>6, LastLog, PurgedNat DEF AppendEntries
  <2>2. log_table' = [i \in DOMAIN log_table \cup (m + 1)..(m + Len(es)) |->
                         IF i > m THEN es[i - m] ELSE log_table[i]]
    BY <1>0, <1>6, <2>1, AppendFacts
  <2>3. UNCHANGED <<PurgedId, held, vote_table>>
    BY <1>6, KeepsPurgedId DEF AppendEntries, AppendTxn, raftVars
  <2>4. Store!Append_(es)
    BY <2>1, <2>2, <2>3 DEF Store!Append_
  <2> QED BY <2>4 DEF Store!LogNext, Store!Batch
<1>7. ASSUME NEW e \in LogEntry, Agree(e) PROVE Stutter
  BY <1>7, KeepsPurgedId DEF Agree, storeVars, Stutter
<1>8. ASSUME NEW n \in 1..MaxIndex, TruncateFrom(n) PROVE Store!LogNext
  <2>1. Store!Truncate(n)
    BY <1>8, KeepsPurgedId DEF TruncateFrom, TruncateTxn, raftVars, Store!Truncate,
       Restrict, Store!Restrict
  <2> QED BY <2>1 DEF Store!LogNext
<1>9. ASSUME NEW n \in 1..MaxIndex, LearnCommit(n) PROVE Store!LogNext \/ Stutter
  <2>1. UNCHANGED <<log_table, PurgedId, vote_table>>
    BY <1>9, KeepsPurgedId DEF LearnCommit, storeVars
  <2>2. CASE n > held
    <3>1. n <= Store!LastLogId.index
      BY <1>0, <1>9, LastLog, PurgedNat DEF LearnCommit
    <3>2. Store!SaveCommitted(n)
      BY <1>9, <2>1, <2>2, <3>1 DEF LearnCommit, Store!SaveCommitted
    <3> QED BY <3>2 DEF Store!LogNext
  <2>3. CASE ~ (n > held)
    BY <1>9, <2>1, <2>3 DEF LearnCommit, Stutter
  <2> QED BY <2>2, <2>3
<1>10. ASSUME NEW n \in 1..MaxIndex, Apply(n) PROVE Stutter
  BY <1>10, KeepsPurgedId DEF Apply, storeVars, Stutter
<1>11. ASSUME NEW n \in 1..MaxIndex, InstallSnapshot(n) PROVE Stutter
  BY <1>11, KeepsPurgedId DEF InstallSnapshot, storeVars, Stutter
<1>12. ASSUME NEW n \in 1..MaxIndex, BeginPurge(n) PROVE Store!LogNext
  <2> DEFINE id == [term |-> agreed[n].term, index |-> n]
  <2>1. PurgedId' = id /\ Purged < n
    BY <1>12, PurgeFacts
  <2>2. m \in Nat /\ Purged \in Nat /\ known \in Nat /\ held \in Nat
    BY PurgedNat, SMTT(40) DEF Types
  <2>3. n <= held \/ (n > m /\ n = owed)
    <3>1. CASE owed # 0
      <4>1. n = owed /\ Purged < owed /\ \A i \in DOMAIN log_table : i < owed
        BY <1>12, <3>1 DEF BeginPurge, CommitInv
      <4>2. m = Purged \/ m \in DOMAIN log_table
        BY <1>0, <2>2 DEF EndsAt
      <4> QED BY <4>1, <4>2
    <3>2. CASE owed = 0
      <4>1. n <= snapshot.last_log_id /\ snapshot.last_log_id \in 0..known
        BY <1>12, <3>2 DEF BeginPurge, CommitInv
      <4>2. known <= held \/ known <= Purged
        BY <3>2 DEF CommitInv
      <4> QED BY <2>1, <2>2, <4>1, <4>2
    <3> QED BY <3>1, <3>2
  <2>4. n <= held \/ n > Store!LastLogId.index
    BY <1>0, <1>12, <2>2, <2>3, LastLog DEF BeginPurge
  <2>5. id \in Store!LogId
    <3>1. n \in 1..Len(agreed)
      <4>1. held <= Len(agreed) /\ owed <= Len(agreed) /\ Len(agreed) \in Nat
        BY DEF Types
      <4> QED BY <2>2, <2>3, <4>1
    <3>2. agreed[n] \in LogEntry
      BY <3>1 DEF Types
    <3> QED BY <3>2 DEF LogEntry, Store!LogId
  <2>6. log_table' = Restrict(log_table, {i \in DOMAIN log_table : i > n})
        /\ UNCHANGED <<held, vote_table>>
    BY <1>12 DEF BeginPurge, PurgeTxn, FullLogId
  <2>7. Store!Purge(id)
    BY <2>1, <2>4, <2>6 DEF Store!Purge, Purged, Restrict, Store!Restrict
  <2> QED BY <2>5, <2>7 DEF Store!LogNext
<1>13. CASE UNCHANGED vars
  BY <1>13 DEF vars, storeVars, PurgedId, Stutter
<1> QED BY <1>1, <1>2, <1>3, <1>4, <1>5, <1>6, <1>7, <1>8, <1>9, <1>10, <1>11, <1>12,
    <1>13 DEF Next

(* redb_log_store.rs implements log_store.rs: kept in three tables, purged *)
(* in two transactions, closed by crashes and opened again, the persistent *)
(* store does what the in-memory one does.                                 *)
THEOREM RaftImplementsLogStore == NoCrashInPurge => (Spec => ImplementsLogStore)
<1> SUFFICES ASSUME NoCrashInPurge PROVE Spec => ImplementsLogStore
  OBVIOUS
<1> QED BY RefinedInit, RefinedStep, Invariance, PTL DEF Spec, ImplementsLogStore, Store!LogSpec

=============================================================================
