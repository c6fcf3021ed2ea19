-------------------------- MODULE CollectionProofs --------------------------
(***************************************************************************)
(* What Collection guarantees for every finite set of ids, every flush and *)
(* checkpoint policy, every workload, and every choice of crash points and *)
(* failing steps.                                                          *)
(***************************************************************************)
EXTENDS Collection, FiniteSetTheorems, TLAPS

(* The steps of a checkpoint after records.bin, and after checkpoint.json. *)
AfterRecords == {"index", "imeta", "json", "segbin", "segidx", "catalog", "prune"}
AfterJson    == {"segbin", "segidx", "catalog", "prune"}

(* What a checkpoint in progress has written.                              *)
CheckpointInv ==
    /\ pc \in CheckpointSteps => Live(ver) # {}
    /\ pc \in AfterRecords => recbin.ver = ver
    /\ pc \in AfterJson => json = CheckpointMeta
    /\ pc = "prune" => flushed_seq <= max_seq_id

(* Only an unlinked file holds records that no open finds, and a handle    *)
(* that a failed checkpoint left behind goes with the process, or with the *)
(* next prune that succeeds.                                               *)
HandleInv ==
    /\ handle # "unlinked" => adrift = {}
    /\ pc \in {"down", "replay", "reopen"} => handle = "current"

(* Where the log stands: seqs are unique, a log that is open, and not      *)
(* rewound, stands at the highest seq ever handed out, and either that seq *)
(* is still in the log or the log is empty and checkpoint.json remembers   *)
(* it.  Between wal.prune and Wal::open a log with records stands there    *)
(* too, and an empty one will; a rewound log has never been checkpointed.  *)
LogInv ==
    /\ \A w, x \in wal : w.seq = x.seq => w = x
    /\ pc \notin {"down", "reopen"} /\ handle # "rewound" => last_seq = high
    /\ pc = "reopen" => json.next_seq = high + 1 /\ (wal # {} => last_seq = high)
    /\ handle = "rewound" => pc \notin AfterJson
    /\ \/ \E w \in wal : w.seq = high
       \/ wal = {} /\ pruned /\ json.next_seq = high + 1
       \/ wal = {} /\ high = 0 /\ json.record_count = 0

(* Nothing in the log is about i and above seq n.                          *)
CoveredBy(i, n) == \A w \in wal : w.id = i => w.seq <= n

(* The version that applying w leaves.                                     *)
Effect(w) == IF w.kind = "delete" THEN 0 ELSE w.seq

(* Where the version of i that may be found is.                            *)
VersionInv(i) ==
    /\ Up => ver[i] \in Allowed(i)
    /\ pc = "replay" /\ CoveredBy(i, cursor) => ver[i] \in Allowed(i)
    /\ json.record_count # 0 /\ CoveredBy(i, json.flushed_seq)
          => recbin.ver[i] \in Allowed(i)
    /\ ~pruned /\ CoveredBy(i, 0) => 0 \in Allowed(i)
    /\ \A w \in wal : w.id = i /\ CoveredBy(i, w.seq) => Effect(w) \in Allowed(i)

Inv ==
    /\ TypeOK /\ CheckpointInv /\ HandleInv
    /\ ~lost => LogInv /\ \A i \in Id : VersionInv(i)

-----------------------------------------------------------------------------
(* Facts about the operators.                                              *)

(* Nobody can find anything but the acknowledged version of an id that no  *)
(* failed batch was about.                                                 *)
LEMMA NotInDoubt == \A i \in Id \ indoubt : Allowed(i) = {store[i]}
  BY DEF Allowed, indoubt

(* Without new failed batches no id is newly in doubt.                     *)
LEMMA DoubtKept == tried' = tried => indoubt' = indoubt
  BY DEF indoubt

(* A set of ids has a natural number of elements, none if and only if it   *)
(* is empty.                                                               *)
LEMMA IdSets ==
    ASSUME NEW S \in SUBSET Id
    PROVE  /\ IsFiniteSet(S) /\ Cardinality(S) \in Nat
           /\ Cardinality(S) = 0 <=> S = {}
  BY CollectionAssumption, FS_Subset, FS_CardinalityType, FS_EmptySet

(* The appends of a batch number its ids one to one with the next seqs, so *)
(* the last of them is where the log stands afterwards.                    *)
LEMMA BatchSeqs ==
    ASSUME NEW S \in (SUBSET Id) \ {{}}, NEW q \in Seqs(S), last_seq \in Nat
    PROVE  /\ DOMAIN q = S /\ Cardinality(S) \in Nat \ {0}
           /\ q \in [S -> (last_seq + 1)..(last_seq + Cardinality(S))]
           /\ \A i, j \in S : q[i] = q[j] => i = j
           /\ \A n \in (last_seq + 1)..(last_seq + Cardinality(S)) :
                 \E i \in S : q[i] = n
  <1>1. Cardinality(S) \in Nat \ {0}
    BY IdSets
  <1> QED BY <1>1 DEF Seqs, Bijection, Injection, Surjection, IsInjective

(* flush_if_needed leaves versions in the buffer and in the index, and     *)
(* moves the watermark to one of them at most.                             *)
LEMMA FlushTypes ==
    ASSUME NEW needed, NEW h \in Nat, NEW b \in [Id -> 0..h], NEW x \in [Id -> 0..h],
           flushed_seq \in 0..h, FlushIfNeeded(needed, b, x)
    PROVE  buffer' \in [Id -> 0..h] /\ index' \in [Id -> 0..h] /\ flushed_seq' \in 0..h
  BY DEF FlushIfNeeded, FlushBuffer, None, Range, IsMax

(* Where Wal::open resumes is a seq of the log, or just below start_seq.   *)
LEMMA ResumeTypes ==
    ASSUME NEW h \in Nat, NEW start \in 0..(h + 1), NEW m \in 0..MaxSeq,
           NEW records \in SUBSET [seq : 1..h, id : Id, kind : RequestKinds],
           ResumesAt(m, records, start)
    PROVE  m \in 0..h
  BY CollectionAssumption DEF ResumesAt, IsMax

-----------------------------------------------------------------------------
(* Types.                                                                  *)

(* Every action keeps the variables in their types.                        *)
LEMMA TypeStep == TypeOK /\ [Next]_vars => TypeOK'
<1> SUFFICES ASSUME TypeOK, [Next]_vars PROVE TypeOK'
  OBVIOUS
<1> USE CollectionAssumption
<1>1. ASSUME NEW kind \in Kinds, NEW S \in (SUBSET Id) \ {{}}, Write(kind, S)
      PROVE TypeOK'
  <2>1. PICK q \in Seqs(S) :
           /\ wal' = wal \cup Appended(kind, q)
           /\ ver' = VerAfter(kind, q)
           /\ emb' = VectorsAfter(emb, kind, q)
           /\ FlushIfNeeded(kind \in {"add", "upsert"},
                            VectorsAfter(buffer, kind, q), IndexAfter(kind, q))
           /\ store' = [i \in Id |-> IF i \in S THEN ver'[i] ELSE store[i]]
           /\ vec' = VectorsAfter(vec, kind, q)
    BY <1>1 DEF Write, Ready, AppendAll
  <2>2. /\ DOMAIN q = S /\ Cardinality(S) \in Nat \ {0}
        /\ q \in [S -> (last_seq + 1)..(last_seq + Cardinality(S))]
    BY BatchSeqs DEF TypeOK
  <2>3. /\ high' \in Nat /\ high <= high' /\ last_seq' \in 0..high'
        /\ \A i \in S : q[i] \in 1..high'
    BY <1>1, <2>2 DEF Write, Ready, AppendAll, TypeOK, Larger
  <2>4. \A f \in Versions : f \in Versions' /\ VectorsAfter(f, kind, q) \in Versions'
    BY <2>2, <2>3 DEF Versions, VectorsAfter, TypeOK
  <2>5. ver' \in Versions' /\ IndexAfter(kind, q) \in Versions'
    BY <2>1, <2>2, <2>3 DEF Versions, VerAfter, IndexAfter, TypeOK
  <2>6. store' \in Versions'
    <3>1. store \in Versions'
      BY <2>4 DEF TypeOK
    <3> QED BY <2>1, <2>5, <3>1 DEF Versions
  <2>7. buffer' \in Versions' /\ index' \in Versions' /\ flushed_seq' \in 0..high'
    <3>1. flushed_seq \in 0..high'
      BY <2>3 DEF TypeOK
    <3>2. VectorsAfter(buffer, kind, q) \in Versions'
      BY <2>4 DEF TypeOK
    <3> QED BY <2>1, <2>3, <2>5, <3>1, <3>2, FlushTypes DEF Versions
  <2>8. wal' \subseteq [seq : 1..high', id : Id, kind : RequestKinds]
    BY <2>1, <2>2, <2>3 DEF TypeOK, Appended
  <2>9. /\ pc' \in Points /\ ckpts' \in Nat /\ written' \subseteq Id
        /\ tried' \in [Id -> SUBSET (0..high')]
    <3>1. pc' \in {"records", "idle"} /\ ckpts' \in {ckpts, ckpts + 1}
      BY <1>1 DEF Write, Ready, AppendAll
    <3>2. /\ written' \in {written, written \cup S}
          /\ tried' = [i \in Id |-> IF i \in S THEN {} ELSE tried[i]]
      BY <1>1 DEF Write, Ready, AppendAll
    <3>3. pc' \in Points /\ ckpts' \in Nat
      BY <3>1 DEF TypeOK, Points, CheckpointSteps
    <3>4. tried' \in [Id -> SUBSET (0..high')]
      BY <2>3, <3>2 DEF TypeOK
    <3> QED BY <3>2, <3>3, <3>4 DEF TypeOK
  <2>10. emb' \in Versions' /\ vec' \in Versions'
    BY <2>1, <2>4 DEF TypeOK
  <2>11. recbin' \in [ver : Versions', emb : Versions'] /\ idxbin' \in Versions' /\ idxmeta' \in Versions'
    BY <1>1, <2>4 DEF Write, Ready, AppendAll, ckptFiles, TypeOK
  <2>12. /\ cursor' \in Nat /\ last_checkpoint_seq' \in Nat /\ crashes' \in Nat
         /\ max_seq_id' \in 0..high'
         /\ segment_index' \in [Id -> Nat] /\ segidx' \in [Id -> Nat]
         /\ json' \in [flushed_seq : 0..high', next_seq : 0..(high' + 1), record_count : Nat]
    BY <1>1, <2>3 DEF Write, Ready, AppendAll, ckptFiles, TypeOK
  <2>13. /\ \A k \in DOMAIN segments' : segments'[k] \in 0..high'
         /\ \A k \in DOMAIN segbin' : segbin'[k] \in 0..high'
    BY <1>1, <2>3 DEF Write, Ready, AppendAll, ckptFiles, TypeOK
  <2>14. pruned' \in BOOLEAN /\ lost' \in BOOLEAN
    BY <1>1 DEF Write, Ready, AppendAll, TypeOK
  <2>15. adrift' \subseteq wal' /\ handle' \in {"current", "unlinked", "rewound"}
    BY <1>1 DEF Write, AppendAll, TypeOK
  <2> QED
    BY <2>3, <2>5, <2>6, <2>7, <2>8, <2>9, <2>10, <2>11, <2>12, <2>13, <2>14, <2>15 DEF TypeOK
<1>2. ASSUME NEW kind \in Kinds, NEW S \in (SUBSET Id) \ {{}}, WriteError(kind, S)
      PROVE TypeOK'
  <2>1. PICK q \in Seqs(S) :
           /\ wal' = wal \cup Appended(kind, q)
           /\ tried' = [i \in Id |-> IF i \in S THEN tried[i] \cup {VerAfter(kind, q)[i]}
                                               ELSE tried[i]]
    BY <1>2 DEF WriteError, Ready, AppendAll
  <2>2. /\ DOMAIN q = S /\ Cardinality(S) \in Nat \ {0}
        /\ q \in [S -> (last_seq + 1)..(last_seq + Cardinality(S))]
    BY BatchSeqs DEF TypeOK
  <2>3. /\ high' \in Nat /\ high <= high' /\ last_seq' \in 0..high'
        /\ \A i \in S : q[i] \in 1..high'
    BY <1>2, <2>2 DEF WriteError, Ready, AppendAll, TypeOK, Larger
  <2>4. \A f \in Versions : f \in Versions'
    BY <2>3 DEF Versions, TypeOK
  <2>5. wal' \subseteq [seq : 1..high', id : Id, kind : RequestKinds]
    BY <2>1, <2>2, <2>3 DEF TypeOK, Appended
  <2>6. /\ ver' \in Versions' /\ emb' \in Versions' /\ buffer' \in Versions'
        /\ index' \in Versions' /\ idxbin' \in Versions' /\ idxmeta' \in Versions'
        /\ store' \in Versions' /\ vec' \in Versions'
        /\ recbin' \in [ver : Versions', emb : Versions']
    BY <1>2, <2>4 DEF WriteError, Ready, AppendAll, ckptFiles, TypeOK
  <2>7. /\ cursor' \in Nat /\ last_checkpoint_seq' \in Nat /\ crashes' \in Nat
        /\ pc' \in Points /\ ckpts' \in Nat
        /\ flushed_seq' \in 0..high' /\ max_seq_id' \in 0..high'
        /\ segment_index' \in [Id -> Nat] /\ segidx' \in [Id -> Nat]
        /\ json' \in [flushed_seq : 0..high', next_seq : 0..(high' + 1), record_count : Nat]
    BY <1>2, <2>3 DEF WriteError, Ready, AppendAll, ckptFiles, counters, TypeOK
  <2>8. /\ \A k \in DOMAIN segments' : segments'[k] \in 0..high'
        /\ \A k \in DOMAIN segbin' : segbin'[k] \in 0..high'
    BY <1>2, <2>3 DEF WriteError, Ready, AppendAll, ckptFiles, TypeOK
  <2>9. written' \subseteq Id /\ pruned' \in BOOLEAN /\ lost' \in BOOLEAN
    BY <1>2 DEF WriteError, Ready, AppendAll, TypeOK
  <2>10. tried' \in [Id -> SUBSET (0..high')]
    <3>1. \A i \in S : VerAfter(kind, q)[i] \in 0..high'
      BY <2>2, <2>3 DEF VerAfter
    <3> QED BY <2>1, <2>3, <3>1 DEF TypeOK
  <2>11. adrift' \subseteq wal' /\ handle' \in {"current", "unlinked", "rewound"}
    BY <1>2 DEF WriteError, AppendAll, TypeOK
  <2> QED BY <2>3, <2>5, <2>6, <2>7, <2>8, <2>9, <2>10, <2>11 DEF TypeOK
<1> USE DEF Versions
<1>3. CASE BeginCheckpoint
  BY <1>3 DEF BeginCheckpoint, Ready, memVars, diskVars, logVars, ckptFiles, history, TypeOK,
     Points, CheckpointSteps
<1>4. CASE Optimize
  <2>1. buffer' \in Versions' /\ flushed_seq' \in 0..high' /\ high' = high
    BY <1>4 DEF Optimize, Ready, None, Range, IsMax, history, TypeOK
  <2>2. \A i \in Id : Readable(i) \in 0..high
    BY DEF Readable, SegmentVector, TypeOK
  <2>3. index' \in Versions'
    BY <1>4, <2>1, <2>2 DEF Optimize, Ready, TypeOK
  <2>4. pc' \in Points
    BY <1>4 DEF Optimize, Ready, Points, CheckpointSteps
  <2> QED BY <1>4, <2>1, <2>3, <2>4 DEF Optimize, Ready, diskVars, logVars, ckptFiles, history, TypeOK
<1>5. CASE WriteRecords
  BY <1>5 DEF WriteRecords, logVars, memVars, history, counters, TypeOK, Points, CheckpointSteps
<1>6. CASE WriteIndexBin
  BY <1>6 DEF WriteIndexBin, logVars, memVars, history, counters, TypeOK, Points, CheckpointSteps
<1>7. CASE WriteIndexMeta
  BY <1>7 DEF WriteIndexMeta, logVars, memVars, history, counters, TypeOK, Points, CheckpointSteps
<1>8. CASE WriteJson
  <2>1. Cardinality(Live(ver)) \in Nat
    BY IdSets DEF Live
  <2>2. json' \in [flushed_seq : 0..high, next_seq : 0..(high + 1), record_count : Nat]
    BY <1>8, <2>1 DEF WriteJson, logVars, CheckpointMeta, TypeOK
  <2> QED BY <1>8, <2>2 DEF WriteJson, logVars, memVars, history, counters, TypeOK, Points, CheckpointSteps
<1>9. CASE WriteSegment
  <2>1. \A k \in DOMAIN segbin' : segbin'[k] \in 0..high
    BY <1>9 DEF WriteSegment, logVars, Entries, Live, TypeOK
  <2>2. emb' \in Versions /\ segment_index' \in [Id -> Nat] /\ segidx' \in [Id -> Nat]
    <3>1. CASE Entries # {}
      BY <1>9, <3>1 DEF WriteSegment, logVars, TypeOK
    <3>2. CASE Entries = {}
      <4>1. /\ emb' = Stripped(ver, emb, flushed_seq)
            /\ segment_index' = None /\ segidx' = None
        BY <1>9, <3>2 DEF WriteSegment, logVars
      <4> QED BY <4>1 DEF Stripped, None, TypeOK
    <3> QED BY <3>1, <3>2
  <2>3. \A k \in DOMAIN segments' : segments'[k] \in 0..high
    BY <1>9 DEF WriteSegment, logVars, TypeOK
  <2>4. pc' \in Points
    BY <1>9 DEF WriteSegment, logVars, Points, CheckpointSteps
  <2> QED BY <1>9, <2>1, <2>2, <2>3, <2>4 DEF WriteSegment, logVars, history, counters, TypeOK
<1>10. CASE WriteSegmentIndex
  <2>1. \A i \in Id : Offset(i) \in Nat
    BY IdSets DEF Offset, Entries, Live
  <2>2. emb' \in Versions /\ segment_index' \in [Id -> Nat] /\ segidx' \in [Id -> Nat]
    BY <1>10, <2>1 DEF WriteSegmentIndex, logVars, Stripped, TypeOK
  <2> QED BY <1>10, <2>2 DEF WriteSegmentIndex, logVars, history, counters, TypeOK, Points, CheckpointSteps
<1>11. CASE AdvanceCatalog
  BY <1>11 DEF AdvanceCatalog, logVars, Larger, memVars, ckptFiles, history, counters, TypeOK,
     Points, CheckpointSteps
<1>12. CASE PruneLog
  <2>1. wal' \subseteq wal /\ wal' \in SUBSET [seq : 1..high, id : Id, kind : RequestKinds]
    BY <1>12 DEF PruneLog, CutLog, KeptRecords, TypeOK
  <2>2. last_seq' \in 0..high
    <3>1. last_seq' \in 0..MaxSeq /\ ResumesAt(last_seq', wal', 0)
      BY <1>12 DEF PruneLog, CutLog
    <3> QED BY <2>1, <3>1, ResumeTypes DEF TypeOK
  <2> QED
    BY <1>12, <2>1, <2>2
    DEF PruneLog, CutLog, ckptFiles, counters, TypeOK, Points, CheckpointSteps
<1>13. CASE CheckpointError \/ LatePruneError \/ ReopenError
  <2>1. CASE CheckpointError
    BY <2>1 DEF CheckpointError, memVars, diskVars, logVars, ckptFiles, history, counters, TypeOK, Points
  <2>2. CASE LatePruneError
    <3>1. wal' \in SUBSET [seq : 1..high, id : Id, kind : RequestKinds]
      BY <2>2 DEF LatePruneError, CutLog, KeptRecords, TypeOK
    <3> QED BY <2>2, <3>1 DEF LatePruneError, CutLog, memVars, ckptFiles, counters, TypeOK, Points
  <2>3. CASE ReopenError
    BY <2>3 DEF ReopenError, memVars, ckptFiles, history, counters, TypeOK, Points
  <2> QED BY <1>13, <2>1, <2>2, <2>3
<1>14. CASE Crash
  <2>1. /\ wal' \subseteq wal /\ adrift' = {} /\ handle' = "current"
        /\ lost' \in BOOLEAN /\ high' = high
    BY <1>14 DEF Crash
  <2> QED BY <1>14, <2>1, SMTT(40) DEF Crash, None, ckptFiles, TypeOK, Points
<1>15. CASE Load
  <2>1. CASE Usable /\ LoadFromCheckpoint
    <3>1. last_seq' \in 0..high
      <4>1. last_seq' \in 0..MaxSeq /\ ResumesAt(last_seq', wal, json.next_seq)
        BY <2>1 DEF LoadFromCheckpoint
      <4>2. json.next_seq \in 0..(high + 1)
        BY DEF TypeOK
      <4> QED BY <4>1, <4>2, ResumeTypes DEF TypeOK
    <3>2. ver' \in Versions /\ emb' \in Versions /\ index' \in Versions
      BY <2>1 DEF LoadFromCheckpoint, Stripped, LoadedIndex, None, TypeOK
    <3>3. /\ flushed_seq' \in 0..high /\ segment_index' \in [Id -> Nat] /\ lost' \in BOOLEAN
          /\ \A k \in DOMAIN segments' : segments'[k] \in 0..high
      BY <2>1 DEF LoadFromCheckpoint, TypeOK
    <3> QED
      BY <1>15, <3>1, <3>2, <3>3
      DEF Load, None, diskVars, logVars, ckptFiles, counters, TypeOK, Points
  <2>2. CASE ~Usable /\ LoadNothing
    <3>1. last_seq' \in 0..high
      <4>1. last_seq' \in 0..MaxSeq /\ ResumesAt(last_seq', wal, 0)
        BY <2>2 DEF LoadNothing
      <4> QED BY <4>1, ResumeTypes DEF TypeOK
    <3>2. /\ ver' \in Versions /\ emb' \in Versions /\ index' \in Versions
          /\ flushed_seq' \in 0..high /\ segment_index' \in [Id -> Nat]
          /\ \A k \in DOMAIN segments' : segments'[k] \in 0..high
      BY <2>2 DEF LoadNothing, None, TypeOK
    <3>3. lost' \in BOOLEAN
      BY <2>2 DEF LoadNothing
    <3> QED
      BY <1>15, <3>1, <3>2, <3>3
      DEF Load, None, diskVars, logVars, ckptFiles, counters, TypeOK, Points
  <2> QED BY <1>15, <2>1, <2>2 DEF Load
<1>16. ASSUME NEW w \in wal, Replay(w) PROVE TypeOK'
  <2>1. w.seq \in 1..high /\ w.id \in Id
    BY DEF TypeOK
  <2>2. /\ ver' \in Versions /\ emb' \in Versions
        /\ buffer' \in Versions /\ index' \in Versions
    BY <1>16, <2>1 DEF Replay, VerAfter, VectorsAfter, IndexAfter, TypeOK
  <2> QED
    BY <1>16, <2>1, <2>2 DEF Replay, diskVars, logVars, ckptFiles, history, counters, TypeOK
<1>17. CASE OpenDone
  <2>1. buffer' \in Versions /\ index' \in Versions /\ flushed_seq' \in 0..high
    BY <1>17, FlushTypes DEF OpenDone, TypeOK
  <2> QED
    BY <1>17, <2>1 DEF OpenDone, diskVars, logVars, ckptFiles, history, counters, TypeOK, Points
<1>18. CASE ReopenLog
  <2>1. last_seq' \in 0..high
    <3>1. last_seq' \in 0..MaxSeq /\ ResumesAt(last_seq', wal, json.next_seq)
      BY <1>18 DEF ReopenLog
    <3>2. json.next_seq \in 0..(high + 1)
      BY DEF TypeOK
    <3> QED BY <3>1, <3>2, ResumeTypes DEF TypeOK
  <2> QED
    BY <1>18, <2>1
    DEF ReopenLog, diskVars, logVars, ckptFiles, history, counters, TypeOK, Points
<1>19. CASE UNCHANGED vars
  BY <1>19 DEF vars, memVars, diskVars, logVars, ckptFiles, history, counters, TypeOK
<1> QED
  BY <1>1, <1>2, <1>3, <1>4, <1>5, <1>6, <1>7, <1>8, <1>9, <1>10, <1>11, <1>12,
     <1>13, <1>14, <1>15, <1>16, <1>17, <1>18, <1>19 DEF Next, Checkpointing, Opening

-----------------------------------------------------------------------------
(* What a checkpoint has written.                                          *)

(* Every action keeps what CheckpointInv says of a running checkpoint.     *)
LEMMA CheckpointStep == TypeOK /\ CheckpointInv /\ [Next]_vars => CheckpointInv'
<1> SUFFICES ASSUME TypeOK, CheckpointInv, [Next]_vars PROVE CheckpointInv'
  OBVIOUS
<1> USE DEF CheckpointInv, CheckpointSteps, AfterRecords, AfterJson
<1>1. ASSUME NEW kind \in Kinds, NEW S \in (SUBSET Id) \ {{}}, Write(kind, S)
      PROVE CheckpointInv'
  <2>1. pc' \in {"records", "idle"} /\ (pc' = "records" => Live(ver') # {})
    BY <1>1 DEF Write, Ready, AppendAll, CheckpointDue
  <2> QED BY <2>1 DEF Live
<1>2. ASSUME NEW kind \in Kinds, NEW S \in (SUBSET Id) \ {{}}, WriteError(kind, S)
      PROVE CheckpointInv'
  BY <1>2 DEF WriteError, Ready, AppendAll
<1>3. CASE BeginCheckpoint
  BY <1>3 DEF BeginCheckpoint, Ready, memVars, Live
<1>4. CASE Optimize
  BY <1>4 DEF Optimize, Ready, Live
<1>5. CASE WriteRecords
  BY <1>5 DEF WriteRecords, logVars, memVars, Live
<1>6. CASE WriteIndexBin
  BY <1>6 DEF WriteIndexBin, logVars, memVars, Live
<1>7. CASE WriteIndexMeta
  BY <1>7 DEF WriteIndexMeta, logVars, memVars, Live
<1>8. CASE WriteJson
  BY <1>8 DEF WriteJson, logVars, memVars, Live, CheckpointMeta
<1>9. CASE WriteSegment
  BY <1>9 DEF WriteSegment, logVars, Live, CheckpointMeta
<1>10. CASE WriteSegmentIndex
  BY <1>10 DEF WriteSegmentIndex, logVars, Live, CheckpointMeta
<1>11. CASE AdvanceCatalog
  BY <1>11 DEF AdvanceCatalog, logVars, memVars, ckptFiles, Live, CheckpointMeta, Larger, TypeOK
<1>12. CASE PruneLog \/ LatePruneError \/ ReopenLog \/ ReopenError \/ CheckpointError \/ Crash
  BY <1>12 DEF PruneLog, LatePruneError, ReopenLog, ReopenError, CheckpointError, Crash, Live
<1>13. CASE Load
  BY <1>13 DEF Load
<1>14. ASSUME NEW w \in wal, Replay(w) PROVE CheckpointInv'
  BY <1>14 DEF Replay
<1>15. CASE OpenDone
  BY <1>15 DEF OpenDone
<1>16. CASE UNCHANGED vars
  BY <1>16 DEF vars, memVars, diskVars, logVars, ckptFiles, Live, CheckpointMeta
<1> QED
  BY <1>1, <1>2, <1>3, <1>4, <1>5, <1>6, <1>7, <1>8, <1>9, <1>10, <1>11, <1>12,
     <1>13, <1>14, <1>15, <1>16 DEF Next, Checkpointing, Opening

(* Every action keeps what HandleInv says of the handle.                   *)
LEMMA HandleStep == TypeOK /\ HandleInv /\ [Next]_vars => HandleInv'
<1> SUFFICES ASSUME TypeOK, HandleInv, [Next]_vars PROVE HandleInv'
  OBVIOUS
<1> USE DEF HandleInv
<1>1. ASSUME NEW kind, NEW S, Write(kind, S) \/ WriteError(kind, S) PROVE HandleInv'
  BY <1>1 DEF Write, WriteError, Ready, AppendAll
<1>2. CASE BeginCheckpoint \/ Optimize
  BY <1>2 DEF BeginCheckpoint, Optimize, Ready, diskVars, logVars
<1>3. CASE WriteRecords \/ WriteIndexBin \/ WriteIndexMeta \/ WriteJson
  BY <1>3 DEF WriteRecords, WriteIndexBin, WriteIndexMeta, WriteJson, logVars
<1>4. CASE WriteSegment \/ WriteSegmentIndex \/ AdvanceCatalog
  BY <1>4 DEF WriteSegment, WriteSegmentIndex, AdvanceCatalog, logVars
<1>5. CASE PruneLog \/ LatePruneError
  BY <1>5 DEF PruneLog, LatePruneError, CutLog
<1>6. CASE ReopenLog \/ ReopenError \/ CheckpointError
  BY <1>6 DEF ReopenLog, ReopenError, CheckpointError, diskVars, logVars
<1>7. CASE Crash
  BY <1>7 DEF Crash
<1>8. CASE Load \/ OpenDone
  BY <1>8 DEF Load, OpenDone, diskVars, logVars
<1>9. ASSUME NEW w \in wal, Replay(w) PROVE HandleInv'
  BY <1>9 DEF Replay, diskVars, logVars
<1>10. CASE UNCHANGED vars
  BY <1>10 DEF vars, diskVars, logVars
<1> QED
  BY <1>1, <1>2, <1>3, <1>4, <1>5, <1>6, <1>7, <1>8, <1>9, <1>10
  DEF Next, Checkpointing, Opening

(* The promise is not renewed.                                             *)
LEMMA LostStays == TypeOK /\ [Next]_vars /\ lost => lost'
<1> SUFFICES ASSUME TypeOK, [Next]_vars, lost PROVE lost'
  OBVIOUS
<1>1. ASSUME NEW kind, NEW S, Write(kind, S) \/ WriteError(kind, S) PROVE lost'
  BY <1>1 DEF Write, WriteError, AppendAll
<1>2. CASE Checkpointing
  BY <1>2
  DEF Checkpointing, WriteRecords, WriteIndexBin, WriteIndexMeta, WriteJson, WriteSegment,
      WriteSegmentIndex, AdvanceCatalog, PruneLog, ReopenLog, history
<1>3. CASE BeginCheckpoint \/ Optimize \/ CheckpointError \/ LatePruneError \/ ReopenError
  BY <1>3 DEF BeginCheckpoint, Optimize, CheckpointError, LatePruneError, ReopenError, history
<1>4. CASE Crash \/ Opening
  BY <1>4 DEF Crash, Opening, Load, LoadFromCheckpoint, LoadNothing, Replay, OpenDone, history
<1>5. CASE UNCHANGED vars
  BY <1>5 DEF vars, history
<1> QED BY <1>1, <1>2, <1>3, <1>4, <1>5 DEF Next

-----------------------------------------------------------------------------
(* The log and the versions.                                               *)

(* Steps that touch neither the log nor the records nor what a checkpoint  *)
(* saved of them.                                                          *)
Quiet ==
    /\ Up /\ Up' /\ pc # "reopen" /\ pc' # "reopen"
    /\ pc' \in AfterJson => pc \in AfterJson
    /\ UNCHANGED <<last_seq, ver, logVars, recbin, json, store, tried, high, pruned, lost>>

(* Which actions are quiet.                                                *)
LEMMA QuietActions ==
    ASSUME \/ BeginCheckpoint \/ Optimize \/ WriteIndexBin \/ WriteIndexMeta
           \/ WriteSegment \/ WriteSegmentIndex \/ AdvanceCatalog \/ CheckpointError
    PROVE  Quiet
<1> USE DEF Quiet, Up, AfterJson, memVars, diskVars, logVars, ckptFiles, history
<1>1. CASE BeginCheckpoint \/ Optimize
  BY <1>1 DEF BeginCheckpoint, Ready, Optimize
<1>2. CASE WriteIndexBin \/ WriteIndexMeta
  BY <1>2 DEF WriteIndexBin, logVars, WriteIndexMeta
<1>3. CASE WriteSegment
  BY <1>3 DEF WriteSegment, logVars
<1>4. CASE WriteSegmentIndex
  BY <1>4 DEF WriteSegmentIndex, logVars
<1>5. CASE AdvanceCatalog \/ CheckpointError
  BY <1>5 DEF AdvanceCatalog, logVars, CheckpointError, CheckpointSteps
<1> QED BY <1>1, <1>2, <1>3, <1>4, <1>5

(* Every action keeps the log's place in the sequence of seqs.             *)
LEMMA LogStep ==
    ASSUME TypeOK, CheckpointInv, HandleInv, ~lost => LogInv, [Next]_vars, ~lost'
    PROVE  LogInv'
<1> USE CollectionAssumption
<1>0. ~lost /\ LogInv
  BY LostStays
<1>1. ASSUME NEW kind \in Kinds, NEW S \in (SUBSET Id) \ {{}}, NEW q \in Seqs(S),
             pc = "idle", pc' \in {"idle", "records"},
             handle # "rewound", handle' = handle,
             last_seq' = last_seq + Cardinality(S), high' = Larger(high, last_seq'),
             wal' = wal \cup Appended(kind, q)
      PROVE  LogInv'
  <2>1. /\ DOMAIN q = S /\ Cardinality(S) \in Nat \ {0}
        /\ q \in [S -> (last_seq + 1)..(last_seq + Cardinality(S))]
        /\ \A i, j \in S : q[i] = q[j] => i = j
        /\ \A n \in (last_seq + 1)..(last_seq + Cardinality(S)) : \E i \in S : q[i] = n
    BY BatchSeqs DEF TypeOK
  <2>2. last_seq = high /\ \A w, x \in wal : w.seq = x.seq => w = x
    BY <1>0, <1>1 DEF LogInv
  <2>3. high' = last_seq'
    BY <1>1, <2>1, <2>2 DEF Larger, TypeOK
  <2>4. \A w \in wal : w.seq \in Nat /\ w.seq <= last_seq
    BY <2>2 DEF TypeOK
  <2>5. \A w \in Appended(kind, q) :
           \E i \in S : w = [seq |-> q[i], id |-> i, kind |-> kind]
    BY <2>1 DEF Appended
  <2>6. \A w, x \in wal' : w.seq = x.seq => w = x
    <3>1. \A w, x \in Appended(kind, q) : w.seq = x.seq => w = x
      BY <2>1, <2>5
    <3>2. \A w \in wal, x \in Appended(kind, q) : w.seq # x.seq
      BY <2>1, <2>4, <2>5 DEF TypeOK
    <3> QED BY <1>1, <2>2, <3>1, <3>2
  <2>7. \E w \in wal' : w.seq = high'
    <3>1. PICK i \in S : q[i] = last_seq + Cardinality(S)
      BY <2>1 DEF TypeOK
    <3>2. [seq |-> q[i], id |-> i, kind |-> kind] \in wal'
      BY <1>1, <2>1 DEF Appended
    <3> QED BY <1>1, <2>3, <3>1, <3>2
  <2> QED BY <1>1, <2>3, <2>6, <2>7 DEF LogInv
<1>2. ASSUME NEW kind \in Kinds, NEW S \in (SUBSET Id) \ {{}}, Write(kind, S)
      PROVE LogInv'
  <2>1. PICK q \in Seqs(S) : wal' = wal \cup Appended(kind, q)
    BY <1>2 DEF Write, Ready, AppendAll
  <2> QED BY <1>1, <1>2, <2>1 DEF Write, Ready, AppendAll
<1>3. ASSUME NEW kind \in Kinds, NEW S \in (SUBSET Id) \ {{}}, WriteError(kind, S)
      PROVE LogInv'
  <2>1. PICK q \in Seqs(S) : wal' = wal \cup Appended(kind, q)
    BY <1>3 DEF WriteError, Ready, AppendAll
  <2> QED BY <1>1, <1>3, <2>1 DEF WriteError, Ready, AppendAll
<1>4. CASE Quiet
  BY <1>0, <1>4 DEF Quiet, logVars, Up, LogInv
<1>5. CASE WriteRecords
  BY <1>0, <1>5 DEF WriteRecords, logVars, memVars, history, LogInv, AfterJson
<1>6. CASE WriteJson
  <2>1. high # 0
    <3>1. PICK i \in Id : ver[i] # 0
      BY <1>6 DEF WriteJson, CheckpointInv, CheckpointSteps, Live
    <3>2. ver[i] \in 0..high
      BY DEF TypeOK, Versions
    <3> QED BY <3>1, <3>2 DEF TypeOK
  <2>2. handle # "rewound" /\ pc' = "segbin" /\ last_seq = high
    BY <1>0, <1>6 DEF WriteJson, LogInv
  <2> QED
    BY <1>0, <1>6, <2>1, <2>2 DEF WriteJson, logVars, CheckpointMeta, memVars, LogInv
<1>7. ASSUME pc = "prune", CutLog, UNCHANGED <<json, high>>
      PROVE  /\ last_seq = high /\ json.next_seq = high + 1
             /\ \A w, x \in wal' : w.seq = x.seq => w = x
             /\ \A w \in wal' : w.seq <= high
             /\ \/ \E w \in wal' : w.seq = high
                \/ wal' = {} /\ pruned'
                \/ wal' = {} /\ high = 0 /\ json.record_count = 0
  <2>1. last_seq = high /\ \A w, x \in wal : w.seq = x.seq => w = x
    BY <1>0, <1>7 DEF LogInv, AfterJson
  <2>2. /\ wal' = {w \in wal : w.seq > flushed_seq} /\ pruned' = (pruned \/ wal' # wal)
        /\ \A w \in wal : w.seq \in Nat /\ w.seq <= high
    BY <1>7 DEF CutLog, KeptRecords, TypeOK
  <2>3. json.next_seq = high + 1
    BY <1>7, <2>1 DEF CheckpointInv, AfterJson, CheckpointMeta
  <2>4. CASE wal' = {}
    <3>1. pruned' \/ (high = 0 /\ json.record_count = 0)
      BY <1>0, <2>2, <2>4 DEF LogInv
    <3> QED BY <2>1, <2>2, <2>3, <2>4, <3>1
  <2>5. CASE wal' # {}
    <3>1. PICK w \in wal : w.seq = high
      BY <1>0, <2>2, <2>5 DEF LogInv
    <3>2. w \in wal'
      BY <2>2, <2>5, <3>1 DEF TypeOK
    <3> QED BY <2>1, <2>2, <2>3, <3>1, <3>2
  <2> QED BY <2>4, <2>5
<1>8. CASE PruneLog
  <2>1. /\ pc = "prune" /\ CutLog /\ UNCHANGED <<json, high>> /\ pc' = "reopen"
        /\ handle' = "current" /\ last_seq' \in 0..MaxSeq /\ ResumesAt(last_seq', wal', 0)
    BY <1>8 DEF PruneLog, CutLog, ckptFiles
  <2>2. wal' # {} => last_seq' = high
    <3>1. SUFFICES ASSUME wal' # {} PROVE last_seq' = high
      OBVIOUS
    <3>2. PICK w \in wal' : w.seq = high
      BY <1>7, <2>1, <3>1
    <3>3. IsMax(last_seq', {x.seq : x \in wal'})
      BY <2>1, <3>1 DEF ResumesAt
    <3>4. high <= last_seq' /\ last_seq' <= high
      BY <1>7, <2>1, <3>2, <3>3 DEF IsMax
    <3>5. last_seq' \in Nat /\ high \in Nat
      BY <2>1 DEF TypeOK
    <3> QED BY <3>4, <3>5
  <2> QED BY <1>7, <2>1, <2>2 DEF LogInv
<1>9. CASE LatePruneError
  <2>1. /\ pc = "prune" /\ CutLog /\ UNCHANGED <<json, high, last_seq>>
        /\ pc' = "idle" /\ handle' = "unlinked"
    BY <1>9 DEF LatePruneError, ckptFiles, memVars
  <2> QED BY <1>7, <2>1 DEF LogInv
<1>10. CASE ReopenLog
  <2>1. /\ pc = "reopen" /\ pc' = "idle" /\ UNCHANGED <<wal, handle, json, high, pruned>>
        /\ last_seq' \in 0..MaxSeq /\ ResumesAt(last_seq', wal, json.next_seq)
        /\ json.next_seq = high + 1 /\ (wal # {} => \E w \in wal : w.seq = high)
        /\ handle = "current"
    BY <1>0, <1>10
    DEF ReopenLog, diskVars, logVars, ckptFiles, history, LogInv, HandleInv
  <2>2. CASE wal = {}
    <3>1. last_seq' = high
      BY <2>1, <2>2 DEF ResumesAt, TypeOK
    <3> QED BY <1>0, <2>1, <3>1 DEF LogInv, AfterJson
  <2>3. CASE wal # {}
    <3>1. PICK w \in wal : w.seq = high
      BY <2>1, <2>3
    <3>2. IsMax(last_seq', {x.seq : x \in wal}) /\ \A x \in wal : x.seq <= high
      BY <2>1, <2>3 DEF ResumesAt, TypeOK
    <3>3. high <= last_seq' /\ last_seq' <= high
      BY <3>1, <3>2 DEF IsMax
    <3>4. last_seq' = high
      BY <2>1, <3>3 DEF TypeOK
    <3> QED BY <1>0, <2>1, <3>4 DEF LogInv, AfterJson
  <2> QED BY <2>2, <2>3
<1>11. CASE ReopenError
  <2>1. /\ pc = "reopen" /\ pc' = "idle" /\ UNCHANGED <<wal, json, high, pruned, last_seq>>
        /\ handle' = (IF wal = {} THEN "rewound" ELSE handle) /\ handle = "current"
    BY <1>11 DEF ReopenError, memVars, ckptFiles, history, HandleInv
  <2> QED BY <1>0, <2>1 DEF LogInv, AfterJson
<1>12. CASE Crash
  <2>1. wal' = wal /\ handle' = "current" /\ pc' = "down" /\ UNCHANGED <<json, high, pruned>>
    BY <1>12 DEF Crash, ckptFiles
  <2> QED BY <1>0, <2>1 DEF LogInv
<1>13. CASE Load
  <2>1. /\ wal' = wal /\ json' = json /\ high' = high /\ pruned' = pruned
        /\ \A w \in wal : w.seq <= high
    BY <1>13 DEF Load, diskVars, logVars, ckptFiles, TypeOK
  <2>2. ~lost /\ handle = "current" /\ handle' = handle
    BY <1>0, <1>13 DEF Load, diskVars, logVars, HandleInv
  <2>3. \E start \in Nat :
           /\ last_seq' \in 0..MaxSeq /\ ResumesAt(last_seq', wal, start)
           /\ wal = {} => high = IF start = 0 THEN 0 ELSE start - 1
    <3>1. CASE Usable /\ LoadFromCheckpoint
      <4>1. json.record_count # 0 /\ json.next_seq \in Nat
        BY <3>1 DEF Usable, TypeOK
      <4>2. wal = {} => json.next_seq = high + 1
        BY <1>0, <4>1 DEF LogInv
      <4> QED BY <3>1, <4>1, <4>2 DEF LoadFromCheckpoint, TypeOK
    <3>2. CASE ~Usable /\ LoadNothing
      <4>1. ~pruned
        BY <3>2 DEF LoadNothing
      <4>2. wal = {} => high = 0
        BY <1>0, <4>1 DEF LogInv
      <4> QED BY <3>2, <4>2 DEF LoadNothing
    <3> QED BY <1>13, <3>1, <3>2 DEF Load
  <2>4. last_seq' = high
    <3>1. CASE wal = {}
      BY <2>3, <3>1 DEF ResumesAt
    <3>2. CASE wal # {}
      <4>1. PICK w \in wal : w.seq = high
        BY <1>0, <3>2 DEF LogInv
      <4>2. last_seq' \in Nat /\ IsMax(last_seq', {x.seq : x \in wal})
        BY <2>3, <3>2 DEF ResumesAt
      <4>3. last_seq' <= high /\ high <= last_seq' /\ high \in Nat
        BY <2>1, <4>1, <4>2 DEF IsMax, TypeOK
      <4> QED BY <4>2, <4>3
    <3> QED BY <3>1, <3>2
  <2> QED BY <1>0, <1>13, <2>1, <2>2, <2>4 DEF LogInv, Load
<1>14. CASE (\E w \in wal : Replay(w)) \/ OpenDone
  BY <1>0, <1>14 DEF HandleInv, Replay, OpenDone, diskVars, logVars, ckptFiles, history, LogInv
<1>15. CASE UNCHANGED vars
  BY <1>0, <1>15 DEF vars, memVars, diskVars, logVars, ckptFiles, history, LogInv
<1> QED
  BY <1>2, <1>3, <1>4, <1>5, <1>6, <1>8, <1>9, <1>10, <1>11, <1>12, <1>13, <1>14,
     <1>15, QuietActions
  DEF Next, Checkpointing, Opening

(* Every action keeps the acknowledged version of a record recoverable.    *)
LEMMA VersionStep ==
    ASSUME TypeOK, CheckpointInv, HandleInv, ~lost => LogInv /\ \A i \in Id : VersionInv(i),
           [Next]_vars, ~lost', NEW i \in Id
    PROVE  VersionInv(i)'
<1> USE CollectionAssumption
<1>0. ~lost /\ LogInv /\ VersionInv(i)
  BY LostStays
<1>1. ASSUME NEW kind \in Kinds, NEW S \in (SUBSET Id) \ {{}}, Write(kind, S)
      PROVE VersionInv(i)'
  <2>1. PICK q \in Seqs(S) :
           /\ wal' = wal \cup Appended(kind, q)
           /\ ver' = VerAfter(kind, q)
           /\ store' = [j \in Id |-> IF j \in S THEN ver'[j] ELSE store[j]]
           /\ tried' = [j \in Id |-> IF j \in S THEN {} ELSE tried[j]]
    BY <1>1 DEF Write, Ready, AppendAll
  <2>2. /\ DOMAIN q = S /\ q \in [S -> (last_seq + 1)..(last_seq + Cardinality(S))]
        /\ Cardinality(S) \in Nat
    BY BatchSeqs DEF TypeOK
  <2>3. /\ Up /\ Up' /\ ~lost /\ last_seq = high /\ UNCHANGED <<recbin, json, pruned>>
    BY <1>0, <1>1 DEF Write, Ready, AppendAll, Up, ckptFiles, LogInv
  <2>4. \A w \in wal' : w \in wal \/ \E j \in S : w = [seq |-> q[j], id |-> j, kind |-> kind]
    BY <2>1, <2>2 DEF Appended
  <2>5. CASE i \in S
    <3> DEFINE new == [seq |-> q[i], id |-> i, kind |-> kind]
    <3>1. new \in wal' /\ q[i] > high /\ q[i] \in Nat
      BY <2>1, <2>2, <2>3, <2>5 DEF Appended, TypeOK
    <3>2. store'[i] = ver'[i] /\ ver'[i] = IF kind = "delete" THEN 0 ELSE q[i]
      BY <2>1, <2>2, <2>5 DEF VerAfter
    <3>3. \A n \in 0..high : ~CoveredBy(i, n)'
      BY <3>1 DEF CoveredBy, TypeOK
    <3>4. json.flushed_seq \in 0..high /\ 0 \in 0..high
      BY DEF TypeOK
    <3>5. ASSUME NEW w \in wal', w.id = i, CoveredBy(i, w.seq)' PROVE Effect(w) \in Allowed(i)'
      <4>1. w \notin wal
        BY <3>3, <3>5 DEF TypeOK
      <4>2. w = new
        BY <2>4, <3>5, <4>1
      <4> QED BY <3>2, <4>2 DEF Effect, Allowed
    <3> QED BY <2>3, <3>2, <3>3, <3>4, <3>5 DEF VersionInv, Allowed, Up, Effect
  <2>6. CASE i \notin S
    <3>1. ver'[i] = ver[i] /\ store'[i] = store[i] /\ tried'[i] = tried[i] /\ VersionInv(i)
      BY <2>1, <2>2, <2>3, <2>6 DEF VerAfter
    <3>2. \A w \in wal' : w.id = i => w \in wal
      BY <2>4, <2>6
    <3>3. \A n : CoveredBy(i, n)' <=> CoveredBy(i, n)
      BY <2>1, <3>2 DEF CoveredBy
    <3>4. ASSUME NEW w \in wal', w.id = i, CoveredBy(i, w.seq)' PROVE Effect(w) \in Allowed(i)'
      BY <3>1, <3>2, <3>3, <3>4 DEF VersionInv, Allowed
    <3> QED BY <2>3, <3>1, <3>3, <3>4 DEF VersionInv, Allowed, Up, Effect
  <2> QED BY <2>5, <2>6
<1>2. ASSUME NEW kind \in Kinds, NEW S \in (SUBSET Id) \ {{}}, WriteError(kind, S)
      PROVE VersionInv(i)'
  <2>1. PICK q \in Seqs(S) :
           /\ wal' = wal \cup Appended(kind, q)
           /\ tried' = [j \in Id |-> IF j \in S THEN tried[j] \cup {VerAfter(kind, q)[j]}
                                               ELSE tried[j]]
    BY <1>2 DEF WriteError, Ready, AppendAll
  <2>2. /\ DOMAIN q = S /\ q \in [S -> (last_seq + 1)..(last_seq + Cardinality(S))]
        /\ Cardinality(S) \in Nat
    BY BatchSeqs DEF TypeOK
  <2>3. /\ Up /\ Up' /\ ~lost /\ last_seq = high /\ VersionInv(i)
        /\ UNCHANGED <<ver, store, recbin, json, pruned>>
    BY <1>0, <1>2 DEF WriteError, Ready, AppendAll, Up, ckptFiles, LogInv
  <2>4. \A w \in wal' : w \in wal \/ \E j \in S : w = [seq |-> q[j], id |-> j, kind |-> kind]
    BY <2>1, <2>2 DEF Appended
  <2>5. Allowed(i) \subseteq Allowed(i)'
    BY <2>1, <2>3 DEF Allowed
  <2>6. CASE i \in S
    <3> DEFINE new == [seq |-> q[i], id |-> i, kind |-> kind]
    <3>1. new \in wal' /\ q[i] > high /\ q[i] \in Nat
      BY <2>1, <2>2, <2>3, <2>6 DEF Appended, TypeOK
    <3>2. Effect(new) \in Allowed(i)'
      BY <2>1, <2>2, <2>6 DEF VerAfter, Effect, Allowed
    <3>3. \A n \in 0..high : ~CoveredBy(i, n)'
      BY <3>1 DEF CoveredBy, TypeOK
    <3>4. json.flushed_seq \in 0..high /\ 0 \in 0..high
      BY DEF TypeOK
    <3>5. ASSUME NEW w \in wal', w.id = i, CoveredBy(i, w.seq)' PROVE Effect(w) \in Allowed(i)'
      <4>1. w \notin wal
        BY <3>3, <3>5 DEF TypeOK
      <4>2. w = new
        BY <2>4, <3>5, <4>1
      <4> QED BY <3>2, <4>2
    <3>6. ver'[i] \in Allowed(i)'
      BY <2>3, <2>5 DEF VersionInv
    <3> QED BY <2>3, <3>3, <3>4, <3>5, <3>6 DEF VersionInv, Up, Effect
  <2>7. CASE i \notin S
    <3>1. \A w \in wal' : w.id = i => w \in wal
      BY <2>4, <2>7
    <3>2. \A n : CoveredBy(i, n)' <=> CoveredBy(i, n)
      BY <2>1, <3>1 DEF CoveredBy
    <3> QED BY <2>3, <2>5, <3>1, <3>2 DEF VersionInv, Up, Effect
  <2> QED BY <2>6, <2>7
<1>3. CASE Quiet \/ ReopenLog \/ ReopenError
  <2>1. Up /\ Up' /\ UNCHANGED <<ver, wal, recbin, json, store, tried, pruned>>
    BY <1>3
    DEF Quiet, ReopenLog, ReopenError, Up, memVars, diskVars, logVars, ckptFiles, history
  <2>2. \A n : CoveredBy(i, n)' <=> CoveredBy(i, n)
    BY <2>1 DEF CoveredBy
  <2> QED BY <1>0, <2>1, <2>2 DEF VersionInv, Allowed, Up, Effect
<1>4. CASE WriteRecords
  <2>1. /\ Up /\ Up' /\ ~lost /\ recbin'.ver = ver /\ VersionInv(i)
        /\ UNCHANGED <<ver, wal, json, store, tried, pruned>>
    BY <1>0, <1>4 DEF WriteRecords, logVars, Up, memVars, history
  <2>2. \A n : CoveredBy(i, n)' <=> CoveredBy(i, n)
    BY <2>1 DEF CoveredBy
  <2> QED BY <2>1, <2>2 DEF VersionInv, Allowed, Up, Effect
<1>5. CASE WriteJson
  <2>1. /\ Up /\ Up' /\ ~lost /\ recbin.ver = ver /\ VersionInv(i)
        /\ UNCHANGED <<ver, wal, recbin, store, tried, pruned>>
    BY <1>0, <1>5 DEF WriteJson, logVars, CheckpointInv, AfterRecords, Up, memVars, history
  <2>2. \A n : CoveredBy(i, n)' <=> CoveredBy(i, n)
    BY <2>1 DEF CoveredBy
  <2> QED BY <2>1, <2>2 DEF VersionInv, Allowed, Up, Effect
<1>6. CASE PruneLog \/ LatePruneError
  <2>1. /\ Up /\ Up' /\ ~lost /\ recbin.ver = ver /\ VersionInv(i)
        /\ UNCHANGED <<ver, recbin, json, store, tried>>
        /\ wal' = {w \in wal : w.seq > flushed_seq} /\ (~pruned' => ~pruned /\ wal' = wal)
    BY <1>0, <1>6
    DEF PruneLog, LatePruneError, CutLog, KeptRecords, CheckpointInv, AfterRecords, Up, ckptFiles, memVars
  <2>2. \A w \in wal' : w \in wal /\ (w.id = i /\ CoveredBy(i, w.seq)' => CoveredBy(i, w.seq))
    BY <2>1 DEF CoveredBy, TypeOK
  <2>3. ~pruned' /\ CoveredBy(i, 0)' => CoveredBy(i, 0)
    BY <2>1 DEF CoveredBy
  <2> QED BY <2>1, <2>2, <2>3 DEF VersionInv, Allowed, Up, Effect
<1>7. CASE Crash
  <2>1. /\ pc' = "down" /\ ~lost /\ VersionInv(i)
        /\ UNCHANGED <<wal, recbin, json, store, tried, pruned>>
    BY <1>0, <1>7 DEF Crash, ckptFiles
  <2>2. \A n : CoveredBy(i, n)' <=> CoveredBy(i, n)
    BY <2>1 DEF CoveredBy
  <2> QED BY <2>1, <2>2 DEF VersionInv, Allowed, Up, Effect
<1>8. CASE Load
  <2>1. /\ pc' = "replay" /\ UNCHANGED <<wal, recbin, json, store, pruned, tried>>
        /\ cursor' = flushed_seq'
    BY <1>8 DEF Load, diskVars, logVars, ckptFiles
  <2>2. ~lost /\ VersionInv(i)
    BY <1>0
  <2>3. \A n : CoveredBy(i, n)' <=> CoveredBy(i, n)
    BY <2>1 DEF CoveredBy
  <2>4. CoveredBy(i, cursor') => ver'[i] \in Allowed(i)
    <3>1. CASE Usable /\ LoadFromCheckpoint
      BY <2>1, <2>2, <3>1 DEF Usable, LoadFromCheckpoint, VersionInv, Allowed
    <3>2. CASE ~Usable /\ LoadNothing
      <4>1. ~pruned /\ ver'[i] = 0 /\ cursor' = 0
        BY <2>1, <3>2 DEF LoadNothing, None
      <4> QED BY <2>2, <4>1 DEF VersionInv, Allowed
    <3> QED BY <1>8, <3>1, <3>2 DEF Load
  <2> QED BY <2>1, <2>2, <2>3, <2>4 DEF VersionInv, Allowed, Up, Effect
<1>9. ASSUME NEW w \in wal, Replay(w) PROVE VersionInv(i)'
  <2>1. /\ pc = "replay" /\ pc' = "replay" /\ cursor' = w.seq /\ ~lost
        /\ UNCHANGED <<wal, recbin, json, store, pruned, tried>>
        /\ ver' = VerAfter(w.kind, [j \in {w.id} |-> w.seq])
        /\ \A x \in wal : x.seq > cursor => w.seq <= x.seq
    BY <1>0, <1>9 DEF Replay, diskVars, logVars, ckptFiles, history
  <2>2. VersionInv(i) /\ LogInv
    BY <2>1
  <2>3. \A n : CoveredBy(i, n)' <=> CoveredBy(i, n)
    BY <2>1 DEF CoveredBy
  <2>4. ASSUME CoveredBy(i, w.seq) PROVE ver'[i] \in Allowed(i)
    <3>1. CASE w.id = i
      <4>1. ver'[i] = Effect(w)
        BY <2>1, <3>1 DEF VerAfter, Effect
      <4> QED BY <2>2, <2>4, <3>1, <4>1 DEF VersionInv, Allowed
    <3>2. CASE w.id # i
      <4>1. ver'[i] = ver[i]
        BY <2>1, <3>2 DEF VerAfter
      <4>2. ASSUME NEW x \in wal, x.id = i PROVE x.seq <= cursor
        <5>1. x.seq <= w.seq /\ x.seq # w.seq
          BY <2>2, <2>4, <3>2, <4>2 DEF CoveredBy, LogInv
        <5> QED BY <2>1, <5>1 DEF TypeOK
      <4>3. CoveredBy(i, cursor)
        BY <4>2 DEF CoveredBy
      <4> QED BY <2>1, <2>2, <4>1, <4>3 DEF VersionInv, Allowed
    <3> QED BY <3>1, <3>2
  <2> QED BY <2>1, <2>2, <2>3, <2>4 DEF VersionInv, Allowed, Up, Effect
<1>10. CASE OpenDone
  <2>1. /\ pc = "replay" /\ pc' = "idle" /\ ~lost
        /\ UNCHANGED <<ver, wal, recbin, json, store, pruned, tried>>
        /\ CoveredBy(i, cursor)
    BY <1>0, <1>10 DEF OpenDone, CoveredBy, diskVars, logVars, ckptFiles, history
  <2>2. VersionInv(i) /\ \A n : CoveredBy(i, n)' <=> CoveredBy(i, n)
    BY <2>1 DEF CoveredBy
  <2> QED BY <2>1, <2>2 DEF VersionInv, Allowed, Up, Effect
<1>11. CASE UNCHANGED vars
  <2>1. /\ ~lost /\ UNCHANGED <<pc, cursor, ver, wal, recbin, json, store, pruned, tried>>
    BY <1>0, <1>11 DEF vars, memVars, diskVars, logVars, ckptFiles, history
  <2>2. VersionInv(i) /\ \A n : CoveredBy(i, n)' <=> CoveredBy(i, n)
    BY <2>1 DEF CoveredBy
  <2> QED BY <2>1, <2>2 DEF VersionInv, Allowed, Up, Effect
<1> QED
  BY <1>1, <1>2, <1>3, <1>4, <1>5, <1>6, <1>7, <1>8, <1>9, <1>10, <1>11, QuietActions
  DEF Next, Checkpointing, Opening

-----------------------------------------------------------------------------
(* The invariant and what follows from it.                                 *)

(* The initial state satisfies the inductive invariant.                    *)
LEMMA InvInit == Init => Inv
<1> SUFFICES ASSUME Init PROVE Inv
  OBVIOUS
<1>1. TypeOK
  <2>1. high = 0 /\ None \in Versions /\ None \in [Id -> Nat]
    BY DEF Init, Versions, None
  <2>2. recbin \in [ver : Versions, emb : Versions]
    BY <2>1 DEF Init
  <2>3. json \in [flushed_seq : 0..high, next_seq : 0..(high + 1), record_count : Nat]
    BY <2>1 DEF Init, NoCheckpoint
  <2>4. /\ \A k \in DOMAIN segments : segments[k] \in 0..high
        /\ \A k \in DOMAIN segbin : segbin[k] \in 0..high
    BY DEF Init
  <2>5. /\ pruned \in BOOLEAN /\ lost \in BOOLEAN
        /\ adrift \subseteq wal /\ handle \in {"current", "unlinked", "rewound"}
    BY DEF Init
  <2>6. /\ ver \in Versions /\ emb \in Versions /\ buffer \in Versions
        /\ index \in Versions /\ idxbin \in Versions /\ idxmeta \in Versions
        /\ store \in Versions /\ vec \in Versions
        /\ segment_index \in [Id -> Nat] /\ segidx \in [Id -> Nat]
    BY <2>1 DEF Init
  <2>7. /\ pc \in Points /\ high \in Nat /\ ckpts \in Nat /\ crashes \in Nat
        /\ cursor \in Nat /\ last_seq \in 0..high /\ last_checkpoint_seq \in Nat
        /\ flushed_seq \in 0..high /\ max_seq_id \in 0..high
        /\ wal = {} /\ written = {} /\ tried \in [Id -> SUBSET (0..high)]
    BY <2>1 DEF Init, Points
  <2> QED BY <2>2, <2>3, <2>4, <2>5, <2>6, <2>7 DEF TypeOK
<1>2. CheckpointInv /\ HandleInv
  BY DEF Init, CheckpointInv, HandleInv, CheckpointSteps, AfterRecords, AfterJson
<1>3. LogInv
  BY DEF Init, LogInv, NoCheckpoint
<1>4. ASSUME NEW i \in Id PROVE VersionInv(i)
  <2>1. pc = "down" /\ json.record_count = 0 /\ wal = {} /\ store[i] = 0
    BY DEF Init, NoCheckpoint, None
  <2> QED BY <2>1 DEF VersionInv, Allowed, Up
<1> QED BY <1>1, <1>2, <1>3, <1>4 DEF Inv

(* Every step preserves the inductive invariant.                           *)
LEMMA InvStep == Inv /\ [Next]_vars => Inv'
<1> SUFFICES ASSUME Inv, [Next]_vars PROVE Inv'
  OBVIOUS
<1>1. TypeOK' /\ CheckpointInv' /\ HandleInv'
  BY TypeStep, CheckpointStep, HandleStep DEF Inv
<1>2. ~lost' => LogInv'
  BY LogStep DEF Inv
<1>3. ~lost' => \A i \in Id : VersionInv(i)'
  BY VersionStep DEF Inv
<1> QED BY <1>1, <1>2, <1>3 DEF Inv

(* Every reachable state satisfies the inductive invariant.                *)
LEMMA InvHolds == Spec => []Inv
  BY InvInit, InvStep, PTL DEF Spec

(* The variables keep their types, and every version anywhere is a seq     *)
(* that the log handed out.                                                *)
THEOREM CollectionTypeCorrect == Spec => []TypeOK
<1>1. Inv => TypeOK
  BY DEF Inv
<1> QED BY <1>1, InvHolds, PTL

(* No log position is used twice (checkpoint and load_checkpoint reopen    *)
(* the log at next_seq; collection.rs:402-413 and 259-276), through all    *)
(* crashes and failures before `lost' is set.  A handle that is rewound is *)
(* excepted: there checkpoint's own reopen failed on an emptied log        *)
(* (collection.rs:407), and the next append does use a position twice.     *)
THEOREM CollectionSeqsNeverReused == Spec => []SeqsNeverReused
<1>1. Inv => SeqsNeverReused
  BY DEF Inv, LogInv, SeqsNeverReused, Up
<1> QED BY <1>1, InvHolds, PTL

(* An open collection holds exactly the records, in the versions, that the *)
(* acknowledged writes left, whatever steps crashed or failed before       *)
(* (open, load_checkpoint, replay_after, write_ops, checkpoint;            *)
(* collection.rs:112-490), until `lost' is set: by a replay of a pruned    *)
(* log, or by going on with the handle that a late failure of prune or of  *)
(* the reopen after it left behind.                                        *)
THEOREM CollectionAckedVersionsSurvive == Spec => []AckedVersionsSurvive
<1>1. Inv => AckedVersionsSurvive
  BY DEF Inv, VersionInv, AckedVersionsSurvive
<1> QED BY <1>1, InvHolds, PTL

(* One step keeps the log complete above the catalog's watermark.          *)
LEMMA WatermarkStep ==
    ASSUME TypeOK, CheckpointInv, LogCompleteAboveWatermark, [Next]_vars, ~lost'
    PROVE  LogCompleteAboveWatermark'
<1> USE CollectionAssumption DEF LogCompleteAboveWatermark
<1>0. ~lost
  BY LostStays
<1>1. ASSUME NEW kind \in Kinds, NEW S \in (SUBSET Id) \ {{}}, NEW q \in Seqs(S),
             last_seq' = last_seq + Cardinality(S), high' = Larger(high, last_seq'),
             wal' = wal \cup Appended(kind, q), max_seq_id' = max_seq_id
      PROVE  LogCompleteAboveWatermark'
  <2> SUFFICES ASSUME NEW n \in (max_seq_id + 1)..high'
               PROVE  \E w \in wal' : w.seq = n
    BY <1>1
  <2>1. /\ DOMAIN q = S /\ Cardinality(S) \in Nat
        /\ \A k \in (last_seq + 1)..(last_seq + Cardinality(S)) : \E i \in S : q[i] = k
    BY BatchSeqs DEF TypeOK
  <2>2. CASE n <= high
    BY <1>0, <1>1, <2>2 DEF TypeOK
  <2>3. CASE n > high
    <3>1. n \in (last_seq + 1)..(last_seq + Cardinality(S))
      BY <1>1, <2>1, <2>3 DEF Larger, TypeOK
    <3>2. PICK i \in S : q[i] = n
      BY <2>1, <3>1
    <3>3. [seq |-> q[i], id |-> i, kind |-> kind] \in wal'
      BY <1>1, <2>1 DEF Appended
    <3> QED BY <3>2, <3>3
  <2> QED BY <2>2, <2>3 DEF TypeOK
<1>2. ASSUME NEW kind \in Kinds, NEW S \in (SUBSET Id) \ {{}}, Write(kind, S)
      PROVE LogCompleteAboveWatermark'
  <2>1. PICK q \in Seqs(S) : wal' = wal \cup Appended(kind, q)
    BY <1>2 DEF Write, Ready, AppendAll
  <2> QED BY <1>1, <1>2, <2>1 DEF Write, Ready, AppendAll
<1>3. ASSUME NEW kind \in Kinds, NEW S \in (SUBSET Id) \ {{}}, WriteError(kind, S)
      PROVE LogCompleteAboveWatermark'
  <2>1. PICK q \in Seqs(S) : wal' = wal \cup Appended(kind, q)
    BY <1>3 DEF WriteError, Ready, AppendAll
  <2> QED BY <1>1, <1>3, <2>1 DEF WriteError, Ready, AppendAll
<1>4. CASE BeginCheckpoint \/ Optimize \/ CheckpointError \/ ReopenLog \/ ReopenError \/ Crash
  BY <1>0, <1>4
  DEF BeginCheckpoint, Optimize, CheckpointError, ReopenLog, ReopenError, Crash, diskVars, logVars, history
<1>5. CASE WriteRecords \/ WriteIndexBin \/ WriteIndexMeta \/ WriteJson
  BY <1>0, <1>5 DEF WriteRecords, logVars, WriteIndexBin, WriteIndexMeta, WriteJson, history
<1>6. CASE WriteSegment \/ WriteSegmentIndex
  BY <1>0, <1>6 DEF WriteSegment, logVars, WriteSegmentIndex, history
<1>7. CASE AdvanceCatalog
  BY <1>0, <1>7 DEF AdvanceCatalog, logVars, Larger, history, TypeOK
<1>8. CASE PruneLog \/ LatePruneError
  <2>1. /\ flushed_seq <= max_seq_id /\ UNCHANGED <<max_seq_id, high>>
        /\ wal' = {w \in wal : w.seq > flushed_seq}
    BY <1>8 DEF PruneLog, LatePruneError, CutLog, KeptRecords, CheckpointInv
  <2> QED BY <1>0, <2>1 DEF TypeOK
<1>9. CASE Load \/ OpenDone
  BY <1>0, <1>9 DEF Load, OpenDone, diskVars, logVars, history
<1>10. ASSUME NEW w \in wal, Replay(w) PROVE LogCompleteAboveWatermark'
  BY <1>0, <1>10 DEF Replay, diskVars, logVars, history
<1>11. CASE UNCHANGED vars
  BY <1>0, <1>11 DEF vars, diskVars, logVars, history
<1> QED
  BY <1>2, <1>3, <1>4, <1>5, <1>6, <1>7, <1>8, <1>9, <1>10, <1>11
  DEF Next, Checkpointing, Opening

(* Nothing above the catalog's watermark is dropped from the log           *)
(* (checkpoint; collection.rs:398-415), before `lost' is set: not by a     *)
(* prune or a reopen that fails either, as long as the process goes on;    *)
(* and if it dies while some of it is in an unlinked file, that sets       *)
(* `lost'.                                                                 *)
THEOREM CollectionLogComplete == Spec => []LogCompleteAboveWatermark
<1>1. Init => LogCompleteAboveWatermark
  BY DEF Init, LogCompleteAboveWatermark
<1>2. Inv /\ LogCompleteAboveWatermark /\ [Next]_vars => LogCompleteAboveWatermark'
  BY WatermarkStep DEF Inv, LogCompleteAboveWatermark
<1> QED BY <1>1, <1>2, InvHolds, PTL DEF Spec

-----------------------------------------------------------------------------
(* The map that survives crashes.                                          *)

(* Steps that change nothing that DurableMap speaks of.                    *)
Unseen ==
    /\ (Up /\ Up' /\ ver' = ver) \/ (~ Up /\ ~ Up')
    /\ UNCHANGED <<store, tried, high, lost>>

(* They are stuttering steps of the map.                                   *)
LEMMA UnseenStutters == Unseen => UNCHANGED Map!vars
<1> SUFFICES ASSUME Unseen PROVE UNCHANGED Map!vars
  OBVIOUS
<1>1. (IF Up THEN ver ELSE None)' = IF Up THEN ver ELSE None
  BY DEF Unseen, None
<1>2. Up' = Up
  BY DEF Unseen, Up
<1> QED BY <1>1, <1>2 DEF Unseen, Map!vars

(* What the seqs of a batch make of its ids is a batch of the map.         *)
LEMMA BatchOfMap ==
    ASSUME TypeOK, LogInv, pc = "idle", handle # "rewound", NEW kind \in Kinds,
           NEW S \in (SUBSET Id) \ {{}}, NEW q \in Seqs(S),
           last_seq' = last_seq + Cardinality(S), high' = Larger(high, last_seq')
    PROVE  /\ high' \in Nat /\ high' > high
           /\ [i \in S |-> IF kind = "delete" THEN 0 ELSE q[i]] \in Map!Batches(S)
           /\ \A i \in S : VerAfter(kind, q)[i] = IF kind = "delete" THEN 0 ELSE q[i]
           /\ \A i \in Id \ S : VerAfter(kind, q)[i] = ver[i]
<1>1. /\ DOMAIN q = S /\ Cardinality(S) \in Nat \ {0}
      /\ q \in [S -> (last_seq + 1)..(last_seq + Cardinality(S))]
      /\ \A i, j \in S : q[i] = q[j] => i = j
  BY BatchSeqs DEF TypeOK
<1>2. last_seq = high /\ high \in Nat /\ high' = high + Cardinality(S)
  BY <1>1 DEF LogInv, Larger, TypeOK
<1>3. [i \in S |-> IF kind = "delete" THEN 0 ELSE q[i]] \in Map!Batches(S)
  <2>1. CASE kind = "delete"
    BY <2>1 DEF Map!Batches
  <2>2. CASE kind # "delete"
    <3>1. [i \in S |-> IF kind = "delete" THEN 0 ELSE q[i]] = q
      BY <1>1, <2>2
    <3>2. q \in [S -> (high + 1)..high']
      BY <1>1, <1>2
    <3> QED BY <1>1, <3>1, <3>2 DEF Map!Batches
  <2> QED BY <2>1, <2>2
<1> QED BY <1>1, <1>2, <1>3 DEF VerAfter

(* Every action is a step of the map or goes unseen.                       *)
LEMMA MapStep == ASSUME Inv, Inv', [Next]_vars PROVE [Map!Next]_(Map!vars)
<1>0. TypeOK /\ CheckpointInv /\ TypeOK'
  BY DEF Inv
<1>1. CASE lost'
  <2>1. Map!Degrade
    BY <1>1 DEF Map!Degrade
  <2> QED BY <2>1 DEF Map!Next
<1> SUFFICES ASSUME ~ lost' PROVE [Map!Next]_(Map!vars)
  BY <1>1
<1>2. ~ lost
  BY <1>0, LostStays
<1>3. LogInv /\ \A i \in Id : VersionInv(i)
  BY <1>2 DEF Inv
<1>4. ASSUME NEW kind \in Kinds, NEW S \in (SUBSET Id) \ {{}}, Write(kind, S)
      PROVE Map!Next
  <2>1. PICK q \in Seqs(S) :
           /\ ver' = VerAfter(kind, q)
           /\ store' = [i \in Id |-> IF i \in S THEN ver'[i] ELSE store[i]]
    BY <1>4 DEF Write, Ready, AppendAll
  <2>2. /\ pc = "idle" /\ Up /\ Up' /\ last_seq' = last_seq + Cardinality(S)
        /\ high' = Larger(high, last_seq') /\ ~ lost /\ lost' = lost
        /\ tried' = [i \in Id |-> IF i \in S THEN {} ELSE tried[i]]
    BY <1>0, <1>2, <1>4 DEF TypeOK, Write, Ready, AppendAll, Up
  <2> DEFINE f == [i \in S |-> IF kind = "delete" THEN 0 ELSE q[i]]
  <2>3. /\ high' \in Nat /\ high' > high /\ f \in Map!Batches(S)
        /\ \A i \in S : VerAfter(kind, q)[i] = f[i]
        /\ \A i \in Id \ S : VerAfter(kind, q)[i] = ver[i]
    <3>1. TypeOK /\ LogInv
      BY <1>0, <1>3
    <3>2. handle # "rewound"
      BY <1>4 DEF Write, AppendAll
    <3> QED BY <2>2, <3>1, <3>2, BatchOfMap
  <2>4. f \in Map!Batches(S) /\ ver' = Map!Over(f, S, ver) /\ store' = Map!Over(f, S, store)
    <3>1. ver' = [i \in Id |-> ver'[i]]
      BY <1>0 DEF TypeOK, Versions
    <3>2. ver' = Map!Over(f, S, ver)
      BY <2>1, <2>3, <3>1 DEF Map!Over
    <3>3. store' = Map!Over(f, S, store)
      BY <2>1, <2>3, <3>2 DEF Map!Over
    <3> QED BY <2>3, <3>2, <3>3
  <2> HIDE DEF f
  <2>5. Map!Write(S)
    BY <2>2, <2>3, <2>4 DEF Map!Write
  <2> QED BY <2>5 DEF Map!Next
<1>5. ASSUME NEW kind \in Kinds, NEW S \in (SUBSET Id) \ {{}}, WriteError(kind, S)
      PROVE Map!Next
  <2>1. PICK q \in Seqs(S) :
           tried' = [i \in Id |-> IF i \in S THEN tried[i] \cup {VerAfter(kind, q)[i]} ELSE tried[i]]
    BY <1>5 DEF WriteError, Ready, AppendAll
  <2>2. /\ pc = "idle" /\ Up /\ Up' /\ last_seq' = last_seq + Cardinality(S)
        /\ high' = Larger(high, last_seq') /\ ~ lost /\ UNCHANGED <<ver, store, lost>>
    BY <1>0, <1>2, <1>5 DEF TypeOK, WriteError, Ready, AppendAll, Up
  <2> DEFINE f == [i \in S |-> IF kind = "delete" THEN 0 ELSE q[i]]
  <2>3. /\ high' \in Nat /\ high' > high /\ f \in Map!Batches(S)
        /\ \A i \in S : VerAfter(kind, q)[i] = f[i]
    <3>1. TypeOK /\ LogInv
      BY <1>0, <1>3
    <3>2. handle # "rewound"
      BY <1>5 DEF WriteError, AppendAll
    <3> QED BY <2>2, <3>1, <3>2, BatchOfMap
  <2>4. tried' = [i \in Id |-> IF i \in S THEN tried[i] \cup {f[i]} ELSE tried[i]]
    BY <2>1, <2>3
  <2> HIDE DEF f
  <2>5. Map!FailedWrite(S)
    BY <2>2, <2>3, <2>4 DEF Map!FailedWrite
  <2> QED BY <2>5 DEF Map!Next
<1>6. CASE Quiet
  BY <1>6, UnseenStutters DEF Quiet, Unseen
<1>7. CASE \/ WriteRecords \/ WriteJson \/ PruneLog \/ LatePruneError
           \/ ReopenLog \/ ReopenError
  <2>1. Up /\ Up' /\ UNCHANGED <<ver, store, tried, high>>
    BY <1>7
    DEF WriteRecords, WriteJson, PruneLog, LatePruneError, ReopenLog, ReopenError, Up, memVars, history
  <2>2. lost' = lost
    BY <1>0, <1>2 DEF TypeOK
  <2> QED BY <2>1, <2>2, UnseenStutters DEF Unseen
<1>8. CASE Crash
  <2>1. ~ Up' /\ UNCHANGED <<store, tried, high, lost>>
    BY <1>0, <1>2, <1>8 DEF Crash, Up, TypeOK
  <2>2. CASE Up
    <3>1. Map!Stop
      BY <2>1, <2>2 DEF Map!Stop, Map!Nothing, None
    <3> QED BY <3>1 DEF Map!Next
  <2>3. CASE ~ Up
    BY <2>1, <2>3, UnseenStutters DEF Unseen
  <2> QED BY <2>2, <2>3
<1>9. CASE Load
  <2>1. ~ Up /\ ~ Up' /\ UNCHANGED <<store, tried, high, lost>>
    BY <1>0, <1>2, <1>9 DEF Load, Up, TypeOK
  <2> QED BY <2>1, UnseenStutters DEF Unseen
<1>10. CASE \E w \in wal : Replay(w)
  <2>1. ~ Up /\ ~ Up' /\ UNCHANGED <<store, tried, high, lost>>
    BY <1>10 DEF Replay, Up, history
  <2> QED BY <2>1, UnseenStutters DEF Unseen
<1>11. CASE OpenDone
  <2>1. /\ ~ Up /\ Up' /\ ver' = ver /\ UNCHANGED <<store, tried, high, lost>>
        /\ pc = "replay" /\ \A i \in Id : CoveredBy(i, cursor)
    BY <1>11 DEF OpenDone, Up, history, CoveredBy
  <2>2. \A i \in Id : ver[i] \in {store[i]} \cup tried[i]
    BY <1>3, <2>1 DEF VersionInv, Allowed
  <2>3. ver \in [Id -> Nat]
    BY <1>0 DEF TypeOK, Versions
  <2>4. Map!Start
    BY <2>1, <2>2, <2>3 DEF Map!Start
  <2> QED BY <2>4 DEF Map!Next
<1>12. CASE UNCHANGED vars
  <2>1. Unseen
    BY <1>12 DEF vars, memVars, history, Unseen, Up
  <2> QED BY <2>1, UnseenStutters
<1> QED
  BY <1>4, <1>5, <1>6, <1>7, <1>8, <1>9, <1>10, <1>11, <1>12, QuietActions
  DEF Next, Checkpointing, Opening

(* A collection is a map that survives crashes: for every workload and     *)
(* every choice of crash points and failing steps, what its clients see is *)
(* a behaviour of DurableMap, in which a write is one step, a failed write *)
(* is seen only from the next start on, and logs, checkpoints and replays  *)
(* do not exist (write_ops, apply_operation, checkpoint, open,             *)
(* load_checkpoint, replay_after; collection.rs:112-573).  Every failure   *)
(* is a stuttering step of the map, that of wal.prune after its rename and *)
(* of the reopen after it included; what ends the map's promise is a next  *)
(* open that lacks acknowledged records, or a step that leads to one       *)
(* (`lost').                                                               *)
THEOREM CollectionImplementsMap == Spec => ImplementsDurableMap
<1>1. Init => Map!Init
  <2> SUFFICES ASSUME Init PROVE Map!Init
    OBVIOUS
  <2>1. ~ Up
    BY DEF Init, Up
  <2> QED BY <2>1 DEF Init, Map!Init, Map!Nothing, None
<1>2. Inv /\ Inv' /\ [Next]_vars => [Map!Next]_(Map!vars)
  BY MapStep
<1> QED BY <1>1, <1>2, InvHolds, PTL DEF Spec, ImplementsDurableMap, Map!Spec

-----------------------------------------------------------------------------
(* Where nothing is lost.                                                  *)

(* The window in which records.bin is new and checkpoint.json is not, and  *)
(* the settings in which no checkpoint ends inside it.                     *)
TornWindow == {"index", "imeta", "json"}
NeverTorn  == (CrashAt \cup FailAt) \cap TornWindow = {}

(* The settings in which wal.prune does not fail after its rename, nor     *)
(* Wal::open after wal.prune.                                              *)
NeverLate == FailAt \cap {"late", "reopen"} = {}

(* Outside the window a checkpoint that exists can be loaded, and the log  *)
(* is cut only once there is one; the log's handle is the right one.       *)
LoadableInv ==
    /\ ~ lost /\ handle = "current"
    /\ pc \notin TornWindow /\ json.record_count # 0 => Usable
    /\ pruned => json.record_count # 0

(* Steps that neither leave the window nor touch the checkpoint.           *)
LEMMA LoadableKept ==
    ASSUME LoadableInv, UNCHANGED <<handle, recbin, json, pruned, lost>>,
           pc \in TornWindow => pc' \in TornWindow
    PROVE  LoadableInv'
BY DEF LoadableInv, Usable, Live

(* Every action keeps the checkpoint loadable.                             *)
LEMMA LoadableStep == ASSUME NeverTorn, NeverLate, Inv, LoadableInv, [Next]_vars PROVE LoadableInv'
<1>0. CheckpointInv /\ HandleInv /\ lost \in BOOLEAN
  BY DEF Inv, TypeOK
<1>1. ASSUME NEW kind \in Kinds, NEW S \in (SUBSET Id) \ {{}}, Write(kind, S) \/ WriteError(kind, S)
      PROVE LoadableInv'
  <2>1. lost' = lost /\ UNCHANGED <<handle, recbin, json, pruned>> /\ pc \notin TornWindow
    BY <1>0, <1>1
    DEF Write, WriteError, Ready, AppendAll, ckptFiles, LoadableInv, TornWindow
  <2> QED BY <2>1, LoadableKept
<1>2. CASE BeginCheckpoint \/ Optimize \/ WriteIndexBin \/ WriteIndexMeta
  BY <1>2, LoadableKept
  DEF BeginCheckpoint, Ready, Optimize, WriteIndexBin, WriteIndexMeta, diskVars, logVars, ckptFiles, history, TornWindow
<1>3. CASE WriteRecords
  BY <1>3 DEF WriteRecords, logVars, history, LoadableInv, TornWindow
<1>4. CASE WriteJson
  <2>1. recbin' = recbin /\ recbin.ver = ver /\ ~ lost' /\ Live(ver) # {} /\ handle' = "current"
    BY <1>0, <1>4 DEF WriteJson, logVars, CheckpointInv, AfterRecords, CheckpointSteps, LoadableInv
  <2>2. json'.record_count = Cardinality(Live(ver)) /\ json'.record_count # 0
    BY <1>4, <2>1, IdSets DEF WriteJson, logVars, CheckpointMeta, Live
  <2> QED BY <2>1, <2>2 DEF LoadableInv, Usable, Live
<1>5. CASE WriteSegment \/ WriteSegmentIndex \/ AdvanceCatalog
  BY <1>5, LoadableKept
  DEF WriteSegment, logVars, WriteSegmentIndex, AdvanceCatalog, ckptFiles, history, TornWindow
<1>6. CASE PruneLog
  <2>1. /\ pc \notin TornWindow /\ UNCHANGED <<recbin, json, lost>> /\ handle' = "current"
        /\ Live(ver) # {} /\ json.record_count = Cardinality(Live(ver))
    BY <1>0, <1>6
    DEF PruneLog, CutLog, ckptFiles, CheckpointInv, CheckpointSteps, AfterJson, CheckpointMeta, TornWindow
  <2>2. json.record_count # 0
    BY <2>1, IdSets DEF Live
  <2> QED BY <2>1, <2>2 DEF LoadableInv, Usable, Live
<1>7. CASE CheckpointError \/ ReopenLog
  <2>1. UNCHANGED <<handle, recbin, json, pruned, lost>> /\ pc \notin TornWindow
    BY <1>7
    DEF CheckpointError, ReopenLog, diskVars, logVars, ckptFiles, history, NeverTorn, TornWindow
  <2> QED BY <2>1, LoadableKept
<1>8. CASE LatePruneError \/ ReopenError
  BY <1>8 DEF LatePruneError, ReopenError, NeverLate
<1>9. CASE Crash
  <2>1. /\ UNCHANGED <<recbin, json, pruned>> /\ pc \notin TornWindow
        /\ handle' = "current" /\ ~ lost'
    BY <1>0, <1>9 DEF Crash, ckptFiles, NeverTorn, LoadableInv, HandleInv
  <2> QED BY <2>1 DEF LoadableInv, Usable, Live
<1>10. CASE Load
  <2>1. pc \notin TornWindow /\ UNCHANGED <<handle, recbin, json, pruned>>
    BY <1>10 DEF Load, diskVars, logVars, ckptFiles, TornWindow
  <2>2. ~ lost'
    BY <1>10, <2>1 DEF Load, LoadFromCheckpoint, LoadNothing, LoadableInv
  <2> QED BY <2>1, <2>2 DEF LoadableInv, Usable, Live
<1>11. CASE (\E w \in wal : Replay(w)) \/ OpenDone
  BY <1>11, LoadableKept DEF Replay, OpenDone, diskVars, logVars, ckptFiles, history, TornWindow
<1>12. CASE UNCHANGED vars
  BY <1>12, LoadableKept DEF vars, diskVars, logVars, ckptFiles, history
<1> QED
  BY <1>1, <1>2, <1>3, <1>4, <1>5, <1>6, <1>7, <1>8, <1>9, <1>10, <1>11, <1>12
  DEF Next, Checkpointing, Opening

(* Three of the failures modelled can lose an acknowledged record, and no  *)
(* other.                                                                  *)
(* Where no crash and no I/O error ends a checkpoint between records.bin   *)
(* and checkpoint.json (checkpoint; collection.rs:311-341; the run         *)
(* col_torn_checkpoint loses records there), wal.prune does not fail after *)
(* its rename (rekha-wal/src/lib.rs:409-421) and Wal::open not after       *)
(* wal.prune (collection.rs:407-415), an open collection holds every       *)
(* record that acknowledged writes left, and open never replays a log that *)
(* has been pruned (load_checkpoint), after however many crashes and       *)
(* failures at any other step.                                             *)
THEOREM CollectionLosesNothing == NeverTorn /\ NeverLate => (Spec => []NoAckedRecordLost)
<1> SUFFICES ASSUME NeverTorn, NeverLate PROVE Spec => []NoAckedRecordLost
  OBVIOUS
<1>1. Init => LoadableInv
  BY DEF Init, LoadableInv, NoCheckpoint
<1>2. Inv /\ LoadableInv /\ [Next]_vars => LoadableInv'
  BY LoadableStep
<1>3. Inv /\ LoadableInv => NoAckedRecordLost
  BY NotInDoubt DEF Inv, LoadableInv, VersionInv, NoAckedRecordLost
<1> QED BY <1>1, <1>2, <1>3, InvHolds, PTL DEF Spec

-----------------------------------------------------------------------------
(* The buffer and the index.                                               *)

(* What is buffered is in the log, above the watermark.                    *)
BufferInv ==
    /\ pc = "replay" => flushed_seq <= cursor
    /\ ~lost => \A i \in Live(buffer) :
            /\ buffer[i] > flushed_seq
            /\ \E w \in wal : w.seq = buffer[i] /\ w.id = i

(* Flushing empties the buffer; without it the watermark stays.            *)
LEMMA FlushCases ==
    ASSUME NEW needed, NEW b, NEW x, FlushIfNeeded(needed, b, x)
    PROVE  \/ buffer' = None /\ index' = [i \in Id |-> IF b[i] # 0 THEN b[i] ELSE x[i]]
           \/ buffer' = b /\ index' = x /\ flushed_seq' = flushed_seq
BY DEF FlushIfNeeded, FlushBuffer

(* Steps that leave the buffer and the watermark alone, or empty it, and   *)
(* cut nothing from the log above it.                                      *)
LEMMA BufferKept ==
    ASSUME TypeOK, BufferInv, lost => lost', pc' # "replay",
           \/ buffer' = None
           \/ /\ buffer' = buffer /\ flushed_seq' = flushed_seq
              /\ \A w \in wal : w.seq > flushed_seq => w \in wal'
    PROVE  BufferInv'
<1>1. CASE buffer' = None
  BY <1>1 DEF BufferInv, Live, None
<1>2. CASE /\ buffer' = buffer /\ flushed_seq' = flushed_seq
           /\ \A w \in wal : w.seq > flushed_seq => w \in wal'
  <2>1. ASSUME ~ lost', NEW i \in Live(buffer)
        PROVE  buffer[i] > flushed_seq /\ \E w \in wal' : w.seq = buffer[i] /\ w.id = i
    <3>1. PICK w \in wal : w.seq = buffer[i] /\ w.id = i /\ buffer[i] > flushed_seq
      BY <2>1 DEF BufferInv
    <3> QED BY <1>2, <3>1
  <2>2. Live(buffer)' = Live(buffer)
    BY <1>2 DEF Live
  <2> QED BY <1>2, <2>1, <2>2 DEF BufferInv
<1> QED BY <1>1, <1>2

(* Every action keeps the buffered vectors in the log.                     *)
LEMMA BufferStep == ASSUME Inv, BufferInv, [Next]_vars PROVE BufferInv'
<1>0. TypeOK /\ CheckpointInv /\ (~ lost => LogInv) /\ (lost => lost')
  BY LostStays DEF Inv
<1>1. ASSUME NEW kind \in Kinds, NEW S \in (SUBSET Id) \ {{}}, Write(kind, S)
      PROVE BufferInv'
  <2>1. PICK q \in Seqs(S) :
           /\ wal' = wal \cup Appended(kind, q)
           /\ FlushIfNeeded(kind \in {"add", "upsert"},
                            VectorsAfter(buffer, kind, q), IndexAfter(kind, q))
    BY <1>1 DEF Write, Ready, AppendAll
  <2>2. DOMAIN q = S /\ q \in [S -> (last_seq + 1)..(last_seq + Cardinality(S))] /\ Cardinality(S) \in Nat
    BY <1>0, BatchSeqs DEF TypeOK
  <2>3. pc' # "replay" /\ pc = "idle" /\ (handle = "rewound" => lost')
    BY <1>1 DEF Write, Ready, AppendAll
  <2>4. CASE buffer' = None
    BY <1>0, <2>3, <2>4, BufferKept
  <2>5. CASE buffer' = VectorsAfter(buffer, kind, q) /\ flushed_seq' = flushed_seq
    <3>1. ASSUME ~ lost', NEW i \in Id, buffer'[i] # 0
          PROVE  buffer'[i] > flushed_seq /\ \E w \in wal' : w.seq = buffer'[i] /\ w.id = i
      <4>1. CASE i \in S /\ kind # "update"
        <5>1. buffer'[i] = q[i] /\ [seq |-> q[i], id |-> i, kind |-> kind] \in wal'
          BY <2>1, <2>2, <2>5, <3>1, <4>1 DEF VectorsAfter, Appended
        <5>2. last_seq = high /\ q[i] > high /\ high >= flushed_seq
          BY <1>0, <2>2, <2>3, <3>1, <4>1 DEF LogInv, TypeOK
        <5>3. q[i] > flushed_seq
          BY <1>0, <2>2, <4>1, <5>2 DEF TypeOK
        <5> QED BY <5>1, <5>3
      <4>2. CASE ~ (i \in S /\ kind # "update")
        <5>1. buffer'[i] = buffer[i] /\ i \in Live(buffer)
          BY <2>2, <2>5, <3>1, <4>2 DEF VectorsAfter, Live
        <5> QED BY <1>0, <2>1, <3>1, <5>1 DEF BufferInv
      <4> QED BY <4>1, <4>2
    <3> QED BY <2>3, <2>5, <3>1 DEF BufferInv, Live
  <2> QED BY <2>1, <2>4, <2>5, FlushCases
<1>2. ASSUME NEW kind \in Kinds, NEW S \in (SUBSET Id) \ {{}}, WriteError(kind, S)
      PROVE BufferInv'
  BY <1>0, <1>2, BufferKept DEF WriteError, Ready, AppendAll
<1>3. CASE BeginCheckpoint \/ Optimize
  <2>1. /\ pc' # "replay" /\ wal' = wal
        /\ buffer' = None \/ (buffer' = buffer /\ flushed_seq' = flushed_seq)
    BY <1>3 DEF BeginCheckpoint, Ready, Optimize, memVars, diskVars, logVars, history
  <2> QED BY <1>0, <2>1, BufferKept
<1>4. CASE WriteRecords \/ WriteIndexBin \/ WriteIndexMeta \/ WriteJson
  <2>1. pc' # "replay" /\ wal' = wal /\ buffer' = buffer /\ flushed_seq' = flushed_seq
    BY <1>4 DEF WriteRecords, logVars, WriteIndexBin, WriteIndexMeta, WriteJson, memVars, history
  <2> QED BY <1>0, <2>1, BufferKept
<1>5. CASE \/ WriteSegment \/ WriteSegmentIndex \/ AdvanceCatalog \/ ReopenLog
           \/ CheckpointError \/ ReopenError
  <2>1. pc' # "replay" /\ wal' = wal /\ buffer' = buffer /\ flushed_seq' = flushed_seq
    BY <1>5
    DEF WriteSegment, WriteSegmentIndex, AdvanceCatalog, ReopenLog, CheckpointError, ReopenError,
        memVars, diskVars, logVars, history
  <2> QED BY <1>0, <2>1, BufferKept
<1>6. CASE PruneLog \/ LatePruneError
  <2>1. pc' # "replay" /\ buffer' = buffer /\ flushed_seq' = flushed_seq
        /\ wal' = {w \in wal : w.seq > flushed_seq}
    BY <1>6 DEF PruneLog, LatePruneError, CutLog, KeptRecords, memVars
  <2> QED BY <1>0, <2>1, BufferKept
<1>7. CASE Crash
  BY <1>0, <1>7, BufferKept DEF Crash
<1>8. CASE Load
  <2>1. buffer' = None /\ cursor' = flushed_seq' /\ flushed_seq' \in Nat
    <3>1. TypeOK'
      BY <1>0, TypeStep
    <3> QED BY <1>8, <3>1 DEF Load, TypeOK
  <2> QED BY <2>1 DEF BufferInv, Live, None
<1>9. ASSUME NEW w \in wal, Replay(w) PROVE BufferInv'
  <2>1. /\ pc = "replay" /\ w.seq > cursor /\ cursor' = w.seq /\ lost' = lost /\ wal' = wal
        /\ buffer' = VectorsAfter(buffer, w.kind, [i \in {w.id} |-> w.seq]) /\ flushed_seq' = flushed_seq
    BY <1>9 DEF Replay, diskVars, logVars, history
  <2>2. w.seq > flushed_seq /\ w.seq \in Nat /\ flushed_seq \in Nat
    BY <1>0, <2>1 DEF BufferInv, TypeOK
  <2>3. ASSUME ~ lost', NEW i \in Id, buffer'[i] # 0
        PROVE  buffer'[i] > flushed_seq /\ \E x \in wal : x.seq = buffer'[i] /\ x.id = i
    <3>1. CASE i = w.id /\ w.kind # "update"
      <4>1. buffer'[i] = w.seq
        BY <2>1, <2>3, <3>1 DEF VectorsAfter
      <4> QED BY <2>2, <3>1, <4>1
    <3>2. CASE ~ (i = w.id /\ w.kind # "update")
      <4>1. buffer'[i] = buffer[i] /\ i \in Live(buffer)
        BY <2>1, <2>3, <3>2 DEF VectorsAfter, Live
      <4> QED BY <1>0, <2>3, <4>1 DEF BufferInv
    <3> QED BY <3>1, <3>2
  <2> QED BY <2>1, <2>2, <2>3 DEF BufferInv, Live
<1>10. CASE OpenDone
  <2>1. /\ pc' # "replay" /\ wal' = wal
        /\ buffer' = None \/ (buffer' = buffer /\ flushed_seq' = flushed_seq)
    BY <1>10, FlushCases DEF OpenDone, diskVars, logVars, history
  <2> QED BY <1>0, <2>1, BufferKept
<1>11. CASE UNCHANGED vars
  BY <1>11 DEF vars, memVars, diskVars, logVars, history, BufferInv, Live
<1> QED
  BY <1>1, <1>2, <1>3, <1>4, <1>5, <1>6, <1>7, <1>8, <1>9, <1>10, <1>11
  DEF Next, Checkpointing, Opening

(* A vector that is only in the buffer is above the watermark and in the   *)
(* log, so that no prune drops it and every replay brings it back          *)
(* (flush_buffer, checkpoint, replay_after), until `lost' is set.           *)
THEOREM CollectionBufferedAreLogged == Spec => []BufferedVectorsAreLogged
<1>1. Init => BufferInv
  BY DEF Init, BufferInv, Live, None
<1>2. Inv /\ BufferInv /\ [Next]_vars => BufferInv'
  BY BufferStep
<1>3. BufferInv => BufferedVectorsAreLogged
  BY DEF BufferInv, BufferedVectorsAreLogged
<1> QED BY <1>1, <1>2, <1>3, InvHolds, PTL DEF Spec

(* A search may find i.                                                    *)
Held(i) == index[i] # 0 \/ buffer[i] # 0

(* What a search may find is live, or will be seen not to be by the rest   *)
(* of the replay; and what the saved index holds is live, or the log has   *)
(* something of it above the saved watermark.                              *)
IndexInv(i) ==
    /\ Up /\ Held(i) => ver[i] # 0
    /\ pc = "replay" /\ Held(i) => ver[i] # 0 \/ ~ CoveredBy(i, cursor)
    /\ pc = "down" => ~ Held(i)
    /\ idxmeta[i] # 0 => store[i] # 0 \/ ~ CoveredBy(i, json.flushed_seq)

SearchInv ==
    /\ pc = "json" => idxmeta = index
    /\ ~ lost => \A i \in Id \ indoubt : IndexInv(i)

(* index.meta is written just before checkpoint.json.                      *)
LEMMA SavedIndexStep == ASSUME SearchInv, [Next]_vars, pc' = "json" PROVE idxmeta' = index'
<1>1. CASE UNCHANGED vars
  BY <1>1 DEF vars, memVars, diskVars, logVars, ckptFiles, SearchInv
<1>2. CASE WriteIndexMeta
  BY <1>2 DEF WriteIndexMeta, logVars, memVars
<1>3. ASSUME NEW w \in wal, Replay(w) PROVE FALSE
  BY <1>3 DEF Replay
<1>4. ASSUME NEW kind, NEW S, Write(kind, S) PROVE FALSE
  <2>1. pc' \in {"records", "idle"}
    BY <1>4 DEF Write
  <2> QED BY <2>1
<1>5. ASSUME NEW kind, NEW S, WriteError(kind, S) PROVE FALSE
  BY <1>5 DEF WriteError, Ready
<1> QED
  BY <1>1, <1>2, <1>3, <1>4, <1>5
  DEF Next, Checkpointing, Opening, BeginCheckpoint, Optimize, WriteRecords, WriteIndexBin, WriteJson,
      WriteSegment, WriteSegmentIndex, AdvanceCatalog, PruneLog, LatePruneError, ReopenLog, ReopenError,
      CheckpointError, Crash, Load, OpenDone

(* Steps that leave the log, the files and the records of i alone, and let *)
(* a search find nothing new.                                              *)
LEMMA IndexKept ==
    ASSUME NEW i, IndexInv(i), Up, Up', ver'[i] = ver[i], store'[i] = store[i],
           Held(i)' => Held(i) \/ ver[i] # 0, idxmeta'[i] = idxmeta[i], json' = json,
           \A w \in wal : w.id = i /\ w.seq > json.flushed_seq => w \in wal', TypeOK
    PROVE  IndexInv(i)'
<1>1. ~ CoveredBy(i, json.flushed_seq) => ~ CoveredBy(i, json.flushed_seq)'
  BY DEF CoveredBy, TypeOK
<1> QED BY <1>1 DEF IndexInv, Up

(* Every action keeps deleted records out of the index.                    *)
LEMMA IndexStep ==
    ASSUME Inv, Inv', SearchInv, [Next]_vars, ~ lost', NEW i \in Id \ indoubt'
    PROVE  IndexInv(i)'
<1>0. TypeOK /\ CheckpointInv /\ HandleInv /\ LogInv /\ ~ lost
  BY LostStays DEF Inv
<1>1. ASSUME NEW kind \in Kinds, NEW S \in (SUBSET Id) \ {{}}, Write(kind, S)
      PROVE IndexInv(i)'
  <2>1. PICK q \in Seqs(S) :
           /\ wal' = wal \cup Appended(kind, q) /\ ver' = VerAfter(kind, q)
           /\ store' = [j \in Id |-> IF j \in S THEN ver'[j] ELSE store[j]]
           /\ FlushIfNeeded(kind \in {"add", "upsert"},
                            VectorsAfter(buffer, kind, q), IndexAfter(kind, q))
    BY <1>1 DEF Write, Ready, AppendAll
  <2>2. DOMAIN q = S /\ q \in [S -> (last_seq + 1)..(last_seq + Cardinality(S))] /\ Cardinality(S) \in Nat
    BY <1>0, BatchSeqs DEF TypeOK
  <2>3. Up /\ Up' /\ json' = json /\ idxmeta' = idxmeta /\ pc = "idle" /\ indoubt' = indoubt \ S
        /\ handle # "rewound"
    BY <1>1 DEF Write, Ready, AppendAll, Up, ckptFiles, indoubt
  <2>4. Held(i)' => VectorsAfter(buffer, kind, q)[i] # 0 \/ IndexAfter(kind, q)[i] # 0
    BY <2>1, FlushCases DEF Held, None
  <2>5. CASE i \in S
    <3>1. q[i] > high /\ q[i] \in Nat /\ q[i] # 0
      BY <1>0, <2>2, <2>3, <2>5 DEF LogInv, TypeOK
    <3>2. Held(i)' => ver'[i] # 0
      BY <2>1, <2>2, <2>4, <2>5, <3>1 DEF VerAfter, VectorsAfter, IndexAfter
    <3>3. [seq |-> q[i], id |-> i, kind |-> kind] \in wal'
      BY <2>1, <2>2, <2>5 DEF Appended
    <3>4. q[i] > json.flushed_seq
      BY <1>0, <3>1 DEF TypeOK
    <3>5. ~ CoveredBy(i, json.flushed_seq)'
      <4>1. ~ (q[i] <= json.flushed_seq)
        BY <1>0, <3>1, <3>4 DEF TypeOK
      <4> QED BY <2>3, <3>3, <4>1 DEF CoveredBy
    <3> QED BY <2>3, <3>2, <3>5 DEF IndexInv, Up
  <2>6. CASE i \notin S
    <3>1. ver'[i] = ver[i] /\ store'[i] = store[i] /\ (Held(i)' => Held(i)) /\ i \in Id \ indoubt
      BY <2>1, <2>2, <2>3, <2>4, <2>6 DEF VerAfter, VectorsAfter, IndexAfter, Held
    <3> QED BY <1>0, <2>1, <2>3, <3>1, IndexKept DEF SearchInv
  <2> QED BY <2>5, <2>6
<1>2. ASSUME NEW kind \in Kinds, NEW S \in (SUBSET Id) \ {{}}, WriteError(kind, S)
      PROVE IndexInv(i)'
  <2>1. PICK q \in Seqs(S) : wal' = wal \cup Appended(kind, q)
    BY <1>2 DEF WriteError, Ready, AppendAll
  <2>2. /\ Up /\ Up' /\ UNCHANGED <<ver, store, buffer, index, idxmeta, json>> /\ i \in Id \ indoubt
    BY <1>2 DEF WriteError, Ready, AppendAll, Up, ckptFiles, indoubt
  <2> QED BY <1>0, <2>1, <2>2, IndexKept DEF SearchInv, Held
<1>3. CASE BeginCheckpoint \/ Optimize \/ ReopenLog \/ CheckpointError \/ ReopenError
  <2>1. /\ Up /\ Up' /\ UNCHANGED <<ver, store, idxmeta, json, wal, indoubt>>
        /\ Held(i)' => Held(i) \/ ver[i] # 0
    <3>1. CASE BeginCheckpoint \/ ReopenLog \/ CheckpointError \/ ReopenError
      BY <3>1, DoubtKept
      DEF BeginCheckpoint, Ready, ReopenLog, CheckpointError, ReopenError, CheckpointSteps, memVars,
          diskVars, logVars, ckptFiles, history, Up, Held
    <3>2. CASE Optimize
      BY <3>2, DoubtKept DEF Optimize, Ready, diskVars, logVars, ckptFiles, history, Up, Held, None
    <3> QED BY <1>3, <3>1, <3>2
  <2> QED BY <1>0, <2>1, IndexKept DEF SearchInv
<1>4. CASE WriteRecords \/ WriteIndexBin \/ WriteSegment \/ WriteSegmentIndex \/ AdvanceCatalog
  <2>1. Up /\ Up' /\ UNCHANGED <<ver, store, idxmeta, json, wal, indoubt, index, buffer>>
    BY <1>4, DoubtKept DEF WriteRecords, logVars, WriteIndexBin, WriteSegment, WriteSegmentIndex, AdvanceCatalog, memVars,
                ckptFiles, history, Up
  <2> QED BY <1>0, <2>1, IndexKept DEF SearchInv, Held
<1>5. CASE WriteIndexMeta \/ WriteJson
  <2>1. /\ Up /\ Up' /\ UNCHANGED <<ver, store, wal, indoubt, index, buffer>> /\ idxmeta' = index
    BY <1>5, DoubtKept DEF WriteIndexMeta, logVars, WriteJson, memVars, history, Up, SearchInv
  <2>2. IndexInv(i) /\ VersionInv(i)
    BY <1>0, <2>1 DEF SearchInv, Inv
  <2>3. index[i] # 0 => store[i] # 0
    BY <2>1, <2>2, NotInDoubt DEF IndexInv, VersionInv, Held
  <2> QED BY <2>1, <2>2, <2>3 DEF IndexInv, Held, Up
<1>6. CASE PruneLog \/ LatePruneError
  <2>1. /\ Up /\ Up' /\ UNCHANGED <<ver, store, idxmeta, json, indoubt, index, buffer>>
        /\ wal' = {w \in wal : w.seq > flushed_seq} /\ json.flushed_seq = flushed_seq
    BY <1>0, <1>6, DoubtKept
    DEF PruneLog, LatePruneError, CutLog, KeptRecords, memVars, ckptFiles, Up, CheckpointInv, AfterJson, CheckpointMeta
  <2> QED BY <1>0, <2>1, IndexKept DEF SearchInv, Held
<1>7. CASE Crash
  <2>1. pc' = "down" /\ ~ Held(i)' /\ UNCHANGED <<wal, json, idxmeta, store, indoubt>>
    <3>1. adrift = {}
      BY <1>7 DEF Crash
    <3> QED BY <1>7, <3>1, DoubtKept DEF Crash, ckptFiles, Held, None
  <2>2. IndexInv(i)
    BY <1>0, <2>1 DEF SearchInv
  <2> QED BY <2>1, <2>2 DEF IndexInv, Up, CoveredBy
<1>8. CASE Load
  <2>1. pc' = "replay" /\ UNCHANGED <<wal, json, idxmeta, store, indoubt>> /\ cursor' = flushed_seq'
        /\ buffer' = None
    BY <1>8, DoubtKept DEF Load, diskVars, logVars, ckptFiles
  <2>2. IndexInv(i) /\ VersionInv(i)
    BY <1>0, <2>1 DEF SearchInv, Inv
  <2>3. ASSUME Held(i)' PROVE ver'[i] # 0 \/ ~ CoveredBy(i, cursor)'
    <3>1. index'[i] # 0
      BY <2>1, <2>3 DEF Held, None
    <3>2. Usable /\ LoadFromCheckpoint
      BY <1>8, <3>1 DEF Load, LoadNothing, None
    <3>3. cursor' = json.flushed_seq /\ ver'[i] = recbin.ver[i] /\ idxmeta[i] # 0 /\ json.record_count # 0
      BY <2>1, <3>1, <3>2 DEF LoadFromCheckpoint, LoadedIndex, None, Usable
    <3>4. CoveredBy(i, json.flushed_seq) => ver'[i] = store[i] /\ store[i] # 0
      BY <2>1, <2>2, <3>3, NotInDoubt DEF VersionInv, IndexInv
    <3> QED BY <2>1, <3>3, <3>4 DEF CoveredBy
  <2> QED BY <2>1, <2>2, <2>3 DEF IndexInv, Up, CoveredBy
<1>9. ASSUME NEW w \in wal, Replay(w) PROVE IndexInv(i)'
  <2> DEFINE q == [j \in {w.id} |-> w.seq]
  <2>1. /\ pc = "replay" /\ pc' = "replay" /\ cursor' = w.seq /\ w.seq > cursor
        /\ UNCHANGED <<wal, json, idxmeta, store, indoubt>>
        /\ ver' = VerAfter(w.kind, q) /\ buffer' = VectorsAfter(buffer, w.kind, q)
        /\ index' = IndexAfter(w.kind, q)
        /\ \A x \in wal : x.seq > cursor => w.seq <= x.seq
    BY <1>9, DoubtKept DEF Replay, diskVars, logVars, ckptFiles, history
  <2>2. IndexInv(i) /\ LogInv
    BY <1>0, <2>1 DEF SearchInv
  <2>3. w.seq # 0 /\ w.seq \in Nat /\ cursor \in Nat /\ \A x \in wal : x.seq \in Nat
    BY <1>0 DEF TypeOK
  <2>4. ASSUME Held(i)' PROVE ver'[i] # 0 \/ ~ CoveredBy(i, cursor)'
    <3>1. CASE i = w.id
      BY <2>1, <2>3, <2>4, <3>1 DEF VerAfter, VectorsAfter, IndexAfter, Held
    <3>2. CASE i # w.id
      <4>1. ver'[i] = ver[i] /\ Held(i)
        BY <2>1, <2>4, <3>2 DEF VerAfter, VectorsAfter, IndexAfter, Held
      <4>2. CASE ver[i] # 0
        BY <4>1, <4>2
      <4>3. CASE ~ CoveredBy(i, cursor)
        <5>1. PICK x \in wal : x.id = i /\ ~ (x.seq <= cursor)
          BY <4>3 DEF CoveredBy
        <5>2. x.seq # w.seq /\ w.seq <= x.seq
          BY <2>1, <2>2, <2>3, <3>2, <5>1 DEF LogInv
        <5>3. ~ (x.seq <= w.seq)
          BY <2>3, <5>2
        <5> QED BY <2>1, <5>1, <5>3 DEF CoveredBy
      <4> QED BY <2>1, <2>2, <4>1, <4>2, <4>3 DEF IndexInv
    <3> QED BY <3>1, <3>2
  <2> HIDE DEF q
  <2> QED BY <2>1, <2>2, <2>4 DEF IndexInv, Up, CoveredBy
<1>10. CASE OpenDone
  <2>1. /\ pc = "replay" /\ pc' = "idle" /\ UNCHANGED <<ver, wal, json, idxmeta, store, indoubt>>
        /\ CoveredBy(i, cursor) /\ (Held(i)' => Held(i))
    BY <1>10, DoubtKept, FlushCases DEF OpenDone, CoveredBy, diskVars, logVars, ckptFiles, history, Held, None
  <2>2. IndexInv(i)
    BY <1>0, <2>1 DEF SearchInv
  <2> QED BY <2>1, <2>2 DEF IndexInv, Up, CoveredBy
<1>11. CASE UNCHANGED vars
  <2>1. UNCHANGED <<pc, cursor, ver, wal, json, idxmeta, store, indoubt, index, buffer>>
    BY <1>11, DoubtKept DEF vars, memVars, diskVars, logVars, ckptFiles, history
  <2>2. IndexInv(i)
    BY <1>0, <2>1 DEF SearchInv
  <2> QED BY <2>1, <2>2 DEF IndexInv, Up, CoveredBy, Held
<1> QED
  BY <1>1, <1>2, <1>3, <1>4, <1>5, <1>6, <1>7, <1>8, <1>9, <1>10, <1>11
  DEF Next, Checkpointing, Opening

(* No deleted record is left in what a search looks at, whatever mixture   *)
(* of index files and records a crash left behind (apply_operation,        *)
(* flush_buffer, load_checkpoint; collection.rs:567-568), until `lost' is  *)
(* set, and but for ids of a batch that failed half-way.                   *)
THEOREM CollectionIndexOnlyLive == Spec => []IndexOnlyLiveRecords
<1>1. Init => SearchInv
  <2> SUFFICES ASSUME Init PROVE SearchInv
    OBVIOUS
  <2>1. ASSUME NEW i \in Id PROVE IndexInv(i)
    BY DEF Init, IndexInv, Held, None, Up
  <2> QED BY <2>1 DEF Init, SearchInv
<1>2. Inv /\ SearchInv /\ [Next]_vars => SearchInv'
  <2> SUFFICES ASSUME Inv, SearchInv, [Next]_vars PROVE SearchInv'
    OBVIOUS
  <2>1. Inv'
    BY InvStep
  <2>2. ~ lost' => \A i \in Id \ indoubt' : IndexInv(i)'
    BY <2>1, IndexStep
  <2> QED BY <2>2, SavedIndexStep DEF SearchInv
<1>3. SearchInv => IndexOnlyLiveRecords
  BY DEF SearchInv, IndexInv, Held, Live, IndexOnlyLiveRecords
<1> QED BY <1>1, <1>2, <1>3, InvHolds, PTL DEF Spec

-----------------------------------------------------------------------------
(* The segment.                                                            *)

(* Sorted by id, every entry of the segment has a place of its own, and    *)
(* none has place 0.                                                       *)
LEMMA Offsets ==
    ASSUME NEW i \in Entries
    PROVE  Offset(i) # 0 /\ \A j \in Entries : Offset(i) = Offset(j) => i = j
<1> DEFINE Upto(k) == {j \in Entries : j <= k}
<1>0. \A k \in Entries : k \in Nat /\ k \in Upto(k) /\ Upto(k) \in SUBSET Id
  BY CollectionAssumption DEF Entries, Live
<1>1. Offset(i) # 0
  BY <1>0, IdSets DEF Offset
<1>2. ASSUME NEW j \in Entries, NEW k \in Entries, j < k PROVE Offset(j) # Offset(k)
  <2>1. Upto(j) \in SUBSET Upto(k) /\ IsFiniteSet(Upto(k)) /\ k \notin Upto(j)
    BY <1>0, <1>2, IdSets
  <2>2. Upto(j) # Upto(k)
    BY <1>0, <2>1
  <2> QED BY <2>1, <2>2, FS_Subset DEF Offset
<1>3. ASSUME NEW j \in Entries, Offset(i) = Offset(j) PROVE i = j
  <2>1. i < j \/ j < i \/ i = j
    BY <1>0
  <2> QED BY <1>2, <1>3, <2>1
<1> QED BY <1>1, <1>3

(* The segment that a checkpoint writes.                                   *)
Segment == [k \in {Offset(i) : i \in Entries} |-> emb[CHOOSE i \in Entries : Offset(i) = k]]

(* Looking an id up through its offset finds its own embedding.            *)
LEMMA SegmentLookup ==
    ASSUME NEW i \in Entries
    PROVE  Offset(i) \in DOMAIN Segment /\ Segment[Offset(i)] = emb[i]
<1>1. (CHOOSE j \in Entries : Offset(j) = Offset(i)) = i
  BY Offsets
<1> QED BY <1>1 DEF Segment

-----------------------------------------------------------------------------
(* Vectors, where they are safe.                                           *)

(* The settings of the run col_vectors: an id is given one vector, nothing *)
(* fails but the process, not just before segment_index.bin, and there is  *)
(* one checkpoint.                                                         *)
VectorConditions == ~Rewrites /\ FailAt = {} /\ "segidx" \notin CrashAt /\ MaxCkpt <= 1

(* The files of a checkpoint are those of the only one.                    *)
Once ==
    /\ ckpts <= 1 /\ tried = [i \in Id |-> {}]
    /\ ckpts = 0 => pc \notin CheckpointSteps /\ json.record_count = 0
    /\ pc \in {"records", "index", "imeta", "json"} => json.record_count = 0
    /\ pc \in AfterJson => json.record_count # 0
    /\ json.record_count = 0 => ~pruned
    /\ json.record_count = 0 \/ pc = "segbin" => segbin = <<>>

(* The segment on disk has the embedding of i that records.bin has.        *)
InSegment(i) ==
    /\ segidx[i] \in DOMAIN segbin => segbin[segidx[i]] = recbin.emb[i]
    /\ recbin.emb[i] # 0 => segidx[i] \in DOMAIN segbin

(* What the checkpoint has saved of the vectors, and what is loaded of it. *)
Saved ==
    /\ pc \in {"index", "imeta", "json", "segbin", "segidx"} => recbin.emb = emb
    /\ pc \in {"imeta", "json"} => idxbin = index
    /\ pc = "json" => idxmeta = index
    /\ pc = "segidx" => segbin = Segment
    /\ json.record_count # 0 => idxbin = idxmeta
    /\ segments = <<>> \/ (segments = segbin /\ segment_index = segidx /\ pc # "segidx")
    /\ segbin # <<>> /\ pc # "segidx" => \A i \in Id : InSegment(i)
    /\ pc = "replay" /\ pruned => json.flushed_seq <= cursor

(* Wherever there is a vector of i, it is x.                               *)
Only(i, x) ==
    {emb[i], buffer[i], index[i], recbin.emb[i], idxmeta[i]} \subseteq {0, x}

Gives(w, i) == w.id = i /\ w.kind \in {"add", "upsert"}

(* get and search find the vector of i.                                    *)
Found(i) ==
    /\ emb[i] = vec[i] \/ (segments # <<>> /\ recbin.emb[i] = vec[i])
    /\ vec[i] \in {index[i], buffer[i]}

(* The vector of i is in the log, or saved, and found once it is loaded.   *)
Kept(i) ==
    /\ \A w \in wal : /\ Gives(w, i) => w.seq = vec[i]
                      /\ w.id = i /\ w.kind = "delete" => w.seq < vec[i]
    /\ (\E w \in wal : Gives(w, i)) \/ (pruned /\ vec[i] <= json.flushed_seq)
    /\ json.record_count # 0 /\ vec[i] <= json.flushed_seq =>
          recbin.emb[i] = vec[i] /\ idxmeta[i] = vec[i]
    /\ Up \/ (pc = "replay" /\ vec[i] <= cursor) => Found(i)

VectorOf(i) ==
    /\ store[i] # 0 <=> vec[i] # 0
    /\ vec[i] # 0 => i \in written /\ Only(i, vec[i]) /\ Kept(i)
    /\ i \notin written => Only(i, 0) /\ \A w \in wal : ~ Gives(w, i)

VectorInv == ~lost => Once /\ Saved /\ \A i \in Id : VectorOf(i)

(* Without failing I/O no request and no checkpoint is cut short.          *)
LEMMA NothingFails ==
    ASSUME VectorConditions
    PROVE  /\ ~ CheckpointError /\ ~ LatePruneError /\ ~ ReopenError
           /\ \A kind, S : ~ WriteError(kind, S)
BY DEF VectorConditions, CheckpointError, LatePruneError, ReopenError, WriteError

(* Every action keeps the checkpoint the only one.                         *)
LEMMA OnceStep == ASSUME VectorConditions, Inv, Once, [Next]_vars PROVE Once'
<1>0. TypeOK /\ CheckpointInv /\ MaxCkpt \in Nat /\ MaxCkpt <= 1
  BY CollectionAssumption DEF Inv, VectorConditions
<1> USE DEF Once, CheckpointSteps, AfterJson
<1>1. ASSUME NEW kind \in Kinds, NEW S \in (SUBSET Id) \ {{}}, Write(kind, S)
      PROVE Once'
  <2>1. /\ UNCHANGED <<tried, json, pruned, segbin>>
        /\ \/ pc' = "idle" /\ ckpts' = ckpts
           \/ pc' = "records" /\ ckpts < MaxCkpt /\ ckpts' = ckpts + 1
    BY <1>1 DEF Write, Ready, AppendAll, ckptFiles
  <2> QED BY <1>0, <2>1 DEF TypeOK
<1>2. CASE BeginCheckpoint \/ Optimize
  <2>1. /\ pc' \in {"idle", "records"} /\ ckpts < MaxCkpt /\ ckpts' = ckpts + 1
        /\ UNCHANGED <<tried, json, pruned, segbin>>
    BY <1>2 DEF BeginCheckpoint, Ready, Optimize, diskVars, logVars, ckptFiles, history
  <2> QED BY <1>0, <2>1 DEF TypeOK
<1>3. CASE WriteRecords \/ WriteIndexBin \/ WriteIndexMeta
  BY <1>3 DEF WriteRecords, logVars, WriteIndexBin, WriteIndexMeta, history, counters
<1>4. CASE WriteJson
  <2>1. json'.record_count # 0
    BY <1>0, <1>4, IdSets DEF WriteJson, logVars, CheckpointMeta, CheckpointInv, Live
  <2> QED BY <1>4, <2>1 DEF WriteJson, logVars, history, counters
<1>5. CASE WriteSegment \/ WriteSegmentIndex \/ AdvanceCatalog \/ PruneLog \/ ReopenLog
  BY <1>5
  DEF WriteSegment, WriteSegmentIndex, AdvanceCatalog, PruneLog, ReopenLog, diskVars, logVars, ckptFiles,
      history, counters
<1>6. CASE Crash \/ Load \/ OpenDone
  <2>1. /\ pc' \in {"down", "replay", "idle"}
        /\ UNCHANGED <<json, pruned, segbin, tried, ckpts>>
    BY <1>6 DEF Crash, Load, OpenDone, diskVars, logVars, ckptFiles, history, counters
  <2> QED BY <2>1
<1>7. ASSUME NEW w \in wal, Replay(w) PROVE Once'
  BY <1>7 DEF Replay, diskVars, logVars, ckptFiles, history, counters
<1>8. CASE UNCHANGED vars
  BY <1>8 DEF vars, diskVars, logVars, ckptFiles, history, counters
<1> QED
  BY <1>1, <1>2, <1>3, <1>4, <1>5, <1>6, <1>7, <1>8, NothingFails DEF Next, Checkpointing, Opening

(* Every action keeps what has been saved what it should be.               *)
LEMMA SavedStep ==
    ASSUME VectorConditions, Inv, Once, Saved, [Next]_vars, ~ lost' PROVE Saved'
<1>0. TypeOK
  BY DEF Inv
<1>1. ASSUME NEW kind \in Kinds, NEW S \in (SUBSET Id) \ {{}}, Write(kind, S)
      PROVE Saved'
  <2>1. /\ UNCHANGED <<json, segbin, segidx, recbin, idxbin, idxmeta, segments, segment_index>>
        /\ pc' \in {"idle", "records"} /\ pc = "idle"
    BY <1>1 DEF Write, Ready, AppendAll, ckptFiles
  <2> QED BY <2>1 DEF Saved, InSegment
<1>2. CASE BeginCheckpoint \/ Optimize
  <2>1. /\ UNCHANGED <<json, segbin, segidx, recbin, idxbin, idxmeta, segments, segment_index>>
        /\ pc' \in {"idle", "records"} /\ pc = "idle"
    BY <1>2 DEF BeginCheckpoint, Ready, Optimize, memVars, diskVars, logVars, ckptFiles
  <2> QED BY <2>1 DEF Saved, InSegment
<1>3. CASE WriteRecords \/ WriteIndexBin \/ WriteIndexMeta \/ WriteJson
  <2>1. UNCHANGED <<segbin, segidx, segments, segment_index, emb, index>> /\ segbin = <<>>
    BY <1>3 DEF WriteRecords, logVars, WriteIndexBin, WriteIndexMeta, WriteJson, memVars, Once
  <2>2. CASE WriteRecords
    BY <2>1, <2>2 DEF WriteRecords, logVars, Once, Saved
  <2>3. CASE WriteIndexBin
    BY <2>1, <2>3 DEF WriteIndexBin, logVars, Once, Saved
  <2>4. CASE WriteIndexMeta
    BY <2>1, <2>4 DEF WriteIndexMeta, logVars, Once, Saved
  <2>5. CASE WriteJson
    BY <2>1, <2>5 DEF WriteJson, logVars, Once, Saved
  <2> QED BY <1>3, <2>2, <2>3, <2>4, <2>5
<1>4. CASE WriteSegment
  <2>1. /\ pc = "segbin" /\ segbin = <<>> /\ segments = <<>> /\ segbin' = Segment
        /\ UNCHANGED <<json, recbin, idxbin, idxmeta>> /\ recbin.emb = emb /\ json.record_count # 0
    BY <1>4 DEF WriteSegment, logVars, Once, Saved, AfterJson, Segment
  <2>2. CASE Entries # {}
    <3>1. pc' = "segidx" /\ UNCHANGED <<emb, segments, segment_index>>
      BY <1>4, <2>2 DEF WriteSegment, logVars
    <3>2. Segment' = Segment
      BY <3>1 DEF Segment, Offset, Entries, Live
    <3> QED BY <2>1, <3>1, <3>2 DEF Saved
  <2>3. CASE Entries = {}
    <3>1. pc' = "catalog" /\ segidx' = None /\ segments' = <<>>
      BY <1>4, <2>3 DEF WriteSegment, logVars
    <3>2. ASSUME NEW i \in Id PROVE InSegment(i)'
      BY <2>1, <2>3, <3>1, <3>2 DEF InSegment, Segment, Entries, Live
    <3> QED BY <2>1, <3>1, <3>2 DEF Saved
  <2> QED BY <2>2, <2>3
<1>5. CASE WriteSegmentIndex
  <2>1. /\ pc = "segidx" /\ pc' = "catalog" /\ segbin = Segment /\ recbin.emb = emb
        /\ segidx' = [i \in Id |-> IF i \in Entries THEN Offset(i) ELSE 0]
        /\ segments' = segbin /\ segment_index' = segidx'
        /\ UNCHANGED <<json, recbin, idxbin, idxmeta, segbin>>
    BY <1>5 DEF WriteSegmentIndex, logVars, Saved
  <2>2. ASSUME NEW i \in Id PROVE InSegment(i)'
    <3>1. CASE i \in Entries
      BY <2>1, <3>1, SegmentLookup DEF InSegment
    <3>2. CASE i \notin Entries
      <4>1. segidx'[i] = 0 /\ emb[i] = 0
        BY <2>1, <3>2 DEF Entries, Live
      <4>2. 0 \notin DOMAIN Segment
        BY Offsets DEF Segment
      <4> QED BY <2>1, <4>1, <4>2 DEF InSegment
    <3> QED BY <3>1, <3>2
  <2> QED BY <2>1, <2>2 DEF Saved
<1>6. CASE AdvanceCatalog \/ PruneLog \/ ReopenLog \/ OpenDone
  <2>1. /\ UNCHANGED <<json, segbin, segidx, recbin, idxbin, idxmeta, segments, segment_index>>
        /\ pc' \in {"prune", "reopen", "idle"} /\ pc # "segidx"
    BY <1>6 DEF AdvanceCatalog, PruneLog, ReopenLog, OpenDone, memVars, diskVars, logVars, ckptFiles
  <2> QED BY <2>1 DEF Saved, InSegment
<1>7. CASE Crash
  <2>1. /\ UNCHANGED <<json, segbin, segidx, recbin, idxbin, idxmeta>>
        /\ segments' = <<>> /\ pc' = "down" /\ pc # "segidx"
    BY <1>7 DEF Crash, diskVars, logVars, ckptFiles, VectorConditions
  <2> QED BY <2>1 DEF Saved, InSegment
<1>8. CASE Load
  <2>1. /\ UNCHANGED <<json, segbin, segidx, recbin, idxbin, idxmeta, pruned>>
        /\ pc = "down" /\ pc' = "replay" /\ cursor' = flushed_seq'
        /\ segments' = <<>> \/ (segments' = segbin /\ segment_index' = segidx)
        /\ pruned => flushed_seq' = json.flushed_seq
    BY <1>8 DEF Load, LoadFromCheckpoint, LoadNothing, diskVars, logVars, ckptFiles
  <2> QED BY <1>0, <2>1 DEF Saved, InSegment, TypeOK
<1>9. ASSUME NEW w \in wal, Replay(w) PROVE Saved'
  <2>1. /\ UNCHANGED <<json, segbin, segidx, recbin, idxbin, idxmeta, segments, segment_index, pruned>>
        /\ pc = "replay" /\ pc' = "replay" /\ cursor' = w.seq /\ w.seq > cursor
    BY <1>9 DEF Replay, diskVars, logVars, ckptFiles, history
  <2>2. w.seq \in Nat /\ cursor \in Nat /\ json.flushed_seq \in Nat
    BY <1>0 DEF TypeOK
  <2> QED BY <2>1, <2>2 DEF Saved, InSegment
<1>10. CASE UNCHANGED vars
  <2>1. /\ UNCHANGED <<json, segbin, segidx, recbin, idxbin, idxmeta, segments, segment_index>>
        /\ UNCHANGED <<pruned, pc, cursor, emb, index>>
    BY <1>10 DEF vars, memVars, diskVars, logVars, ckptFiles, history
  <2>2. Segment' = Segment
    BY <2>1 DEF Segment, Offset, Entries, Live
  <2> QED BY <2>1, <2>2 DEF Saved, InSegment
<1> QED
  BY <1>1, <1>2, <1>3, <1>4, <1>5, <1>6, <1>7, <1>8, <1>9, <1>10, NothingFails
  DEF Next, Checkpointing, Opening

(* What flush_if_needed leaves of the vectors of i.                        *)
LEMMA FlushOne ==
    ASSUME NEW needed, NEW b, NEW y, NEW i \in Id, FlushIfNeeded(needed, b, y)
    PROVE  \/ buffer'[i] = b[i] /\ index'[i] = y[i]
           \/ buffer'[i] = 0 /\ index'[i] = IF b[i] # 0 THEN b[i] ELSE y[i]
BY FlushCases DEF None

(* The vector a get finds in the segment is the one in records.bin.        *)
LEMMA SegmentIsSaved ==
    ASSUME Saved, pc # "segidx", TypeOK, NEW i \in Id
    PROVE  SegmentVector(i) = IF segments = <<>> THEN 0 ELSE recbin.emb[i]
<1>1. CASE segments = <<>>
  <2>1. DOMAIN segments = {}
    BY <1>1
  <2> QED BY <1>1, <2>1 DEF SegmentVector
<1>2. CASE segments # <<>>
  BY <1>2 DEF Saved, InSegment, SegmentVector
<1> QED BY <1>1, <1>2

(* A get returns the vector of i once it is found.                         *)
LEMMA ReadableIsFound ==
    ASSUME Saved, pc # "segidx", TypeOK, NEW i \in Id
    PROVE  /\ vec[i] # 0 /\ Only(i, vec[i]) /\ Found(i) => Readable(i) = vec[i]
           /\ Only(i, 0) => Readable(i) = 0
BY SegmentIsSaved DEF Readable, Only, Found

(* Before checkpoint.json is written no segment is loaded.                 *)
LEMMA NoSegment == ASSUME Once, Saved, json.record_count = 0 \/ pc \in {"segbin", "segidx"} PROVE segments = <<>>
BY DEF Once, Saved

(* A step of a running collection that leaves alone all that VectorOf      *)
(* speaks of.                                                              *)
LEMMA VectorKept ==
    ASSUME NEW i \in Id, VectorOf(i), Up, Up',
           UNCHANGED <<store, vec, written, wal, pruned, emb, buffer, index, recbin, idxmeta, json, segments>>
    PROVE  VectorOf(i)'
BY DEF VectorOf, Only, Kept, Found, Gives, Up

(* A write leaves the vectors it was given, and only those.                *)
LEMMA VectorWrite ==
    ASSUME VectorConditions, Inv, ~ lost, ~ lost', NEW i \in Id, VectorOf(i), VersionInv(i),
           Allowed(i) = {store[i]}, NEW kind \in Kinds, NEW S \in (SUBSET Id) \ {{}}, Write(kind, S)
    PROVE  VectorOf(i)'
<1>0. TypeOK /\ LogInv
  BY DEF Inv
<1>1. PICK q \in Seqs(S) :
         /\ wal' = wal \cup Appended(kind, q) /\ ver' = VerAfter(kind, q)
         /\ emb' = VectorsAfter(emb, kind, q)
         /\ FlushIfNeeded(kind \in {"add", "upsert"},
                          VectorsAfter(buffer, kind, q), IndexAfter(kind, q))
         /\ store' = [j \in Id |-> IF j \in S THEN ver'[j] ELSE store[j]]
         /\ vec' = VectorsAfter(vec, kind, q)
  BY DEF Write, Ready, AppendAll
<1>2. DOMAIN q = S /\ q \in [S -> (last_seq + 1)..(last_seq + Cardinality(S))] /\ Cardinality(S) \in Nat
  BY <1>0, BatchSeqs DEF TypeOK
<1>3. /\ pc = "idle" /\ Up /\ Up' /\ UNCHANGED <<pruned, recbin, idxmeta, json, segments>>
      /\ Valid(kind, S) /\ pc' # "replay" /\ kind \in RequestKinds /\ handle # "rewound"
      /\ written' = IF kind \in {"add", "upsert"} THEN written \cup S ELSE written
  BY CollectionAssumption DEF Write, Ready, AppendAll, Up, ckptFiles, VectorConditions
<1>4. \A w \in Appended(kind, q) : w.id \in S /\ w.kind = kind /\ w.seq = q[w.id]
  BY <1>2 DEF Appended
<1>5. \/ /\ buffer'[i] = VectorsAfter(buffer, kind, q)[i]
          /\ index'[i] = IndexAfter(kind, q)[i]
       \/ /\ buffer'[i] = 0
          /\ index'[i] = IF VectorsAfter(buffer, kind, q)[i] # 0
                         THEN VectorsAfter(buffer, kind, q)[i] ELSE IndexAfter(kind, q)[i]
  <2>1. FlushIfNeeded(kind \in {"add", "upsert"},
                      VectorsAfter(buffer, kind, q), IndexAfter(kind, q))
    BY <1>1
  <2> QED BY ONLY <2>1, i \in Id, FlushOne
<1>6. CASE i \in S /\ kind \in {"add", "upsert"}
  <2>1. q[i] > high /\ q[i] \in Nat /\ q[i] # 0 /\ i \notin written /\ high \in Nat
    BY <1>0, <1>2, <1>3, <1>6 DEF LogInv, TypeOK, Valid, VectorConditions
  <2>2. Only(i, 0) /\ \A w \in wal : ~ Gives(w, i)
    BY <2>1 DEF VectorOf
  <2>3. vec'[i] = q[i] /\ store'[i] = q[i] /\ emb'[i] = q[i] /\ i \in written'
    BY <1>1, <1>2, <1>3, <1>6 DEF VectorsAfter, VerAfter
  <2>4. {buffer'[i], index'[i]} \subseteq {0, q[i]} /\ q[i] \in {buffer'[i], index'[i]}
    <3>1. VectorsAfter(buffer, kind, q)[i] = q[i] /\ IndexAfter(kind, q)[i] = 0
      BY <1>2, <1>6, <2>2 DEF VectorsAfter, IndexAfter, Only
    <3> QED BY <1>5, <2>1, <3>1
  <2>5. Only(i, vec[i])' /\ Found(i)'
    BY <1>3, <2>2, <2>3, <2>4 DEF Only, Found
  <2>6. \A w \in wal' : /\ Gives(w, i) => w.seq = q[i]
                        /\ w.id = i /\ w.kind = "delete" => w.seq < q[i]
    BY <1>0, <1>1, <1>4, <1>6, <2>1, <2>2 DEF TypeOK, Gives
  <2>7. \E w \in wal' : Gives(w, i)
    <3>1. [seq |-> q[i], id |-> i, kind |-> kind] \in wal'
      BY <1>1, <1>2, <1>6 DEF Appended
    <3> QED BY <1>6, <3>1 DEF Gives
  <2>8. ~ (q[i] <= json.flushed_seq)
    BY <1>0, <2>1 DEF TypeOK
  <2>9. Kept(i)'
    BY <1>3, <2>3, <2>5, <2>6, <2>7, <2>8 DEF Kept, Gives
  <2> QED BY <2>1, <2>3, <2>5, <2>9 DEF VectorOf
<1>7. CASE i \in S /\ kind = "delete"
  <2>1. vec'[i] = 0 /\ store'[i] = 0 /\ written' = written
    BY <1>1, <1>2, <1>3, <1>7 DEF VectorsAfter, VerAfter
  <2>2. emb'[i] = 0 /\ buffer'[i] = 0 /\ index'[i] = 0
    <3>1. VectorsAfter(buffer, kind, q)[i] = 0 /\ IndexAfter(kind, q)[i] = 0
      BY <1>2, <1>7 DEF VectorsAfter, IndexAfter
    <3>2. emb'[i] = 0
      BY <1>1, <1>2, <1>7 DEF VectorsAfter
    <3> QED BY <1>5, <3>1, <3>2
  <2>3. \A w \in wal' : Gives(w, i) => w \in wal
    BY <1>1, <1>4, <1>7 DEF Gives
  <2> QED BY <1>3, <2>1, <2>2, <2>3 DEF VectorOf, Only, Gives
<1>8. CASE i \notin S \/ kind = "update"
  <2>1. /\ vec'[i] = vec[i] /\ emb'[i] = emb[i] /\ (i \in written' <=> i \in written)
        /\ VectorsAfter(buffer, kind, q)[i] = buffer[i] /\ IndexAfter(kind, q)[i] = index[i]
    BY <1>1, <1>2, <1>3, <1>8 DEF VectorsAfter, IndexAfter
  <2>2. store'[i] # 0 <=> store[i] # 0
    <3>1. CASE i \notin S
      BY <1>1, <3>1
    <3>2. CASE i \in S /\ kind = "update"
      <4>1. q[i] # 0 /\ ver[i] # 0
        BY <1>0, <1>2, <1>3, <3>2 DEF Valid, TypeOK
      <4>2. store'[i] = q[i]
        BY <1>1, <1>2, <3>2 DEF VerAfter
      <4> QED BY <1>3, <4>1, <4>2 DEF VersionInv
    <3> QED BY <1>8, <3>1, <3>2
  <2>3. \A w \in wal' : Gives(w, i) \/ (w.id = i /\ w.kind = "delete") => w \in wal
    BY <1>1, <1>4, <1>8 DEF Gives
  <2>4. wal \subseteq wal'
    BY <1>1
  <2>5. CASE vec[i] # 0
    <3>1. i \in written /\ Only(i, vec[i]) /\ Kept(i) /\ Found(i)
      BY <1>3, <2>5 DEF VectorOf, Kept
    <3>2. /\ {buffer'[i], index'[i]} \subseteq {0, vec[i]}
          /\ vec[i] \in {buffer'[i], index'[i]}
      BY <1>5, <2>1, <2>5, <3>1 DEF Only, Found
    <3>3. Only(i, vec[i])' /\ Found(i)'
      BY <1>3, <2>1, <3>1, <3>2 DEF Only, Found
    <3>4. Kept(i)'
      BY <1>3, <2>1, <2>3, <2>4, <3>1, <3>3 DEF Kept, Gives
    <3> QED BY <2>1, <2>2, <2>5, <3>1, <3>3, <3>4 DEF VectorOf
  <2>6. CASE vec[i] = 0
    <3>1. i \notin written => Only(i, 0)'
      <4>1. SUFFICES ASSUME i \notin written PROVE Only(i, 0)'
        OBVIOUS
      <4>2. buffer'[i] = 0 /\ index'[i] = 0
        BY <1>5, <2>1, <4>1 DEF VectorOf, Only
      <4> QED BY <1>3, <2>1, <4>1, <4>2 DEF VectorOf, Only
    <3> QED BY <2>1, <2>2, <2>3, <2>6, <3>1 DEF VectorOf, Gives
  <2> QED BY <2>5, <2>6
<1> QED BY <1>3, <1>6, <1>7, <1>8 DEF RequestKinds

(* Every action keeps the last vector of i where get and search look.      *)
LEMMA VectorStep ==
    ASSUME VectorConditions, Inv, BufferInv, Once, Saved, \A j \in Id : VectorOf(j),
           [Next]_vars, ~ lost, ~ lost', NEW i \in Id
    PROVE  VectorOf(i)'
<1>0. TypeOK /\ CheckpointInv /\ LogInv /\ VectorOf(i) 
      /\ \A j \in Id : VersionInv(j) /\ Allowed(j) = {store[j]}
  BY DEF Inv, Once, Allowed
<1>1. ASSUME NEW kind \in Kinds, NEW S \in (SUBSET Id) \ {{}}, Write(kind, S)
      PROVE VectorOf(i)'
  BY <1>0, <1>1, VectorWrite
<1>2. CASE BeginCheckpoint \/ WriteIndexBin \/ AdvanceCatalog \/ ReopenLog
  <2>1. /\ Up /\ Up'
        /\ UNCHANGED <<store, vec, written, wal, pruned, emb, buffer, index, recbin, idxmeta, json, segments>>
    BY <1>2 DEF BeginCheckpoint, Ready, WriteIndexBin, AdvanceCatalog, ReopenLog, memVars, diskVars, logVars, ckptFiles, history, Up
  <2> QED BY <1>0, <2>1, VectorKept
<1>3. CASE Optimize
  <2>1. /\ Up /\ Up' /\ pc = "idle" /\ pc' # "replay"
        /\ UNCHANGED <<store, vec, written, wal, pruned, emb, recbin, idxmeta, json, segments>>
        /\ buffer' = None /\ index' = [j \in Id |-> IF ver[j] # 0 THEN Readable(j) ELSE 0]
    BY <1>3 DEF Optimize, Ready, diskVars, logVars, ckptFiles, history, Up
  <2>2. /\ vec[i] # 0 /\ Only(i, vec[i]) /\ Found(i) => Readable(i) = vec[i]
        /\ Only(i, 0) => Readable(i) = 0
    BY <1>0, <2>1, ReadableIsFound
  <2>3. ver[i] = store[i]
    BY <1>0, <2>1 DEF VersionInv
  <2>4. CASE vec[i] # 0
    <3>1. i \in written /\ Only(i, vec[i]) /\ Kept(i) /\ Found(i) /\ store[i] # 0
      BY <1>0, <2>1, <2>4 DEF VectorOf, Kept
    <3>2. index'[i] = vec[i] /\ buffer'[i] = 0
      BY <2>1, <2>2, <2>3, <2>4, <3>1 DEF None
    <3>3. Only(i, vec[i])' /\ Found(i)'
      BY <2>1, <3>1, <3>2 DEF Only, Found
    <3> QED BY <2>1, <2>4, <3>1, <3>3 DEF VectorOf, Kept, Gives
  <2>5. CASE vec[i] = 0
    BY <1>0, <2>1, <2>2, <2>5 DEF VectorOf, Only, Gives, None
  <2> QED BY <2>4, <2>5
<1>4. CASE WriteRecords \/ WriteIndexMeta
  <2>1. /\ Up /\ Up' /\ pc' # "replay" /\ json.record_count = 0
        /\ UNCHANGED <<store, vec, written, wal, pruned, emb, buffer, index, json, segments>>
        /\ recbin'.emb \in {recbin.emb, emb} /\ idxmeta' \in {idxmeta, index}
    BY <1>4 DEF WriteRecords, logVars, WriteIndexMeta, memVars, history, Up, Once
  <2>2. segments = <<>>
    BY <2>1, NoSegment
  <2>3. \A x : Only(i, x) => Only(i, x)'
    BY <2>1 DEF Only
  <2> QED BY <1>0, <2>1, <2>2, <2>3 DEF VectorOf, Kept, Found, Gives, Only
<1>5. CASE WriteJson
  <2>1. /\ Up /\ Up' /\ pc = "json" /\ pc' # "replay" /\ json.record_count = 0 /\ ~ pruned
        /\ UNCHANGED <<store, vec, written, wal, pruned, emb, buffer, index, recbin, idxmeta, segments>>
        /\ json'.flushed_seq = flushed_seq /\ recbin.emb = emb /\ idxmeta = index
    BY <1>5 DEF WriteJson, logVars, CheckpointMeta, memVars, history, Up, Once, Saved
  <2>2. segments = <<>>
    BY <2>1, NoSegment
  <2>3. ASSUME vec[i] # 0, vec[i] <= flushed_seq PROVE recbin.emb[i] = vec[i] /\ idxmeta[i] = vec[i]
    <3>1. Found(i)
      BY <1>0, <2>1, <2>3 DEF VectorOf, Kept
    <3>2. buffer[i] # vec[i]
      BY <1>0, <2>3 DEF BufferInv, Live, TypeOK, Versions
    <3> QED BY <2>1, <2>2, <3>1, <3>2 DEF Found
  <2>4. vec[i] # 0 => \E w \in wal : Gives(w, i)
    BY <1>0, <2>1 DEF VectorOf, Kept
  <2> QED BY <1>0, <2>1, <2>3, <2>4 DEF VectorOf, Kept, Found, Gives, Only
<1>6. CASE WriteSegment
  <2>1. pc = "segbin" /\ segments = <<>> /\ Up
    BY <1>6, NoSegment DEF WriteSegment, logVars, Up
  <2>2. PICK j \in Id : ver[j] # 0
    BY <1>0, <2>1 DEF CheckpointInv, CheckpointSteps, Live
  <2>3. emb[j] # 0
    BY <1>0, <2>1, <2>2 DEF VersionInv, VectorOf, Kept, Found
  <2>4. Entries # {}
    BY <2>2, <2>3 DEF Entries, Live
  <2>5. /\ Up'
        /\ UNCHANGED <<store, vec, written, wal, pruned, emb, buffer, index, recbin, idxmeta, json, segments>>
    BY <1>6, <2>4 DEF WriteSegment, logVars, history, Up
  <2> QED BY <1>0, <2>1, <2>5, VectorKept
<1>7. CASE WriteSegmentIndex
  <2>1. /\ pc = "segidx" /\ Up /\ Up' /\ pc' # "replay" /\ segments = <<>>
        /\ UNCHANGED <<store, vec, written, wal, pruned, buffer, index, recbin, idxmeta, json>>
        /\ emb' = Stripped(ver, emb, flushed_seq) /\ segments' = segbin
        /\ segbin = Segment /\ recbin.emb = emb
    BY <1>7, NoSegment DEF WriteSegmentIndex, logVars, history, Up, Saved
  <2>2. emb'[i] \in {0, emb[i]}
    BY <2>1 DEF Stripped
  <2>3. \A x : Only(i, x) => Only(i, x)'
    BY <2>1, <2>2 DEF Only
  <2>4. vec[i] # 0 => Found(i)'
    <3>1. SUFFICES ASSUME vec[i] # 0 PROVE Found(i)'
      OBVIOUS
    <3>2. Found(i)
      BY <1>0, <2>1, <3>1 DEF VectorOf, Kept
    <3>3. emb[i] = vec[i] /\ i \in Entries
      BY <2>1, <3>1, <3>2 DEF Found, Entries, Live
    <3>4. segments' # <<>>
      <4>1. DOMAIN segments' # {}
        BY <2>1, <3>3, SegmentLookup
      <4> QED BY <4>1
    <3> QED BY <2>1, <3>2, <3>3, <3>4 DEF Found
  <2> QED BY <1>0, <2>1, <2>3, <2>4 DEF VectorOf, Kept, Gives
<1>8. CASE PruneLog
  <2>1. /\ Up /\ Up' /\ pc' # "replay"
        /\ UNCHANGED <<store, vec, written, emb, buffer, index, recbin, idxmeta, json, segments>>
        /\ wal' = {w \in wal : w.seq > flushed_seq} /\ pruned' = (pruned \/ wal' # wal)
        /\ json.flushed_seq = flushed_seq
    BY <1>0, <1>8 DEF PruneLog, CutLog, KeptRecords, ckptFiles, Up, CheckpointInv, AfterJson, CheckpointMeta
  <2>2. ASSUME vec[i] # 0 PROVE (\E w \in wal' : Gives(w, i)) \/ (pruned' /\ vec[i] <= json.flushed_seq)
    <3>1. Kept(i)
      BY <1>0, <2>2 DEF VectorOf
    <3>2. CASE pruned /\ vec[i] <= json.flushed_seq
      BY <2>1, <3>2
    <3>3. ASSUME NEW w \in wal, Gives(w, i)
          PROVE (\E x \in wal' : Gives(x, i)) \/ (pruned' /\ vec[i] <= json.flushed_seq)
      <4>1. w.seq = vec[i] /\ w.seq \in Nat /\ flushed_seq \in Nat
        BY <1>0, <3>1, <3>3 DEF Kept, TypeOK
      <4>2. CASE w.seq > flushed_seq
        BY <2>1, <3>3, <4>2
      <4>3. CASE ~ (w.seq > flushed_seq)
        <5>1. w \notin wal'
          BY <2>1, <4>3
        <5>2. pruned'
          BY <2>1, <3>3, <5>1
        <5>3. vec[i] <= json.flushed_seq
          BY <2>1, <4>1, <4>3
        <5> QED BY <5>2, <5>3
      <4> QED BY <4>2, <4>3
    <3> QED BY <3>1, <3>2, <3>3 DEF Kept
  <2> QED BY <1>0, <2>1, <2>2 DEF VectorOf, Kept, Found, Gives, Only
<1>9. CASE Crash
  <2>1. /\ pc' = "down" /\ UNCHANGED <<store, vec, written, wal, pruned, recbin, idxmeta, json>>
        /\ emb'[i] = 0 /\ buffer'[i] = 0 /\ index'[i] = 0
    <3>1. adrift = {}
      BY <1>9 DEF Crash
    <3> QED BY <1>9, <3>1 DEF Crash, ckptFiles, None
  <2>2. \A x : Only(i, x) => Only(i, x)'
    BY <2>1 DEF Only
  <2> QED BY <1>0, <2>1, <2>2 DEF VectorOf, Kept, Gives, Up
<1>10. CASE Load
  <2>1. /\ pc' = "replay" /\ UNCHANGED <<store, vec, written, wal, pruned, recbin, idxmeta, json>>
        /\ cursor' = flushed_seq' /\ buffer' = None
    BY <1>10 DEF Load, diskVars, logVars, ckptFiles
  <2>2. CASE Usable /\ LoadFromCheckpoint
    <3>1. /\ json.record_count # 0 /\ cursor' = json.flushed_seq /\ segments' = segbin /\ index' = LoadedIndex
          /\ emb' = IF segbin = <<>> THEN recbin.emb ELSE Stripped(recbin.ver, recbin.emb, json.flushed_seq)
      BY <2>1, <2>2 DEF LoadFromCheckpoint, Usable
    <3>2. emb'[i] \in {0, recbin.emb[i]} /\ index'[i] \in {0, idxmeta[i]} /\ buffer'[i] = 0
      BY <2>1, <3>1 DEF Stripped, LoadedIndex, None
    <3>3. \A x : Only(i, x) => Only(i, x)'
      BY <2>1, <3>2 DEF Only
    <3>4. ASSUME vec[i] # 0, vec[i] <= json.flushed_seq PROVE Found(i)'
      <4>1. recbin.emb[i] = vec[i] /\ idxmeta[i] = vec[i]
        BY <1>0, <3>1, <3>4 DEF VectorOf, Kept
      <4>2. idxbin = idxmeta /\ idxmeta[i] \in Range(idxmeta) /\ Live(idxmeta) # {}
        BY <1>0, <3>1, <3>4, <4>1 DEF Saved, Range, TypeOK, Versions, Live
      <4>3. index'[i] = vec[i]
        BY <3>1, <4>1, <4>2 DEF LoadedIndex
      <4> QED BY <2>1, <3>1, <4>1, <4>3 DEF Found
    <3> QED BY <1>0, <2>1, <3>1, <3>3, <3>4 DEF VectorOf, Kept, Gives, Up
  <2>3. CASE ~ Usable /\ LoadNothing
    <3>1. emb'[i] = 0 /\ index'[i] = 0 /\ buffer'[i] = 0 /\ cursor' = 0
      BY <2>1, <2>3 DEF LoadNothing, None
    <3>2. \A x : Only(i, x) => Only(i, x)'
      BY <2>1, <3>1 DEF Only
    <3>3. vec[i] \in Nat
      BY <1>0 DEF TypeOK, Versions
    <3> QED BY <1>0, <2>1, <3>1, <3>2, <3>3 DEF VectorOf, Kept, Gives, Up
  <2> QED BY <1>10, <2>2, <2>3 DEF Load
<1>11. ASSUME NEW w \in wal, Replay(w) PROVE VectorOf(i)'
  <2> DEFINE q == [j \in {w.id} |-> w.seq]
  <2>1. /\ pc = "replay" /\ pc' = "replay" /\ cursor' = w.seq /\ w.seq > cursor
        /\ UNCHANGED <<store, vec, written, wal, pruned, recbin, idxmeta, json, segments>>
        /\ emb' = VectorsAfter(emb, w.kind, q) /\ buffer' = VectorsAfter(buffer, w.kind, q)
        /\ index' = IndexAfter(w.kind, q)
        /\ \A x \in wal : x.seq > cursor => w.seq <= x.seq
    BY <1>11 DEF Replay, diskVars, logVars, ckptFiles, history
  <2>2. /\ w.seq \in Nat /\ cursor \in Nat /\ vec[i] \in Nat /\ json.flushed_seq \in Nat
        /\ w.kind \in RequestKinds /\ \A x \in wal : x.seq \in Nat
    BY <1>0 DEF TypeOK, Versions
  <2>3. CASE i = w.id /\ w.kind \in {"add", "upsert"}
    <3>1. emb'[i] = w.seq /\ buffer'[i] = w.seq /\ index'[i] = index[i] /\ Gives(w, i)
      BY <2>1, <2>3 DEF VectorsAfter, IndexAfter, Gives
    <3>2. i \in written /\ (vec[i] # 0 => w.seq = vec[i])
      BY <1>0, <3>1 DEF VectorOf, Kept
    <3>3. vec[i] # 0 => Only(i, vec[i])' /\ Found(i)'
      BY <1>0, <2>1, <3>1, <3>2 DEF VectorOf, Only, Found
    <3> QED BY <1>0, <2>1, <3>2, <3>3 DEF VectorOf, Kept, Gives, Up
  <2>4. CASE i = w.id /\ w.kind = "delete"
    <3>1. emb'[i] = 0 /\ buffer'[i] = 0 /\ index'[i] = 0
      BY <2>1, <2>4 DEF VectorsAfter, IndexAfter
    <3>2. vec[i] # 0 => ~ (vec[i] <= w.seq)
      BY <1>0, <2>2, <2>4 DEF VectorOf, Kept
    <3>3. \A x : Only(i, x) => Only(i, x)'
      BY <2>1, <3>1 DEF Only
    <3> QED BY <1>0, <2>1, <3>2, <3>3 DEF VectorOf, Kept, Gives, Up
  <2>5. CASE i # w.id \/ w.kind = "update"
    <3>1. emb'[i] = emb[i] /\ buffer'[i] = buffer[i] /\ index'[i] = index[i]
      BY <1>0, <2>1, <2>5 DEF VectorsAfter, IndexAfter, TypeOK
    <3>2. \A x : Only(i, x) => Only(i, x)'
      BY <2>1, <3>1 DEF Only
    <3>3. ASSUME vec[i] # 0, vec[i] <= w.seq PROVE vec[i] <= cursor
      <4>1. SUFFICES ASSUME vec[i] > cursor PROVE FALSE
        BY <2>2
      <4>2. ~ (pruned /\ vec[i] <= json.flushed_seq)
        BY <2>1, <2>2, <4>1 DEF Saved
      <4>3. PICK x \in wal : Gives(x, i) /\ x.seq = vec[i]
        BY <1>0, <3>3, <4>2 DEF VectorOf, Kept
      <4>4. x = w
        BY <1>0, <2>1, <2>2, <3>3, <4>1, <4>3 DEF LogInv
      <4> QED BY <2>5, <4>3, <4>4 DEF Gives
    <3>4. Found(i) => Found(i)'
      BY <2>1, <3>1 DEF Found
    <3> QED BY <1>0, <2>1, <3>2, <3>3, <3>4 DEF VectorOf, Kept, Gives, Up
  <2> QED BY <2>2, <2>3, <2>4, <2>5 DEF RequestKinds
<1>12. CASE OpenDone
  <2>1. /\ pc = "replay" /\ Up' /\ pc' # "replay" /\ \A w \in wal : w.seq <= cursor
        /\ UNCHANGED <<store, vec, written, wal, pruned, recbin, idxmeta, json, emb, segments>>
        /\ FlushIfNeeded(TRUE, buffer, index)
    BY <1>12 DEF OpenDone, diskVars, logVars, ckptFiles, history, Up
  <2>2. \/ buffer'[i] = buffer[i] /\ index'[i] = index[i]
        \/ buffer'[i] = 0 /\ index'[i] = IF buffer[i] # 0 THEN buffer[i] ELSE index[i]
    BY <2>1 DEF FlushIfNeeded, FlushBuffer, None
  <2>3. CASE vec[i] # 0
    <3>1. i \in written /\ Only(i, vec[i]) /\ Kept(i)
      BY <1>0, <2>3 DEF VectorOf
    <3>2. vec[i] <= cursor
      <4>1. vec[i] \in Nat /\ cursor \in Nat /\ json.flushed_seq \in Nat
        BY <1>0 DEF TypeOK, Versions
      <4> QED BY <2>1, <3>1, <4>1 DEF Kept, Saved
    <3>3. Found(i)
      BY <2>1, <3>1, <3>2 DEF Kept
    <3>4. {buffer[i], index[i]} \subseteq {0, vec[i]} /\ vec[i] \in {buffer[i], index[i]}
      BY <3>1, <3>3 DEF Only, Found
    <3>5. {buffer'[i], index'[i]} \subseteq {0, vec[i]} /\ vec[i] \in {buffer'[i], index'[i]}
      BY <2>3, <2>2, <3>4
    <3>6. Only(i, vec[i])' /\ Found(i)'
      BY <2>1, <3>1, <3>3, <3>5 DEF Only, Found
    <3> QED BY <1>0, <2>1, <2>3, <3>1, <3>6 DEF VectorOf, Kept, Gives
  <2>4. CASE vec[i] = 0
    <3>1. i \notin written => buffer'[i] = 0 /\ index'[i] = 0
      BY <1>0, <2>2 DEF VectorOf, Only
    <3> QED BY <1>0, <2>1, <2>4, <3>1 DEF VectorOf, Only, Gives
  <2> QED BY <2>3, <2>4
<1>13. CASE UNCHANGED vars
  BY <1>0, <1>13 DEF vars, memVars, diskVars, logVars, ckptFiles, history, VectorOf, Only, Kept, Found, Gives, Up
<1> QED
  BY <1>1, <1>2, <1>3, <1>4, <1>5, <1>6, <1>7, <1>8, <1>9, <1>10, <1>11, <1>12, <1>13, NothingFails
  DEF Next, Checkpointing, Opening

(* Where they hold, the two theorems below rest on one invariant.          *)
LEMMA VectorInvHolds == VectorConditions => (Spec => [](Inv /\ VectorInv))
<1> SUFFICES ASSUME VectorConditions PROVE Spec => [](Inv /\ VectorInv)
  OBVIOUS
<1>1. Init => BufferInv /\ VectorInv
  <2> SUFFICES ASSUME Init PROVE BufferInv /\ VectorInv
    OBVIOUS
  <2>1. BufferInv
    BY DEF Init, BufferInv, Live, None
  <2>2. Once
    BY DEF Init, Once, CheckpointSteps, AfterJson, NoCheckpoint
  <2>3. Saved
    BY DEF Init, Saved, NoCheckpoint
  <2>4. ASSUME NEW i \in Id PROVE VectorOf(i)
    BY DEF Init, VectorOf, Only, None
  <2> QED BY <2>1, <2>2, <2>3, <2>4 DEF VectorInv
<1>2. Inv /\ BufferInv /\ VectorInv /\ [Next]_vars => BufferInv' /\ VectorInv'
  <2> SUFFICES ASSUME Inv, BufferInv, VectorInv, [Next]_vars PROVE BufferInv' /\ VectorInv'
    OBVIOUS
  <2>1. ~ lost' => ~ lost
    BY LostStays DEF Inv
  <2>2. ASSUME ~ lost' PROVE Once' /\ Saved' /\ \A i \in Id : VectorOf(i)'
    BY <2>1, <2>2, OnceStep, SavedStep, VectorStep DEF VectorInv
  <2> QED BY <2>2, BufferStep DEF VectorInv
<1> QED BY <1>1, <1>2, InvHolds, PTL DEF Spec

(* Where nothing fails but the process (not just before segment_index.bin) *)
(* and one checkpoint is taken, get and the exact query return the vector  *)
(* that the last acknowledged add or upsert gave a record, wherever it is: *)
(* in the records map, in the loaded segment, or in the log                *)
(* (load_vector, checkpoint, load_checkpoint, replay_after).               *)
THEOREM CollectionGetReturnsLastVector == VectorConditions => (Spec => []GetReturnsLastVector)
<1> SUFFICES ASSUME VectorConditions PROVE Spec => []GetReturnsLastVector
  OBVIOUS
<1>1. Inv /\ VectorInv => GetReturnsLastVector
  <2> SUFFICES ASSUME Inv, VectorInv, pc = "idle", ~ lost, NEW i \in Live(ver) \ indoubt
               PROVE  Readable(i) = vec[i]
    BY DEF GetReturnsLastVector
  <2>1. TypeOK /\ Saved /\ VersionInv(i) /\ VectorOf(i) /\ Up /\ i \in Id /\ ver[i] # 0
    BY DEF Inv, VectorInv, Live, Up
  <2>2. vec[i] # 0 /\ Only(i, vec[i]) /\ Found(i)
    BY <2>1, NotInDoubt DEF VersionInv, VectorOf, Kept
  <2> QED BY <2>1, <2>2, ReadableIsFound
<1> QED BY <1>1, VectorInvHolds, PTL

(* In the same settings an ANN query ranks every live record, and under    *)
(* its last vector (hybrid_search, flush_buffer, load_checkpoint,          *)
(* replay_after).                                                          *)
THEOREM CollectionSearchSeesLastVector == VectorConditions => (Spec => []SearchSeesLastVector)
<1> SUFFICES ASSUME VectorConditions PROVE Spec => []SearchSeesLastVector
  OBVIOUS
<1>1. Inv /\ VectorInv => SearchSeesLastVector
  <2> SUFFICES ASSUME Inv, VectorInv, pc = "idle", ~ lost, NEW i \in Live(ver) \ indoubt
               PROVE  Merged(i) = vec[i]
    BY DEF SearchSeesLastVector
  <2>1. VersionInv(i) /\ VectorOf(i) /\ Up /\ i \in Id /\ ver[i] # 0
    BY DEF Inv, VectorInv, Live, Up
  <2>2. vec[i] # 0 /\ Only(i, vec[i]) /\ Found(i)
    BY <2>1, NotInDoubt DEF VersionInv, VectorOf, Kept
  <2> QED BY <2>2 DEF Only, Found, Merged
<1> QED BY <1>1, VectorInvHolds, PTL

=============================================================================
