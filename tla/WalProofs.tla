----------------------------- MODULE WalProofs -----------------------------
(***************************************************************************)
(* What Wal guarantees for every set of operations, every bound and every  *)
(* choice of faults.                                                       *)
(***************************************************************************)
EXTENDS Wal, TLAPS

(* No two of these frames share a seq.                                     *)
Distinct(frames) == \A f, g \in frames : f.seq = g.seq => f = g

(* What the bytes past file_len can be: at most one frame, above every     *)
(* frame of the file, and just above last_seq while a handle is open.      *)
TailInv ==
    /\ \A s, t \in tail : s = t
    /\ \A t \in tail, f \in file : f.seq < t.seq
    /\ pc # "closed" => \A t \in tail : t.seq = last_seq + 1
    /\ ~linked => tail = {}

(* How the handle relates to the file it has open.                         *)
HandleInv ==
    /\ pc # "closed" => \A f \in view : f.seq <= last_seq
    /\ pc \in {"idle", "append"} /\ linked => view = file
    /\ pc = "renamed" => ~linked
    /\ pc # "closed" => header = "ok"
    /\ pc # "append" => inflight = {}
    /\ \A f \in inflight : f.seq = last_seq + 1
    /\ \A f, g \in inflight : f = g

FileInv ==
    /\ Distinct(file) /\ Distinct(view)
    /\ \A f \in file \cup view : f.whole
    /\ header # "ok" => file = {} /\ tail = {}

(* The inductive strengthening of SeqsStrictlyIncrease and NoTornRecord.   *)
Inv == TypeOK /\ FileInv /\ HandleInv /\ TailInv

(* A frame that lost some bytes keeps its place in the log.                *)
LEMMA TornFrames ==
    ASSUME NEW fs \in SUBSET Frame
    PROVE  /\ Torn(fs) \subseteq Frame
           /\ \A t \in Torn(fs) : \E f \in fs : t.seq = f.seq /\ t.op = f.op /\ ~t.whole
  BY DEF Torn, Frame

(* One step of the log preserves the inductive invariant, action by action.*)
LEMMA InvStep == Inv /\ [Next]_vars => Inv'
<1> SUFFICES ASSUME Inv, [Next]_vars PROVE Inv'
  OBVIOUS
<1> USE WalAssumption
<1>1. ASSUME NEW s \in StartSeqs, OpenNew(s) PROVE Inv'
  BY <1>1 DEF OpenNew, Inv, TypeOK, FileInv, HandleInv, TailInv, Distinct
<1>2. ASSUME NEW s \in StartSeqs, OpenExisting(s) PROVE Inv'
  <2>1. PICK m \in 0..MaxSeq :
           /\ IsLastSeq(m, Recovered)
           /\ last_seq' = IF Recovered = {} /\ s # 0 THEN s - 1 ELSE m
    BY <1>2 DEF OpenExisting
  <2>2. Recovered \subseteq Frame /\ Distinct(Recovered) /\ \A f \in Recovered : f.whole
    BY DEF Inv, TypeOK, FileInv, TailInv, Distinct, Recovered, Frame
  <2>3. last_seq' \in Nat /\ \A f \in Recovered : f.seq <= last_seq'
    BY <2>1, <2>2 DEF IsLastSeq
  <2>4. TypeOK'
    BY <1>2, <2>2, <2>3 DEF OpenExisting, Inv, TypeOK, Recovered
  <2> QED
    BY <1>2, <2>2, <2>3, <2>4
    DEF OpenExisting, Inv, FileInv, HandleInv, TailInv, Distinct
<1>3. ASSUME NEW op \in Op, NEW whole \in BOOLEAN, AppendWrite(op, whole)
      PROVE Inv'
  <2>1. inflight' = {[seq |-> last_seq + 1, op |-> op, whole |-> whole]}
    BY <1>3 DEF AppendWrite
  <2>2. inflight' \subseteq Frame /\ \A f \in inflight' : f.seq = last_seq + 1
    BY <2>1 DEF Inv, TypeOK, Frame
  <2>3. TypeOK'
    BY <1>3, <2>2 DEF AppendWrite, Inv, TypeOK
  <2>4. FileInv' /\ HandleInv'
    BY <1>3, <2>1, <2>2 DEF AppendWrite, Inv, TypeOK, FileInv, HandleInv, Distinct
  <2>5. TailInv'
    <3>1. CASE linked
      <4>1. tail' = inflight' /\ view = file /\ file' = file /\ last_seq' = last_seq
        BY <1>3, <3>1 DEF AppendWrite, Inv, HandleInv
      <4>2. \A f \in file : f.seq < last_seq + 1
        BY <1>3, <4>1 DEF AppendWrite, Inv, TypeOK, HandleInv, Frame
      <4> QED BY <1>3, <2>1, <2>2, <3>1, <4>1, <4>2 DEF AppendWrite, TailInv
    <3>2. CASE ~linked
      BY <1>3, <3>2 DEF AppendWrite, Inv, TailInv
    <3> QED BY <3>1, <3>2
  <2> QED BY <2>3, <2>4, <2>5 DEF Inv
<1>4. CASE AppendOk
  <2>1. Distinct(view \cup inflight) /\ \A f \in view \cup inflight : f.whole
    BY <1>4 DEF AppendOk, Inv, TypeOK, FileInv, HandleInv, Distinct, Frame
  <2>2. \A f \in view \cup inflight : f.seq <= last_seq + 1
    BY <1>4 DEF AppendOk, Inv, TypeOK, HandleInv, Frame
  <2>3. linked => file \cup inflight = view \cup inflight
    BY <1>4 DEF AppendOk, Inv, HandleInv
  <2>4. TypeOK'
    BY <1>4 DEF AppendOk, Inv, TypeOK
  <2> QED
    BY <1>4, <2>1, <2>2, <2>3, <2>4
    DEF AppendOk, Inv, FileInv, HandleInv, TailInv
<1>5. CASE AppendErr
  BY <1>5 DEF AppendErr, Inv, TypeOK, FileInv, HandleInv, TailInv
<1>6. ASSUME NEW k \in 0..MaxSeq, PruneRename(k) PROVE Inv'
  BY <1>6 DEF PruneRename, Kept, Inv, TypeOK, FileInv, HandleInv, TailInv, Distinct
<1>7. CASE PruneReopen
  <2>1. last_seq' \in Nat /\ \A f \in file : f.seq <= last_seq'
    BY <1>7 DEF PruneReopen, IsLastSeq
  <2> QED
    BY <1>7, <2>1
    DEF PruneReopen, diskVars, Inv, TypeOK, FileInv, HandleInv, TailInv
<1>8. CASE PruneLateErr
  BY <1>8 DEF PruneLateErr, diskVars, handleVars, Inv, TypeOK, FileInv, HandleInv, TailInv
<1>9. CASE Crash
  BY <1>9 DEF Crash, HandleGone, diskVars, Inv, TypeOK, FileInv, HandleInv, TailInv, Distinct
<1>10. CASE PowerLoss
  <2>1. /\ pc' = "closed" /\ last_seq' = 0 /\ view' = {} /\ linked' = TRUE
        /\ inflight' = {} /\ crashes' \in Nat /\ acked' = acked
    BY <1>10 DEF PowerLoss, HandleGone, Inv, TypeOK
  <2>2. CASE \E fs \in SUBSET file :
               /\ Survives(fs) /\ file' = fs
               /\ tail' \in {{}, Torn(tail)} \cup (IF fs = file THEN {tail} ELSE {})
               /\ UNCHANGED <<header, synced, hsynced>>
    <3>1. /\ file' \subseteq file /\ synced' \subseteq file'
          /\ tail' \in {{}, Torn(tail), tail}
          /\ UNCHANGED <<header, synced, hsynced>>
      BY <2>2 DEF Survives
    <3>2. /\ tail' \subseteq Frame
          /\ \A t \in tail' : \E u \in tail : t.seq = u.seq
          /\ \A s, t \in tail' : s = t
      <4>1. \A s, t \in Torn(tail) : s = t
        BY DEF Torn, Inv, TailInv
      <4> QED BY <3>1, <4>1, TornFrames DEF Inv, TypeOK, TailInv
    <3>3. TypeOK'
      BY <2>1, <3>1, <3>2 DEF Inv, TypeOK
    <3>4. FileInv' /\ HandleInv'
      <4>1. header # "ok" => tail' = {}
        BY <3>2 DEF Inv, FileInv
      <4> QED BY <2>1, <3>1, <4>1 DEF Inv, FileInv, HandleInv, Distinct
    <3>5. TailInv'
      BY <2>1, <3>1, <3>2 DEF Inv, TailInv
    <3> QED BY <3>3, <3>4, <3>5 DEF Inv
  <2>3. CASE /\ ~hsynced /\ header' \in {"absent", "torn"}
             /\ file' = {} /\ tail' = {} /\ synced' = {} /\ hsynced' = FALSE
    BY <2>1, <2>3 DEF Inv, TypeOK, FileInv, HandleInv, TailInv, Distinct
  <2> QED BY <1>10, <2>2, <2>3 DEF PowerLoss
<1>11. CASE UNCHANGED vars
  BY <1>11 DEF vars, Inv, TypeOK, FileInv, HandleInv, TailInv, Distinct
<1> QED
  BY <1>1, <1>2, <1>3, <1>4, <1>5, <1>6, <1>7, <1>8, <1>9, <1>10, <1>11 DEF Next

(* The initial state satisfies the inductive invariant.                    *)
LEMMA InvInit == Init => Inv
<1> SUFFICES ASSUME Init PROVE Inv
  OBVIOUS
<1>1. TypeOK
  BY DEF Init, TypeOK
<1>2. FileInv
  BY DEF Init, FileInv, Distinct
<1>3. HandleInv
  BY DEF Init, HandleInv
<1>4. TailInv
  BY DEF Init, TailInv
<1> QED BY <1>1, <1>2, <1>3, <1>4 DEF Inv

(* Every reachable state of the log satisfies the inductive invariant.     *)
LEMMA InvHolds == Spec => []Inv
  BY InvInit, InvStep, PTL DEF Spec

(* The variables of the log keep their types.                              *)
THEOREM WalTypeCorrect == Spec => []TypeOK
<1>1. Inv => TypeOK
  BY DEF Inv
<1> QED BY <1>1, InvHolds, PTL

(* Frames are laid out in strictly increasing seq and an open handle       *)
(* appends above all of them (Wal::open, append, prune; lib.rs:175-434).   *)
THEOREM WalSeqsIncrease == Spec => []SeqsStrictlyIncrease
<1>1. Inv => SeqsStrictlyIncrease
  BY DEF Inv, TypeOK, FileInv, HandleInv, TailInv, Distinct, SeqsStrictlyIncrease, Recovered, Frame
<1> QED BY <1>1, InvHolds, PTL

(* Recovery never accepts a record that was not written completely         *)
(* (scan and recover; lib.rs:494-562).                                     *)
THEOREM WalNoTornRecord == Spec => []NoTornRecord
<1>1. Inv => NoTornRecord
  BY DEF Inv, FileInv, NoTornRecord
<1> QED BY <1>1, InvHolds, PTL

(* Where an acknowledged record is, when prune does not fail after its     *)
(* rename: in the file, and on stable storage if the log is synced.        *)
DurableInv ==
    /\ acked \subseteq file
    /\ pc # "renamed" => linked
    /\ Fsync => acked \subseteq synced
    /\ Fsync /\ header = "ok" => hsynced

(* The faults under which append's acknowledgement is a promise.           *)
TrustedFaults == "late" \notin Faults /\ (Fsync \/ "power" \notin Faults)

(* One step keeps acknowledged records in the file, action by action.      *)
LEMMA DurableStep ==
    ASSUME TrustedFaults, Inv, DurableInv, [Next]_vars
    PROVE  DurableInv'
<1> USE WalAssumption DEF DurableInv
<1>1. ASSUME NEW s \in StartSeqs, OpenNew(s) PROVE DurableInv'
  <2>1. hsynced' = Fsync /\ linked' = TRUE /\ UNCHANGED <<file, synced, acked>>
    BY <1>1 DEF OpenNew
  <2> QED BY <2>1
<1>11. ASSUME NEW s \in StartSeqs, OpenExisting(s) PROVE DurableInv'
  BY <1>11 DEF OpenExisting, Recovered
<1>2. ASSUME NEW op \in Op, NEW whole \in BOOLEAN, AppendWrite(op, whole)
      PROVE DurableInv'
  BY <1>2 DEF AppendWrite
<1>3. CASE AppendOk
  BY <1>3 DEF AppendOk
<1>4. CASE AppendErr
  BY <1>4 DEF AppendErr
<1>5. ASSUME NEW k \in 0..MaxSeq, PruneRename(k) PROVE DurableInv'
  <2>1. acked \subseteq view
    BY <1>5 DEF PruneRename, Inv, HandleInv
  <2> QED BY <1>5, <2>1 DEF PruneRename, Kept
<1>6. CASE PruneReopen
  BY <1>6 DEF PruneReopen, diskVars
<1>7. CASE PruneLateErr
  BY <1>7 DEF PruneLateErr, TrustedFaults
<1>8. CASE Crash
  BY <1>8 DEF Crash, HandleGone, diskVars
<1>9. CASE PowerLoss
  <2>1. Fsync /\ hsynced
    BY <1>9 DEF PowerLoss, TrustedFaults, Inv, HandleInv
  <2>2. synced' = synced /\ synced \subseteq file' /\ acked' = acked
    BY <1>9, <2>1 DEF PowerLoss, Survives
  <2> QED BY <1>9, <2>1, <2>2 DEF PowerLoss, HandleGone
<1>10. CASE UNCHANGED vars
  BY <1>10 DEF vars
<1> QED
  BY <1>1, <1>2, <1>3, <1>4, <1>5, <1>6, <1>7, <1>8, <1>9, <1>10, <1>11 DEF Next

(* A record that append acknowledged is in the file until a prune drops    *)
(* it, for every bound and workload: with fsync under power loss too,      *)
(* without it across process crashes.  What is assumed of the environment  *)
(* is that prune does not fail between its rename and its reopen: after    *)
(* such a failure the handle appends to an inode that has no path.         *)
THEOREM WalAckedDurable == TrustedFaults => (Spec => []AckedDurable)
<1> SUFFICES ASSUME TrustedFaults PROVE Spec => []AckedDurable
  OBVIOUS
<1>1. Init => DurableInv
  BY DEF Init, DurableInv
<1>2. Inv /\ DurableInv /\ [Next]_vars => DurableInv'
  BY DurableStep
<1>3. DurableInv => AckedDurable
  BY DEF DurableInv, AckedDurable
<1> QED BY <1>1, <1>2, <1>3, InvHolds, PTL DEF Spec

-----------------------------------------------------------------------------
(* The abstract log.                                                       *)

(* An append that is running writes one frame, behind the last one.        *)
WriteInv ==
    /\ pc = "append" => inflight # {} /\ (linked => tail = inflight)
    /\ file \cup tail \cup view \cup inflight \subseteq [seq : 1..MaxSeq, op : Op, whole : BOOLEAN]

(* Every action keeps it.                                                  *)
LEMMA WriteStep == ASSUME Inv, WriteInv, [Next]_vars PROVE WriteInv'
<1> USE WalAssumption DEF WriteInv
<1> DEFINE Written == [seq : 1..MaxSeq, op : Op, whole : BOOLEAN]
<1>1. ASSUME NEW s \in StartSeqs, OpenNew(s) PROVE WriteInv'
  BY <1>1 DEF OpenNew
<1>2. ASSUME NEW s \in StartSeqs, OpenExisting(s) PROVE WriteInv'
  BY <1>2 DEF OpenExisting, Recovered
<1>3. ASSUME NEW op \in Op, NEW whole \in BOOLEAN, AppendWrite(op, whole) PROVE WriteInv'
  <2>1. /\ inflight' = {[seq |-> last_seq + 1, op |-> op, whole |-> whole]}
        /\ linked' = linked /\ tail' = IF linked THEN inflight' ELSE tail
        /\ UNCHANGED <<file, view>>
    BY <1>3 DEF AppendWrite
  <2>2. last_seq \in Nat /\ last_seq < MaxSeq
    BY <1>3 DEF AppendWrite, Inv, TypeOK
  <2>3. [seq |-> last_seq + 1, op |-> op, whole |-> whole] \in Written
    BY <2>2
  <2>4. inflight' # {} /\ inflight' \subseteq Written
    BY <2>1, <2>3
  <2> QED BY <2>1, <2>4
<1>4. CASE AppendOk
  BY <1>4 DEF AppendOk
<1>5. CASE AppendErr
  BY <1>5 DEF AppendErr
<1>6. ASSUME NEW k \in 0..MaxSeq, PruneRename(k) PROVE WriteInv'
  <2>1. pc' = "renamed" /\ file' \subseteq view /\ tail' = {} /\ UNCHANGED <<view, inflight>>
    BY <1>6 DEF PruneRename, Kept
  <2> QED BY <2>1
<1>7. CASE PruneReopen
  BY <1>7 DEF PruneReopen, diskVars
<1>8. CASE PruneLateErr
  BY <1>8 DEF PruneLateErr, diskVars, handleVars
<1>9. CASE Crash
  BY <1>9 DEF Crash, HandleGone, diskVars
<1>10. CASE PowerLoss
  <2>1. /\ pc' = "closed" /\ file' \subseteq file /\ tail' \in {{}, Torn(tail), tail}
        /\ view' = {} /\ inflight' = {}
    BY <1>10 DEF PowerLoss, HandleGone, Survives
  <2>2. Torn(tail) \subseteq Written
    BY DEF Torn
  <2> QED BY <2>1, <2>2
<1>11. CASE UNCHANGED vars
  BY <1>11 DEF vars
<1> QED
  BY <1>1, <1>2, <1>3, <1>4, <1>5, <1>6, <1>7, <1>8, <1>9, <1>10, <1>11 DEF Next

(* Every action is a step of the abstract log or changes nothing of it.    *)
LEMMA LogStep ==
    ASSUME TrustedFaults, Inv, Inv', DurableInv, DurableInv', WriteInv, [Next]_vars
    PROVE  [Log!Next]_(Log!vars)
<1> USE WalAssumption
<1>0. acked \subseteq file /\ acked' \subseteq file'
  BY DEF DurableInv
<1>1. ASSUME NEW s \in StartSeqs, OpenNew(s) PROVE Log!Open
  <2>1. file = {} /\ tail = {} /\ UNCHANGED <<file, tail, acked>> /\ pc = "closed" /\ pc' = "idle"
    BY <1>1 DEF OpenNew, Inv, FileInv
  <2> QED BY <1>0, <2>1 DEF Log!Open, Recovered
<1>2. ASSUME NEW s \in StartSeqs, OpenExisting(s) PROVE Log!Open
  <2>1. file' = Recovered /\ tail' = {} /\ acked' = acked /\ pc = "closed" /\ pc' = "idle"
    BY <1>2 DEF OpenExisting
  <2> QED BY <1>0, <2>1 DEF Log!Open, Recovered
<1>3. ASSUME NEW op \in Op, NEW whole \in BOOLEAN, AppendWrite(op, whole)
      PROVE  \E r \in [seq : 1..MaxSeq, op : Op, whole : {TRUE}] : Log!Attempt(r)
  <2> DEFINE r == [seq |-> last_seq + 1, op |-> op, whole |-> TRUE]
  <2>1. /\ pc = "idle" /\ pc' = "append" /\ linked /\ file = view
        /\ file' = file /\ acked' = acked
        /\ tail' = {[seq |-> last_seq + 1, op |-> op, whole |-> whole]}
    BY <1>3 DEF AppendWrite, Inv, HandleInv, DurableInv
  <2>2. last_seq \in Nat /\ last_seq < MaxSeq /\ \A f \in file : f.seq \in Nat /\ f.seq <= last_seq
    BY <1>3, <2>1 DEF AppendWrite, Inv, TypeOK, HandleInv, Frame
  <2>3. r \in [seq : 1..MaxSeq, op : Op, whole : {TRUE}] /\ r.seq = last_seq + 1
    BY <2>2
  <2>4. \A f \in file : f.seq < r.seq
    BY <2>2
  <2>5. {f \in tail' : f.whole} \in {{}, {r}}
    <3>1. CASE whole
      BY <2>1, <3>1
    <3>2. CASE ~ whole
      <4>1. \A f \in tail' : ~ f.whole
        BY <2>1, <3>2
      <4> QED BY <4>1
    <3> QED BY <3>1, <3>2
  <2> HIDE DEF r
  <2>6. r \notin acked
    BY <1>0, <2>2, <2>3, <2>4
  <2>7. \E new \in {{}, {r}} : (Recovered \ acked)' = ((Recovered \ acked) \cap file) \cup new
    BY <2>1, <2>5, <2>6 DEF Recovered
  <2> QED BY <2>1, <2>3, <2>4, <2>7 DEF Log!Attempt
<1>4. CASE AppendOk
  <2>1. PICK r \in tail : inflight = {r} /\ tail = {r} /\ r.whole /\ r.seq = last_seq + 1
    BY <1>4 DEF AppendOk, Inv, HandleInv, DurableInv, WriteInv
  <2>2. r \in [seq : 1..MaxSeq, op : Op, whole : {TRUE}]
    BY <2>1 DEF WriteInv
  <2>3. last_seq \in Nat /\ \A f \in file : f.seq \in Nat /\ f.seq <= last_seq
    BY <1>4 DEF AppendOk, Inv, TypeOK, HandleInv, DurableInv, Frame
  <2>4. r \notin file
    BY <2>1, <2>3
  <2>5. /\ pc = "append" /\ pc' = "idle" /\ file' = file \cup {r} /\ tail' = {}
        /\ acked' = {a \in acked : a.seq # last_seq + 1} \cup {r}
    BY <1>4, <2>1 DEF AppendOk, DurableInv
  <2>6. acked' = acked \cup {r}
    BY <1>0, <2>3, <2>5
  <2>7. Log!Acknowledge(r)
    BY <1>0, <2>1, <2>4, <2>5, <2>6 DEF Log!Acknowledge, Recovered
  <2> QED BY <2>2, <2>7 DEF Log!Next
<1>5. CASE AppendErr
  BY <1>5 DEF AppendErr, Log!vars, Recovered
<1>6. ASSUME NEW k \in 0..MaxSeq, PruneRename(k) PROVE Log!Prune(k)
  <2>1. /\ pc = "idle" /\ pc' = "renamed" /\ tail' = {} /\ file' = {f \in file : f.seq > k}
        /\ acked' = {a \in acked : a.seq > k}
    BY <1>6 DEF PruneRename, Kept, Inv, HandleInv, DurableInv
  <2> QED BY <1>0, <2>1 DEF Log!Prune, Log!Above, Recovered
<1>7. CASE PruneReopen
  BY <1>7 DEF PruneReopen, diskVars, Log!vars, Recovered
<1>8. CASE PruneLateErr
  BY <1>8 DEF PruneLateErr, TrustedFaults
<1>9. CASE Crash
  BY <1>9 DEF Crash, HandleGone, diskVars, Log!Next, Log!Stop, Recovered
<1>10. CASE PowerLoss
  <2>1. Fsync /\ hsynced
    BY <1>10 DEF PowerLoss, TrustedFaults, Inv, HandleInv, DurableInv
  <2>2. /\ pc # "closed" /\ pc' = "closed" /\ acked' = acked /\ file' \subseteq file
        /\ tail' \in {{}, Torn(tail), tail}
    BY <1>10, <2>1 DEF PowerLoss, HandleGone, Survives
  <2>3. {f \in tail' : f.whole} \subseteq {f \in tail : f.whole}
    <3>1. \A f \in Torn(tail) : ~ f.whole
      BY TornFrames DEF Inv, TypeOK
    <3> QED BY <2>2, <3>1
  <2>4. Recovered' \subseteq Recovered
    BY <2>2, <2>3 DEF Recovered
  <2>5. Log!Stop
    BY <2>2, <2>4 DEF Log!Stop
  <2> QED BY <2>5 DEF Log!Next
<1>11. CASE UNCHANGED vars
  BY <1>11 DEF vars, Log!vars, Recovered
<1> QED
  BY <1>1, <1>2, <1>3, <1>4, <1>5, <1>6, <1>7, <1>8, <1>9, <1>10, <1>11 DEF Next, Log!Next

(* The file, its frames and its handle are a durable log: for every        *)
(* workload and bound, and under the same faults as above, what append,    *)
(* read_range, prune and open do is a behaviour of DurableLog, in which    *)
(* there are no torn frames, unsynced bytes or renamed files, an open      *)
(* finds the acknowledged records and perhaps the last unacknowledged      *)
(* ones, and an acknowledged record is never replaced by a failed one      *)
(* (Wal::open, append, prune; lib.rs:175-434).                             *)
THEOREM WalImplementsDurableLog == TrustedFaults => (Spec => ImplementsDurableLog)
<1> SUFFICES ASSUME TrustedFaults PROVE Spec => ImplementsDurableLog
  OBVIOUS
<1>1. Init => DurableInv /\ WriteInv /\ Log!Init
  BY DEF Init, DurableInv, WriteInv, Log!Init, Recovered
<1>2. Inv /\ DurableInv /\ [Next]_vars => DurableInv'
  BY DurableStep
<1>3. Inv /\ WriteInv /\ [Next]_vars => WriteInv'
  BY WriteStep
<1>4. Inv /\ Inv' /\ DurableInv /\ DurableInv' /\ WriteInv /\ [Next]_vars => [Log!Next]_(Log!vars)
  BY LogStep
<1> QED BY <1>1, <1>2, <1>3, <1>4, InvHolds, PTL DEF Spec, ImplementsDurableLog, Log!Spec

=============================================================================
