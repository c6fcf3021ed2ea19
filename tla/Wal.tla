-------------------------------- MODULE Wal --------------------------------
(***************************************************************************)
(* One write-ahead log file of rekha-wal and the handle that writes it.    *)
(*                                                                         *)
(* The file is a header followed by frames.  A frame is a record with its  *)
(* sequence number; `whole' says whether its bytes pass the length, CRC    *)
(* and payload checks of `scan'.  `file' is the set of frames up to the    *)
(* handle's file_len, `tail' the bytes past it (at most one frame, left by *)
(* an append that failed or never returned).  A set can stand for the      *)
(* sequence of frames because frames are laid out in increasing seq: that  *)
(* is SeqsStrictlyIncrease, checked and proved below.                      *)
(*                                                                         *)
(* The handle keeps the inode it opened: `view' is what that inode holds,  *)
(* and `linked' says whether it is still the inode under the path.  They   *)
(* differ between the rename of `prune' and the reopen that follows it.    *)
(***************************************************************************)
EXTENDS Naturals, FiniteSets

CONSTANTS
    Op,          \* operations a record may carry
    MaxSeq,      \* bound on the sequence numbers handed out
    StartSeqs,   \* values of WalOptions::start_seq, 0 standing for None
    Fsync,       \* WalOptions::fsync
    Faults,      \* I/O errors and failures that may happen (see FaultKinds)
    MaxCrash     \* bound on the number of crashes and power losses

(* "append": write_all or sync_all of an append fails.                     *)
(* "late"  : prune fails after its rename (sync_dir or the reopen); before *)
(*           it, a failed prune removes its temporary file and changes     *)
(*           nothing, so there is no action for it.                        *)
(* "power" : the machine loses what was never synced.                      *)
FaultKinds == {"append", "late", "power"}

ASSUME WalAssumption ==
    /\ MaxSeq \in Nat
    /\ StartSeqs \subseteq 0..MaxSeq
    /\ Fsync \in BOOLEAN
    /\ Faults \subseteq FaultKinds
    /\ MaxCrash \in Nat

VARIABLES
    header,      \* the 18 header bytes: "absent" (empty file), "torn" or "ok"
    file, tail,  \* what the path's file holds (see above)
    synced,      \* the frames of `file' that are on stable storage
    hsynced,     \* the header is on stable storage
    pc,          \* "closed", "idle", "append" or "renamed": where the owner is
    last_seq,    \* Wal::last_seq
    view, linked,\* the inode the handle has open (see above)
    inflight,    \* the frame an append is writing
    acked,       \* history: records acknowledged by append, not pruned since
    crashes      \* history: number of crashes so far

vars == <<header, file, tail, synced, hsynced, pc, last_seq, view, linked,
          inflight, acked, crashes>>

handleVars == <<last_seq, view, linked, inflight>>
diskVars   == <<header, file, tail, synced, hsynced>>

Frame == [seq : Nat, op : Op, whole : BOOLEAN]

Torn(frames) == {[f EXCEPT !.whole = FALSE] : f \in frames}

(* `m' is the last_seq that `scan' reports for the frames `fs': 0 if none. *)
IsLastSeq(m, fs) ==
    \/ fs = {} /\ m = 0
    \/ (\E f \in fs : f.seq = m) /\ (\A f \in fs : f.seq <= m)

Init ==
    /\ header = "absent" /\ file = {} /\ tail = {}
    /\ synced = {} /\ hsynced = FALSE
    /\ pc = "closed" /\ last_seq = 0 /\ view = {} /\ linked = TRUE
    /\ inflight = {}
    /\ acked = {} /\ crashes = 0

-----------------------------------------------------------------------------
(* Wal::open.                                                              *)

RecoveredSkippingCrc == file \cup tail

(* `recover': the valid prefix, the torn tail cut off.  A complete frame   *)
(* past the old file_len is valid and joins the log.                       *)
Recovered == file \cup {f \in tail : f.whole}

(* An empty file: the header is written, and `start_seq' alone decides     *)
(* where the next append lands.                                            *)
OpenNew(start) ==
    /\ pc = "closed" /\ header = "absent"
    /\ header' = "ok" /\ hsynced' = Fsync
    /\ last_seq' = IF start = 0 THEN 0 ELSE start - 1
    /\ view' = {} /\ linked' = TRUE
    /\ pc' = "idle"
    /\ UNCHANGED <<file, tail, synced, inflight, acked, crashes>>

OpenExistingStartWins(start) ==
    /\ pc = "closed" /\ header = "ok"
    /\ file' = Recovered /\ tail' = {}
    /\ view' = Recovered /\ linked' = TRUE
    /\ \E m \in 0..MaxSeq :
          /\ IsLastSeq(m, Recovered)
          /\ last_seq' = IF start # 0 THEN start - 1 ELSE m
    /\ pc' = "idle"
    /\ UNCHANGED <<header, synced, hsynced, inflight, acked, crashes>>

(* A file with a header: its torn tail is truncated, and its own position  *)
(* wins over `start_seq' unless no record is left.  A torn header is an    *)
(* error (WalError::Corrupt), so there is no action for it.                *)
OpenExisting(start) ==
    /\ pc = "closed" /\ header = "ok"
    /\ file' = Recovered /\ tail' = {}
    /\ view' = Recovered /\ linked' = TRUE
    /\ \E m \in 0..MaxSeq :
          /\ IsLastSeq(m, Recovered)
          /\ last_seq' = IF Recovered = {} /\ start # 0 THEN start - 1 ELSE m
    /\ pc' = "idle"
    /\ UNCHANGED <<header, synced, hsynced, inflight, acked, crashes>>

-----------------------------------------------------------------------------
(* Wal::append.                                                            *)

(* The frame is written at file_len, over whatever was there.  The write   *)
(* may be partial: then it can only end in an error or a crash.            *)
AppendWrite(op, whole) ==
    /\ pc = "idle" /\ last_seq < MaxSeq
    /\ inflight' = {[seq |-> last_seq + 1, op |-> op, whole |-> whole]}
    /\ tail' = IF linked THEN inflight' ELSE tail
    /\ pc' = "append"
    /\ UNCHANGED <<header, file, synced, hsynced, last_seq, view, linked,
                   acked, crashes>>

AppendOkBeforeSync ==
    /\ pc = "append" /\ \A f \in inflight : f.whole
    /\ file' = IF linked THEN file \cup inflight ELSE file
    /\ tail' = IF linked THEN {} ELSE tail
    /\ view' = view \cup inflight
    /\ last_seq' = last_seq + 1
    /\ acked' = {a \in acked : a.seq # last_seq + 1} \cup inflight
    /\ inflight' = {} /\ pc' = "idle"
    /\ UNCHANGED <<header, synced, hsynced, linked, crashes>>

(* write_all, and sync_all when `fsync' is set, succeeded: the counters    *)
(* move and the record is acknowledged.                                    *)
AppendOk ==
    /\ pc = "append" /\ \A f \in inflight : f.whole
    /\ file' = IF linked THEN file \cup inflight ELSE file
    /\ tail' = IF linked THEN {} ELSE tail
    /\ synced' = IF Fsync THEN file' ELSE synced
    /\ hsynced' = (hsynced \/ Fsync)
    /\ view' = view \cup inflight
    /\ last_seq' = last_seq + 1
    /\ acked' = {a \in acked : a.seq # last_seq + 1} \cup inflight
    /\ inflight' = {} /\ pc' = "idle"
    /\ UNCHANGED <<header, linked, crashes>>

(* An I/O error: the counters stay, so the next append overwrites the      *)
(* bytes left in `tail'.                                                   *)
AppendErr ==
    /\ pc = "append" /\ "append" \in Faults
    /\ inflight' = {} /\ pc' = "idle"
    /\ UNCHANGED <<header, file, tail, synced, hsynced, last_seq, view, linked,
                   acked, crashes>>

-----------------------------------------------------------------------------
(* Wal::prune.                                                             *)

(* The records prune copies: those of the handle's inode above keep_from.  *)
Kept(keep_from) == {f \in view : f.seq > keep_from}

PruneRenameUnsynced(keep_from) ==
    /\ pc = "idle"
    /\ file' = Kept(keep_from) /\ tail' = {}
    /\ acked' = {a \in acked : a.seq > keep_from}
    /\ linked' = FALSE /\ pc' = "renamed"
    /\ UNCHANGED <<header, synced, hsynced, last_seq, view, inflight, crashes>>

(* The temporary file is written, synced and renamed over the path.        *)
PruneRename(keep_from) ==
    /\ pc = "idle"
    /\ file' = Kept(keep_from) /\ tail' = {}
    /\ synced' = Kept(keep_from) /\ hsynced' = TRUE
    /\ acked' = {a \in acked : a.seq > keep_from}
    /\ linked' = FALSE /\ pc' = "renamed"
    /\ UNCHANGED <<header, last_seq, view, inflight, crashes>>

(* The handle moves to the new file; last_seq is 0 when nothing was kept.  *)
PruneReopen ==
    /\ pc = "renamed"
    /\ view' = file /\ linked' = TRUE
    /\ last_seq' \in {m \in 0..MaxSeq : IsLastSeq(m, file)}
    /\ pc' = "idle"
    /\ UNCHANGED <<diskVars, inflight, acked, crashes>>

(* sync_dir or the reopen fails: prune returns the error and the handle    *)
(* keeps the inode that the rename unlinked.                               *)
PruneLateErr ==
    /\ pc = "renamed" /\ "late" \in Faults
    /\ pc' = "idle"
    /\ UNCHANGED <<diskVars, handleVars, acked, crashes>>

-----------------------------------------------------------------------------
(* The process dies, or the machine does.                                  *)

HandleGone ==
    /\ pc' = "closed" /\ last_seq' = 0 /\ view' = {} /\ linked' = TRUE
    /\ inflight' = {}
    /\ crashes' = crashes + 1

Crash ==
    /\ pc # "closed" /\ crashes < MaxCrash
    /\ HandleGone
    /\ UNCHANGED <<diskVars, acked>>

(* Frames of `fs' that a lost page cache may leave behind a header: all    *)
(* that were synced, and no frame without the ones before it, because      *)
(* `scan' stops at the first frame that is missing.                        *)
Survives(fs) ==
    /\ fs \subseteq file /\ synced \subseteq fs
    /\ \A f \in fs : \A g \in file : g.seq < f.seq => g \in fs

(* Nothing guarantees that the header of a file created without fsync is   *)
(* on disk: it may be missing or torn, and no frame is readable then.      *)
PowerLoss ==
    /\ "power" \in Faults /\ pc # "closed" /\ crashes < MaxCrash
    /\ HandleGone
    /\ \/ \E fs \in SUBSET file :
             /\ Survives(fs)
             /\ file' = fs
             /\ tail' \in {{}, Torn(tail)} \cup (IF fs = file THEN {tail} ELSE {})
             /\ UNCHANGED <<header, synced, hsynced>>
       \/ /\ ~hsynced /\ header' \in {"absent", "torn"}
          /\ file' = {} /\ tail' = {} /\ synced' = {} /\ hsynced' = FALSE
    /\ UNCHANGED acked

Next ==
    \/ \E s \in StartSeqs : OpenNew(s)
    \/ \E s \in StartSeqs : OpenExisting(s)
    \/ \E op \in Op, whole \in BOOLEAN : AppendWrite(op, whole)
    \/ AppendOk
    \/ AppendErr
    \/ \E k \in 0..MaxSeq : PruneRename(k)
    \/ PruneReopen
    \/ PruneLateErr
    \/ Crash
    \/ PowerLoss

Spec == Init /\ [][Next]_vars

-----------------------------------------------------------------------------
(* Properties.                                                             *)

(* The variables stay in their types; the handle fields belong to a        *)
(* closed, idle, appending or pruning owner (the struct Wal).              *)
TypeOK ==
    /\ header \in {"absent", "torn", "ok"}
    /\ file \subseteq Frame /\ tail \subseteq Frame /\ view \subseteq Frame
    /\ inflight \subseteq Frame /\ acked \subseteq Frame
    /\ synced \subseteq file
    /\ hsynced \in BOOLEAN /\ linked \in BOOLEAN
    /\ pc \in {"closed", "idle", "append", "renamed"}
    /\ last_seq \in Nat /\ crashes \in Nat

(* "seq strictly increases per collection file" (lib.rs:18): no two frames *)
(* of a file share a seq, and an open handle's last_seq is at or above     *)
(* every frame it would append after, whatever crash, failed append,       *)
(* prune-to-empty or start_seq came before.  Otherwise `scan' would cut    *)
(* off the newer, acknowledged record on the next open.                    *)
SeqsStrictlyIncrease ==
    /\ \A f, g \in Recovered : f.seq = g.seq => f = g
    /\ pc # "closed" => \A f \in view : f.seq <= last_seq
    /\ pc \in {"idle", "append"} /\ linked => view = file

(* A record that recovery or read_range hands out is one that append wrote *)
(* completely: a write torn by a crash or an error never becomes one.      *)
NoTornRecord == \A f \in file \cup view : f.whole

(* The log is the source of truth (lib.rs:5-7): a record that append       *)
(* acknowledged stays in the file under the path until a prune drops it,   *)
(* across crashes, failed appends and prunes (and power loss, with fsync). *)
AckedDurable == acked \subseteq file

(* The file with its handle implements the abstract log, if prune does not *)
(* fail late and power is lost only with fsync: recovery finds what append *)
(* acknowledged and what it left complete, and nothing else; an            *)
(* acknowledged record takes the place of a failed one for good; a prune   *)
(* drops records by their seq only (Wal::open, append, prune;              *)
(* lib.rs:175-434).                                                        *)
Log == INSTANCE DurableLog WITH
         Record <- [seq : 1..MaxSeq, op : Op, whole : {TRUE}],
         up <- pc # "closed", records <- IF pc = "closed" THEN {} ELSE file,
         tried <- Recovered \ acked

ImplementsDurableLog == Log!Spec

=============================================================================
