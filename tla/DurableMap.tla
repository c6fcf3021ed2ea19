----------------------------- MODULE DurableMap -----------------------------
(***************************************************************************)
(* What a collection promises of its records, without logs, checkpoints or *)
(* replays: a map from ids to versions that outlives its process.  Version *)
(* 0 is "no record".                                                       *)
(***************************************************************************)
EXTENDS Naturals

CONSTANT Id

VARIABLES
    serving,    \* is the collection open?
    seen,       \* the version of each record that requests find in it
    acked,      \* the version that acknowledged writes left
    tried,      \* versions that failed writes since then may leave yet
    clock,      \* every version so far is at most this
    intact      \* FALSE once records were lost: then nothing is promised

vars == <<serving, seen, acked, tried, clock, intact>>

Nothing == [i \in Id |-> 0]

Init ==
    /\ serving = FALSE /\ seen = Nothing /\ acked = Nothing
    /\ tried = [i \in Id |-> {}] /\ clock = 0 /\ intact = TRUE

-----------------------------------------------------------------------------
(* What a batch over the ids S may leave: nothing, or a new version each.  *)
Batches(S) ==
    {[i \in S |-> 0]} \cup
    {f \in [S -> (clock + 1)..clock'] : \A i, j \in S : f[i] = f[j] => i = j}

(* f where it is defined, and g elsewhere.                                 *)
Over(f, S, g) == [i \in Id |-> IF i \in S THEN f[i] ELSE g[i]]

(* A write that succeeds: all of the batch, at once.                       *)
Write(S) ==
    /\ intact /\ serving /\ clock' \in Nat /\ clock' > clock
    /\ \E f \in Batches(S) : seen' = Over(f, S, seen) /\ acked' = Over(f, S, acked)
    /\ tried' = [i \in Id |-> IF i \in S THEN {} ELSE tried[i]]
    /\ UNCHANGED <<serving, intact>>

(* A write that fails: nobody sees it now, and the next start may.         *)
FailedWrite(S) ==
    /\ intact /\ serving /\ clock' \in Nat /\ clock' > clock
    /\ \E f \in Batches(S) :
          tried' = [i \in Id |-> IF i \in S THEN tried[i] \cup {f[i]} ELSE tried[i]]
    /\ UNCHANGED <<serving, seen, acked, intact>>

(* The process dies.                                                       *)
Stop ==
    /\ intact /\ serving /\ serving' = FALSE /\ seen' = Nothing
    /\ UNCHANGED <<acked, tried, clock, intact>>

(* The collection opens again.                                             *)
Start ==
    /\ intact /\ ~serving /\ serving' = TRUE
    /\ seen' \in [Id -> Nat] /\ \A i \in Id : seen'[i] \in {acked[i]} \cup tried[i]
    /\ UNCHANGED <<acked, tried, clock, intact>>

(* The promise ends, for good: from then on anything may happen.           *)
Degrade == intact' = FALSE

Next ==
    \/ \E S \in (SUBSET Id) \ {{}} : Write(S) \/ FailedWrite(S)
    \/ Stop \/ Start \/ Degrade

Spec == Init /\ [][Next]_vars

=============================================================================
