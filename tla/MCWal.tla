------------------------------- MODULE MCWal -------------------------------
(* The instances of Wal that TLC checks.                                   *)
EXTENDS Wal, TLC

(* Records differ only in the operation they carry.                        *)
OpSymmetry == Permutations(Op)

=============================================================================
