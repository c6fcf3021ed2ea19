------------------------------ MODULE MCEngine ------------------------------
(* A small engine for TLC: ids and names are model values.                 *)
EXTENDS Engine, TLC

CONSTANTS c1, c2, u1, u2, n1

MCClient == {c1, c2}
MCUuid   == {u1, u2}
MCName   == {n1}
MCDim    == {1, 2}

(* Requests are interchangeable, and so are ids.                           *)
Symmetric == Permutations(MCClient) \cup Permutations(MCUuid)
=============================================================================
