------------------------------ MODULE MCSessions ------------------------------
(* A small instance of Sessions for TLC. *)
EXTENDS Sessions, TLC

CONSTANTS t1, t2, s1, s2, i1, i2, r1, r2, none

Symmetry == Permutations(Tokens) \cup Permutations(Secrets) \cup Permutations(Isolates)
            \cup Permutations(Requests)
=============================================================================
