------------------------------ MODULE MCAccounts ------------------------------
(* A small instance of Accounts for TLC. *)
EXTENDS Accounts, TLC

CONSTANTS a1, a2, e1, e2, e3, r1, r2, none

Symmetry == Permutations(Rows) \cup Permutations(Emails) \cup Permutations(Requests)
=============================================================================
