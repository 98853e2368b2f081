-------------------------- MODULE MCDocumentRequests --------------------------
(* A small instance of DocumentRequests for TLC. *)
EXTENDS DocumentRequests, TLC

CONSTANTS p, q, r1, r2

Symmetry == Permutations(Payloads) \cup Permutations(Requests)
=============================================================================
