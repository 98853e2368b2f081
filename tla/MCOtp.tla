------------------------------- MODULE MCOtp -------------------------------
(* Small instances of SignerOtp for TLC. *)
EXTENDS SignerOtp, TLC

CONSTANTS i1, i2, r1, r2

Symmetry == Permutations(Requests) \cup Permutations(Isolates)
=============================================================================
