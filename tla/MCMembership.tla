----------------------------- MODULE MCMembership -----------------------------
(* Small instances of Membership for TLC. *)
EXTENDS Membership, TLC

CONSTANTS a, b, c, r1, r2

Symmetry == Permutations(Requests) \cup Permutations(Users \ {Founder})

AdminOrMember == {"admin", "member"}

Leaving == {"role", "remove", "status", "delete"}

Everything == Leaving \cup {"assignrole", "assign", "invite", "resend", "revoke", "accept",
                            "register", "review", "domain"}
=============================================================================
