----------------------------- MODULE MCDrafting -----------------------------
(* Small instances of Drafting for TLC. *)
EXTENDS Drafting, TLC

CONSTANTS h1, h2, t1, t2

\* The requests of the theorems in DraftingProofs.
Editor == {"saveDraft", "activateAgreement", "deleteAgreement"}
Everything == Editor \cup {m.op : m \in StatusMoves}
                     \cup {"apiSave", "moveToActive", "createVersion"}

Symmetry == Permutations(Handlers) \cup Permutations(Tabs)
=============================================================================
