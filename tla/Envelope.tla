------------------------------ MODULE Envelope ------------------------------
(***************************************************************************)
(* What the signing workflow promises about one agreement, whatever the    *)
(* statements it is made of: a list of parties is awaited as a whole, each *)
(* party's signature is kept, the agreement completes only when all of     *)
(* them have signed, it is sealed at most once, over all of their          *)
(* signatures, and completion is announced only once it has happened.      *)
(***************************************************************************)
CONSTANT Parties

VARIABLES
    awaited,    \* the parties whose signatures the current list asks for
    signed,     \* those of them who have signed
    complete,   \* the agreement is COMPLETED
    shown,      \* the parties whose signatures the sealed document shows
    announced   \* completion has been published

vars == <<awaited, signed, complete, shown, announced>>

Init ==
    /\ awaited = {} /\ signed = {} /\ shown = {}
    /\ complete = FALSE /\ announced = FALSE

\* A send replaces the list as a whole, and never that of a completed agreement.
Send ==
    /\ ~complete
    /\ awaited' \in SUBSET Parties
    /\ awaited' \cap awaited = {}
    /\ signed' = {}
    /\ UNCHANGED <<complete, shown, announced>>

Sign(p) ==
    /\ p \in awaited \ signed
    /\ signed' = signed \cup {p}
    /\ UNCHANGED <<awaited, complete, shown, announced>>

\* Only the party itself can take its signature back.
Decline(p) ==
    /\ p \in signed
    /\ signed' = signed \ {p}
    /\ UNCHANGED <<awaited, complete, shown, announced>>

Complete ==
    /\ ~complete
    /\ signed = awaited
    /\ complete' = TRUE
    /\ UNCHANGED <<awaited, signed, shown, announced>>

\* An activation, or a party that declines, reopens a completed agreement.
Reopen ==
    /\ complete
    /\ complete' = FALSE
    /\ UNCHANGED <<awaited, signed, shown, announced>>

Seal ==
    /\ complete /\ signed = awaited
    /\ shown = {}
    /\ shown' = awaited
    /\ UNCHANGED <<awaited, signed, complete, announced>>

Announce ==
    /\ complete
    /\ announced' = TRUE
    /\ UNCHANGED <<awaited, signed, complete, shown>>

Next ==
    \/ Send \/ Complete \/ Reopen \/ Seal \/ Announce
    \/ \E p \in Parties : Sign(p) \/ Decline(p)

Spec == Init /\ [][Next]_vars
=============================================================================
