------------------------------ MODULE Signing ------------------------------
(***************************************************************************)
(* The signing workflow of ONE agreement, as the HTTP handlers of          *)
(* apps/api run it: WorkflowService (review cycle, send, sign, decline,    *)
(* cancel, remind, expire) and the AgreementService methods that touch the *)
(* same rows (activate, delete, in-app signer session).                    *)
(*                                                                         *)
(* Handlers run concurrently in Workers isolates and share only the        *)
(* Postgres rows.  Only sendForSignature opens a transaction; every other  *)
(* method is a read followed by separate autocommitted updates.  One       *)
(* action is one database statement (or one e-mail), so that every         *)
(* interleaving of two handlers at statement boundaries is a behaviour.    *)
(*                                                                         *)
(* Abstracted: who may call (roles, author checks), the OTP gate and the   *)
(* required-field validation of a signature (a refused request changes     *)
(* nothing), audit rows, the wording of e-mails.                           *)
(***************************************************************************)
EXTENDS Naturals, FiniteSets

CONSTANTS
    Handlers,   \* request (or cron) handlers that may be in flight at once
    Slots,      \* positions in the recipient list of a send request
    Tier,       \* [Slots -> Nat]: requested routingOrder || position
    Role,       \* [Slots -> {"signer","approver","reviewer","viewer"}]
    Orders,     \* signing orders a sender may choose
    Ops,        \* the operations that may be requested
    Faults,     \* TRUE: a database or mail call may throw, an isolate may die
    MaxGen,     \* bound: number of sends (each creates a recipient list)
    MaxTok,     \* bound: signing tokens per recipient
    MaxLinks,   \* bound: of these, how many before reminders, sessions and
                \* warnings stop asking for more
    MaxVTok     \* bound: verification tokens, and sealings, of the agreement

ASSUME TierAssumption == Tier \in [Slots -> Nat \ {0}]
ASSUME RoleAssumption == Role \in [Slots -> {"signer", "approver", "reviewer", "viewer"}]
ASSUME OrdersAssumption == Orders \subseteq {"SEQUENTIAL", "PARALLEL"}
ASSUME FaultsAssumption == Faults \in BOOLEAN
ASSUME BoundsAssumption ==
    MaxGen \in Nat /\ MaxTok \in Nat /\ MaxLinks \in Nat /\ MaxVTok \in Nat

VARIABLES
    agr,        \* the agreement row
    row,        \* the agreementRecipient rows; st = "NONE" where there is none
    held,       \* held[r]: the recipient has received the row's current token
    seal,       \* the documentSeal row: its verification token, the document and
                \* the recipients whose signatures that document shows
    signedEvt,  \* recipients with a document.signed event in the outbox
    declinedEvt,\* recipients with a document.declined event in the outbox
    completedEvt,\* verification token in the document.completed event, or 0
    links,      \* verification tokens e-mailed as permanent links
    warned,     \* the notification log holds an EXPIRY_WARNING
    gens,       \* sends begun so far (recipient ids are never reused)
    vtoks,      \* verification tokens generated so far
    seals,      \* documents sealed so far
    pc,         \* where each handler is
    loc         \* what each handler remembers from its earlier reads

vars == <<agr, row, held, seal, signedEvt, declinedEvt, completedEvt, links,
          warned, gens, vtoks, seals, pc, loc>>

\* What only completion, only a publish, or only a send changes.
outbox   == <<signedEvt, declinedEvt, completedEvt>>
artefact == <<seal, links, vtoks, seals>>

----------------------------------------------------------------------------
(* Rows *)

Statuses == {"DRAFT", "IN_REVIEW", "APPROVED", "REJECTED", "ACTIVE", "SENT",
             "DECLINED", "EXPIRED", "COMPLETED"}

Rcpt == (1 .. MaxGen) \X Slots

AgreementRow == [status : Statuses, order : {"SEQUENTIAL", "PARALLEL"},
                 step : Nat, vtok : Nat, pdf : Nat, deleted : BOOLEAN]

RecipientRow == [st : {"NONE", "PENDING", "INVITED", "SIGNED", "DECLINED"},
                 tok : Nat, tier : Nat, expired : BOOLEAN]

NoRow == [st |-> "NONE", tok |-> 0, tier |-> 0, expired |-> FALSE]

Live == {r \in Rcpt : row[r].st # "NONE"}

\* Roles whose signature is awaited; viewers and reviewers are not.
Active(R) == {r \in R : Role[r[2]] \in {"signer", "approver"}}

Signed(R) == {r \in R : row[r].st = "SIGNED"}

AllSigned == Active(Live) \subseteq Signed(Live)

\* Fault: a reminder ignores whose turn it is.
PendingAnyTier == {r \in Live : row[r].st \in {"PENDING", "INVITED"}}

\* Fault: a reminder forgets to skip those who have signed.
PendingOrSigned == {r \in Live : agr.order = "SEQUENTIAL" => row[r].tier = agr.step}

\* Recipients a reminder or a warning addresses: not signed, not declined,
\* and of the current tier when the order is sequential.
Pending == {r \in Live : /\ row[r].st \in {"PENDING", "INVITED"}
                         /\ agr.order = "SEQUENTIAL" => row[r].tier = agr.step}

----------------------------------------------------------------------------
(* Handlers *)

PCs == {"idle", "status_write", "delete_write",
        "send_delete", "send_commit", "loop", "mail",
        "sign_write", "sign_publish", "sign_evaluate", "sign_complete",
        "sign_seal", "sign_notify", "sign_advance",
        "decline_row", "decline_agreement", "decline_publish",
        "cancel_status", "cancel_tokens"}

Kinds == {"none", "send", "advance", "remind", "session", "warn"}

NoRcpt == <<>>

\* to: status to write; rcp: the recipient of the request's token, or of the
\* e-mail under way; order, step, vtok, pdf: the agreement as it was read;
\* gen: list a send creates; next: tier to unlock; rs: recipients still to
\* visit (or to delete); tok: token to mail; kind: which loop is visiting.
Locals == [to : Statuses, rcp : Rcpt \cup {NoRcpt},
           order : {"SEQUENTIAL", "PARALLEL"}, step : Nat, vtok : Nat,
           pdf : Nat, gen : Nat, next : Nat, rs : SUBSET Rcpt, tok : Nat,
           kind : Kinds]

NoLocals == [to |-> "DRAFT", rcp |-> NoRcpt, order |-> "PARALLEL", step |-> 0,
             vtok |-> 0, pdf |-> 0, gen |-> 0, next |-> 0, rs |-> {}, tok |-> 0,
             kind |-> "none"]

Goto(h, label) == pc' = [pc EXCEPT ![h] = label]

\* A request for operation op reaches an idle handler, which reads what it
\* needs, remembers it in l and has its first write at label.
Begin(h, op, label, l) ==
    /\ op \in Ops
    /\ pc[h] = "idle"
    /\ Goto(h, label)
    /\ loc' = [loc EXCEPT ![h] = l]

\* The handler returns or throws: nothing of it survives.
Return(h) == Goto(h, "idle") /\ loc' = [loc EXCEPT ![h] = NoLocals]

\* Rows a send has deleted but not yet committed: other writers wait for it.
Locked(r) == \E g \in Handlers : pc[g] = "send_commit" /\ r \in loc[g].rs

InFlight == Cardinality({h \in Handlers : pc[h] # "idle"})

\* Bound: the tokens that handlers in flight may still issue fit the bounds.
Room ==
    /\ \A r \in Rcpt : row[r].tok + InFlight < MaxTok
    /\ vtoks + InFlight < MaxVTok
    /\ seals + InFlight < MaxVTok

RoomForLinks == Room /\ \A r \in Rcpt : row[r].tok + InFlight < MaxLinks

Init ==
    /\ agr = [status |-> "DRAFT", order |-> "PARALLEL", step |-> 1,
              vtok |-> 0, pdf |-> 0, deleted |-> FALSE]
    /\ row = [r \in Rcpt |-> NoRow]
    /\ held = [r \in Rcpt |-> FALSE]
    /\ seal = [tok |-> 0, doc |-> 0, of |-> {}]
    /\ signedEvt = {} /\ declinedEvt = {} /\ completedEvt = 0
    /\ links = {}
    /\ warned = FALSE
    /\ gens = 0 /\ vtoks = 0 /\ seals = 0
    /\ pc = [h \in Handlers |-> "idle"]
    /\ loc = [h \in Handlers |-> NoLocals]

----------------------------------------------------------------------------
(* Review cycle, activation, expiry and deletion: read the status, check   *)
(* it, then write unconditionally by id.                                   *)

StatusRead(h, op, from, target) ==
    /\ ~agr.deleted
    /\ agr.status \in from
    /\ Begin(h, op, "status_write", [NoLocals EXCEPT !.to = target])
    /\ UNCHANGED <<agr, row, held, outbox, artefact, warned, gens>>

SubmitForReview(h) == StatusRead(h, "submitForReview", {"DRAFT", "REJECTED"}, "IN_REVIEW")
RetractReview(h)   == StatusRead(h, "retractReview", {"IN_REVIEW"}, "DRAFT")
ApproveAgreement(h) == StatusRead(h, "approveAgreement", {"IN_REVIEW"}, "APPROVED")
RejectAgreement(h) == StatusRead(h, "rejectAgreement", {"IN_REVIEW"}, "REJECTED")
ActivateAgreement(h) == StatusRead(h, "activateAgreement", Statuses \ {"ACTIVE"}, "ACTIVE")
\* The deadline may have passed whenever the cron handler looks.
ExpireAgreement(h) == StatusRead(h, "expireAgreement", {"SENT"}, "EXPIRED")

StatusWrite(h) ==
    /\ pc[h] = "status_write"
    /\ agr' = [agr EXCEPT !.status = loc[h].to]
    /\ Return(h)
    /\ UNCHANGED <<row, held, outbox, artefact, warned, gens>>

DeleteRead(h) ==
    /\ ~agr.deleted
    /\ Begin(h, "deleteAgreement", "delete_write", NoLocals)
    /\ UNCHANGED <<agr, row, held, outbox, artefact, warned, gens>>

DeleteWrite(h) ==
    /\ pc[h] = "delete_write"
    /\ agr' = [agr EXCEPT !.deleted = TRUE]
    /\ Return(h)
    /\ UNCHANGED <<row, held, outbox, artefact, warned, gens>>

----------------------------------------------------------------------------
(* sendForSignature *)

\* Ids and first tokens of the new recipient list are generated here.
SendRead(h) ==
    /\ ~agr.deleted
    /\ agr.status \in {"DRAFT", "APPROVED", "REJECTED", "ACTIVE", "DECLINED"}
    /\ gens < MaxGen
    /\ gens' = gens + 1
    /\ \E order \in Orders :
         Begin(h, "sendForSignature", "send_delete",
               [NoLocals EXCEPT !.order = order, !.gen = gens + 1])
    /\ UNCHANGED <<agr, row, held, outbox, artefact, warned>>

\* Fault: the old recipients are not removed.
SendKeeps(h) ==
    /\ pc[h] = "send_delete"
    /\ Goto(h, "send_commit")
    /\ UNCHANGED <<agr, row, held, outbox, artefact, warned, gens, loc>>

\* deleteMany, the transaction's first statement: it sees the rows committed
\* by now (READ COMMITTED), and locks them until the transaction commits.
SendDelete(h) ==
    /\ pc[h] = "send_delete"
    /\ loc' = [loc EXCEPT ![h].rs = Live]
    /\ Goto(h, "send_commit")
    /\ UNCHANGED <<agr, row, held, outbox, artefact, warned, gens>>

Created(h) == {loc[h].gen} \X Slots

CreatedTier(h, r) == IF loc[h].order = "SEQUENTIAL" THEN Tier[r[2]] ELSE 1

FirstInvited(h) == {r \in Created(h) : CreatedTier(h, r) = 1}

SendCommit(h) ==
    /\ pc[h] = "send_commit"
    /\ row' = [r \in Rcpt |->
                 CASE r \in Created(h) -> [st |-> "PENDING", tok |-> 1,
                                           tier |-> CreatedTier(h, r),
                                           expired |-> FALSE]
                   [] r \in loc[h].rs \ Created(h) -> NoRow
                   [] OTHER -> row[r]]
    /\ held' = [r \in Rcpt |-> held[r] /\ r \notin loc[h].rs]
    /\ agr' = [agr EXCEPT !.status = "SENT", !.order = loc[h].order, !.step = 1]
    /\ loc' = [loc EXCEPT ![h] =
                 [NoLocals EXCEPT !.kind = "send", !.rs = FirstInvited(h)]]
    /\ Goto(h, "loop")
    /\ UNCHANGED <<outbox, artefact, warned, gens>>

----------------------------------------------------------------------------
(* The loops that re-write recipients one by one and mail each a link:     *)
(* invitations of a send, of the next tier, reminders, expiry warnings,    *)
(* and the in-app session (one recipient; the "mail" is the response).     *)

\* Fault: a send rotates the token but mails the first one.
VisitedAlwaysRotates(kind, r) == [row[r] EXCEPT !.st = "INVITED", !.tok = @ + 1]

\* What the update of one recipient writes, by loop: a send keeps the first
\* token, a warning keeps the status, all others write both.
Visited(kind, r) ==
    [row[r] EXCEPT
        !.st = IF kind = "warn" THEN @ ELSE "INVITED",
        !.tok = IF kind = "send" THEN @ ELSE @ + 1,
        !.expired = @ /\ kind # "session"]

\* Fault: the update matches the agreement instead of the recipient.
LoopVisitsList(h) ==
    /\ pc[h] = "loop"
    /\ \E r \in loc[h].rs \cap Live :
         /\ row' = [q \in Rcpt |-> IF q \in Live THEN Visited(loc[h].kind, q) ELSE row[q]]
         /\ loc' = [loc EXCEPT ![h].rs = @ \ {r}, ![h].rcp = r, ![h].tok = 1]
    /\ Goto(h, "mail")
    /\ UNCHANGED <<agr, held, outbox, artefact, warned, gens>>

LoopVisit(h) ==
    /\ pc[h] = "loop"
    /\ \E r \in loc[h].rs \cap Live :
         /\ ~Locked(r)
         /\ row' = [row EXCEPT ![r] = Visited(loc[h].kind, r)]
         /\ held' = [held EXCEPT ![r] = @ /\ loc[h].kind = "send"]
         /\ loc' = [loc EXCEPT ![h].rs = @ \ {r}, ![h].rcp = r,
                        ![h].tok = IF loc[h].kind = "send" THEN 1 ELSE row[r].tok + 1]
    /\ Goto(h, "mail")
    /\ UNCHANGED <<agr, outbox, artefact, warned, gens>>

\* A link reaches its recipient; it works only while its token is current.
LoopMail(h) ==
    LET r == loc[h].rcp
    IN  /\ pc[h] = "mail"
        /\ held' = [held EXCEPT ![r] = @ \/ (r \in Live /\ row[r].tok = loc[h].tok)]
        /\ warned' = (warned \/ loc[h].kind = "warn")
        /\ Goto(h, "loop")
        /\ loc' = [loc EXCEPT ![h].rcp = NoRcpt, ![h].tok = 0]
        /\ UNCHANGED <<agr, row, outbox, artefact, gens>>

\* The loop is done, or the update finds no row (P2025) and throws.
LoopEnd(h) ==
    /\ pc[h] = "loop"
    /\ loc[h].rs = {} \/ loc[h].rs \ Live # {}
    /\ Return(h)
    /\ UNCHANGED <<agr, row, held, outbox, artefact, warned, gens>>

SendManualReminder(h) ==
    /\ ~agr.deleted /\ agr.status = "SENT" /\ RoomForLinks
    /\ \E rs \in {Pending} \cup {{r} : r \in Pending} :
         /\ rs # {}
         /\ Begin(h, "sendManualReminder", "loop",
                  [NoLocals EXCEPT !.kind = "remind", !.rs = rs])
    /\ UNCHANGED <<agr, row, held, outbox, artefact, warned, gens>>

ExpiryWarning(h) ==
    /\ ~agr.deleted /\ agr.status = "SENT" /\ ~warned /\ RoomForLinks
    /\ Pending # {}
    /\ Begin(h, "expiryWarning", "loop",
             [NoLocals EXCEPT !.kind = "warn", !.rs = Pending])
    /\ UNCHANGED <<agr, row, held, outbox, artefact, warned, gens>>

CreateSignerSession(h) ==
    /\ ~agr.deleted /\ agr.status = "SENT" /\ RoomForLinks
    /\ \E r \in Pending :
         Begin(h, "createSignerSession", "loop",
               [NoLocals EXCEPT !.kind = "session", !.rs = {r}])
    /\ UNCHANGED <<agr, row, held, outbox, artefact, warned, gens>>

----------------------------------------------------------------------------
(* submitRecipientSignature *)

\* The link's token finds the recipient and, with it, the agreement.  The
\* status is refused only when it is EXPIRED (or CANCELLED, which no code
\* writes); a recipient who has SIGNED gets an early answer.
SignRead(h) ==
    /\ agr.status # "EXPIRED" /\ Room
    /\ \E r \in Live :
         /\ held[r]
         /\ row[r].st # "SIGNED"
         /\ Begin(h, "submitRecipientSignature", "sign_write",
                  [NoLocals EXCEPT !.rcp = r, !.order = agr.order, !.step = agr.step,
                                   !.vtok = agr.vtok, !.pdf = agr.pdf])
    /\ UNCHANGED <<agr, row, held, outbox, artefact, warned, gens>>

\* An update by id, of any of the handlers: it waits for the row's lock and
\* throws when the row is gone.
UpdateRecipient(h, status, label) ==
    LET r == loc[h].rcp
    IN  /\ ~Locked(r)
        /\ \/ /\ r \in Live
              /\ row' = [row EXCEPT ![r].st = status]
              /\ Goto(h, label)
              /\ UNCHANGED loc
           \/ /\ r \notin Live
              /\ Return(h)
              /\ UNCHANGED row

SignWrite(h) ==
    /\ pc[h] = "sign_write"
    /\ UpdateRecipient(h, "SIGNED", "sign_publish")
    /\ UNCHANGED <<agr, held, outbox, artefact, warned, gens>>

\* Fault: a failed publish is not caught, and the handler throws.
SignPublishThrows(h) ==
    /\ pc[h] = "sign_publish"
    /\ Return(h)
    /\ UNCHANGED <<agr, row, held, outbox, artefact, warned, gens>>

SignPublish(h) ==
    /\ pc[h] = "sign_publish"
    /\ signedEvt' = signedEvt \cup {loc[h].rcp}
    /\ Goto(h, "sign_evaluate")
    /\ UNCHANGED <<agr, row, held, declinedEvt, completedEvt, artefact, warned, gens, loc>>

TierOf(R, k) == {r \in R : row[r].tier = k}

\* Active recipients of later tiers who have not signed.
Remaining(step) == {r \in Active(Live) \ Signed(Live) : row[r].tier > step}

\* The lowest of their tiers, if any.
NextTier(step) == {k \in {row[r].tier : r \in Remaining(step)} :
                     \A r \in Remaining(step) : k <= row[r].tier}

\* Fault: approvers are not awaited.
SignersFinished == {r \in Live : Role[r[2]] = "signer"} \subseteq Signed(Live)

AllFinished == Active(Live) \subseteq Signed(Live)

\* Re-reads the recipients, but judges the tier by the step read at first.
SignEvaluate(h) ==
    LET step == loc[h].step
        advance == /\ loc[h].order = "SEQUENTIAL"
                   /\ TierOf(Active(Live), step) \subseteq Signed(Live)
                   /\ Remaining(step) # {}
    IN  /\ pc[h] = "sign_evaluate"
        /\ \/ /\ AllFinished
              /\ Goto(h, "sign_complete")
              /\ UNCHANGED loc
           \/ /\ ~AllFinished /\ advance
              /\ Goto(h, "sign_advance")
              /\ \E k \in NextTier(step) :
                   loc' = [loc EXCEPT ![h].next = k, ![h].rs = TierOf(Active(Live), k)]
           \/ /\ ~AllFinished /\ ~advance
              /\ Return(h)
        /\ UNCHANGED <<agr, row, held, outbox, artefact, warned, gens>>

SignAdvance(h) ==
    /\ pc[h] = "sign_advance"
    /\ agr' = [agr EXCEPT !.step = loc[h].next]
    /\ loc' = [loc EXCEPT ![h] = [NoLocals EXCEPT !.kind = "advance", !.rs = loc[h].rs]]
    /\ Goto(h, "loop")
    /\ UNCHANGED <<row, held, outbox, artefact, warned, gens>>

\* Fault: the metadata is replaced instead of merged.
FreshMeta(h) == [vtok |-> vtoks + 1, pdf |-> 0]

\* The metadata of the first read, with a verification token if it had none.
CompletedMeta(h) == [vtok |-> IF loc[h].vtok # 0 THEN loc[h].vtok ELSE vtoks + 1,
                     pdf |-> loc[h].pdf]

SignComplete(h) ==
    LET meta == CompletedMeta(h)
    IN  /\ pc[h] = "sign_complete"
        /\ agr' = [agr EXCEPT !.status = "COMPLETED", !.vtok = meta.vtok, !.pdf = meta.pdf]
        /\ vtoks' = IF meta.vtok > vtoks THEN meta.vtok ELSE vtoks
        /\ loc' = [loc EXCEPT ![h].vtok = meta.vtok]
        /\ Goto(h, "sign_seal")
        /\ UNCHANGED <<row, held, outbox, seal, links, seals, warned, gens>>

\* sealAgreement, one transaction under the agreement's advisory lock: an
\* existing seal is reused when the metadata still holds the sealed document,
\* else the document is sealed anew.  A failure is swallowed.
SignSeal(h) ==
    LET sealed == agr.pdf # 0 /\ seal.doc # 0
        doc == seals + 1
    IN  /\ pc[h] = "sign_seal"
        /\ Goto(h, "sign_notify")
        /\ \/ /\ ~agr.deleted /\ sealed
              /\ loc' = [loc EXCEPT ![h].vtok = seal.tok]
              /\ UNCHANGED <<agr, seal, seals>>
           \/ /\ ~agr.deleted /\ ~sealed /\ agr.status = "COMPLETED"
              /\ seal' = [tok |-> agr.vtok, doc |-> doc, of |-> Signed(Live)]
              /\ agr' = [agr EXCEPT !.pdf = doc]
              /\ seals' = doc
              /\ loc' = [loc EXCEPT ![h].vtok = agr.vtok]
           \/ /\ agr.deleted \/ Faults \/ (~sealed /\ agr.status # "COMPLETED")
              /\ UNCHANGED <<agr, seal, seals, loc>>
        /\ UNCHANGED <<row, held, outbox, links, vtoks, warned, gens>>

\* sendCompletionNotifications: the event is deduplicated per agreement, the
\* e-mails are not.
SignNotify(h) ==
    /\ pc[h] = "sign_notify"
    /\ completedEvt' = IF completedEvt = 0 THEN loc[h].vtok ELSE completedEvt
    /\ links' = links \cup {loc[h].vtok}
    /\ Return(h)
    /\ UNCHANGED <<agr, row, held, signedEvt, declinedEvt, seal, vtoks, seals, warned, gens>>

----------------------------------------------------------------------------
(* declineRecipientSignature and cancelAgreement *)

DeclineRead(h) ==
    /\ \E r \in Live :
         /\ held[r]
         /\ Begin(h, "declineRecipientSignature", "decline_row",
                  [NoLocals EXCEPT !.rcp = r])
    /\ UNCHANGED <<agr, row, held, outbox, artefact, warned, gens>>

DeclineRow(h) ==
    /\ pc[h] = "decline_row"
    /\ UpdateRecipient(h, "DECLINED", "decline_agreement")
    /\ UNCHANGED <<agr, held, outbox, artefact, warned, gens>>

DeclineAgreement(h) ==
    /\ pc[h] = "decline_agreement"
    /\ agr' = [agr EXCEPT !.status = "DECLINED"]
    /\ Goto(h, "decline_publish")
    /\ UNCHANGED <<row, held, outbox, artefact, warned, gens, loc>>

DeclinePublish(h) ==
    /\ pc[h] = "decline_publish"
    /\ declinedEvt' = declinedEvt \cup {loc[h].rcp}
    /\ Return(h)
    /\ UNCHANGED <<agr, row, held, signedEvt, completedEvt, artefact, warned, gens>>

CancelRead(h) ==
    /\ ~agr.deleted
    /\ agr.status # "COMPLETED"
    /\ Begin(h, "cancelAgreement", "cancel_status", NoLocals)
    /\ UNCHANGED <<agr, row, held, outbox, artefact, warned, gens>>

\* Fault: the status CANCELLED, which readers still test and nothing writes.
CancelToCancelled(h) ==
    /\ pc[h] = "cancel_status"
    /\ agr' = [agr EXCEPT !.status = "CANCELLED"]
    /\ Goto(h, "cancel_tokens")
    /\ UNCHANGED <<row, held, outbox, artefact, warned, gens, loc>>

CancelStatus(h) ==
    /\ pc[h] = "cancel_status"
    /\ agr' = [agr EXCEPT !.status = "DRAFT"]
    /\ Goto(h, "cancel_tokens")
    /\ UNCHANGED <<row, held, outbox, artefact, warned, gens, loc>>

\* updateMany of tokenExpiresAt; the tokens themselves stay.
CancelTokens(h) ==
    /\ pc[h] = "cancel_tokens"
    /\ row' = [r \in Rcpt |-> IF r \in Live THEN [row[r] EXCEPT !.expired = TRUE]
                                            ELSE row[r]]
    /\ Return(h)
    /\ UNCHANGED <<agr, held, outbox, artefact, warned, gens>>

----------------------------------------------------------------------------

\* The isolate dies, or a database or mail call throws out of the handler.
\* Only a send has a transaction to roll back, and it has written nothing.
Abort(h) ==
    /\ Faults
    /\ pc[h] # "idle"
    /\ Return(h)
    /\ UNCHANGED <<agr, row, held, outbox, artefact, warned, gens>>

Request(h) ==
    \/ SubmitForReview(h) \/ RetractReview(h) \/ ApproveAgreement(h)
    \/ RejectAgreement(h) \/ ActivateAgreement(h) \/ ExpireAgreement(h)
    \/ DeleteRead(h) \/ SendRead(h) \/ SendManualReminder(h)
    \/ ExpiryWarning(h) \/ CreateSignerSession(h) \/ SignRead(h)
    \/ DeclineRead(h) \/ CancelRead(h)

Continue(h) ==
    \/ StatusWrite(h) \/ DeleteWrite(h)
    \/ SendDelete(h) \/ SendCommit(h)
    \/ LoopVisit(h) \/ LoopMail(h) \/ LoopEnd(h)
    \/ SignWrite(h) \/ SignPublish(h) \/ SignEvaluate(h) \/ SignAdvance(h)
    \/ SignComplete(h) \/ SignSeal(h) \/ SignNotify(h)
    \/ DeclineRow(h) \/ DeclineAgreement(h) \/ DeclinePublish(h)
    \/ CancelStatus(h) \/ CancelTokens(h)

Next == \E h \in Handlers : Request(h) \/ Continue(h) \/ Abort(h)

Spec == Init /\ [][Next]_vars

\* A request that has started runs to its end (the platform keeps running it),
\* and a recipient who can sign eventually submits a signature.
FairSpec ==
    /\ Spec
    /\ \A h \in Handlers : WF_vars(Continue(h))
    /\ WF_vars(\E h \in Handlers : SignRead(h))

----------------------------------------------------------------------------
(* Properties *)

\* Every row, local and counter keeps the shape the schema gives it, and the
\* counters stay within their bounds.
TypeOK ==
    /\ agr \in AgreementRow
    /\ row \in [Rcpt -> RecipientRow]
    /\ held \in [Rcpt -> BOOLEAN]
    /\ seal \in [tok : Nat, doc : Nat, of : SUBSET Rcpt]
    /\ signedEvt \subseteq Rcpt /\ declinedEvt \subseteq Rcpt
    /\ completedEvt \in Nat
    /\ links \subseteq Nat
    /\ warned \in BOOLEAN
    /\ gens \in Nat /\ vtoks \in Nat /\ seals \in Nat
    /\ pc \in [Handlers -> PCs]
    /\ loc \in [Handlers -> Locals]

Quiet == \A h \in Handlers : pc[h] = "idle"

\* No completion is lost to concurrent last signers: when the agreement is out
\* for signature and everyone awaited has signed, some handler has still to
\* re-read the recipients or to mark the agreement COMPLETED
\* (submitRecipientSignature re-reads after its write, whoever wrote last).
NoLostCompletion ==
    agr.status = "SENT" /\ Active(Live) # {} /\ AllSigned
        => \E h \in Handlers : pc[h] \in {"sign_publish", "sign_evaluate", "sign_complete"}

\* No agreement is stuck: when it is out for signature and no handler is under
\* way, somebody it awaits holds a working link, and so does whoever is awaited
\* no later; token rotation by reminders, sessions and tier advances strands
\* nobody.  (The row's step is not asked: a late advance may set it back.)
SomeoneCanSign ==
    agr.status = "SENT" /\ Quiet /\ ~AllSigned
        => \E r \in Active(Live) \ Signed(Live) :
             \A q \in Active(Live) \ Signed(Live) : row[q].tier <= row[r].tier => held[q]

\* Sequential routing: a signature is recorded only when every signer of the
\* lower tiers of the same list has answered (signed, or signed and declined
\* later), although the submit handler never checks the turn: the link itself
\* is withheld until then.
SignsInTurn ==
    [][\A r \in Rcpt : row[r].st # "SIGNED" /\ row'[r].st = "SIGNED" =>
         \A q \in Active(Live) : q[1] = r[1] /\ row[q].tier < row[r].tier
                                    => row[q].st \in {"SIGNED", "DECLINED"}]_vars

\* A recorded signature stays, whoever else writes the recipient's row, until
\* the recipient declines or a new list replaces the old one.
SignatureKept ==
    [][\A r \in Rcpt : row[r].st = "SIGNED" => row'[r].st \in {"SIGNED", "DECLINED", "NONE"}]_vars

\* Links e-mailed on completion, and the link in the document.completed event,
\* are those of the one seal kept for the agreement.
LinksStable ==
    seal.doc # 0 => links \subseteq {seal.tok} /\ completedEvt \in {0, seal.tok}

\* The stored document of a COMPLETED agreement shows all of its signers or,
\* when it is that of an earlier list which a reopened agreement still holds,
\* none of them.
SealShowsSigners ==
    agr.status = "COMPLETED" /\ agr.pdf # 0 /\ seal.of \cap Live # {} /\ Quiet
        => Active(Live) \subseteq seal.of

\* A sent agreement whose signers all sign eventually completes, and the
\* completion is announced: no tier is skipped, no link is lost for good.
SentCompletes == agr.status = "SENT" ~> agr.status = "COMPLETED" /\ completedEvt # 0

----------------------------------------------------------------------------
(* What the agreement promises to its parties, while its requests come one *)
(* at a time, is the specification of Envelope.                            *)

Promised == INSTANCE Envelope WITH
    Parties   <- Active(Rcpt),
    awaited   <- Active(Live),
    signed    <- Active(Signed(Live)),
    complete  <- agr.status = "COMPLETED",
    shown     <- Active(seal.of),
    announced <- completedEvt # 0

\* Every step of the handlers is a step of the envelope or none: statements in
\* any legal sequence, with faults between any two, resends and reopenings,
\* replace the list as a whole, complete and seal only what everyone awaited
\* has signed, and seal once.
ImplementsEnvelope == Promised!Spec
=============================================================================
