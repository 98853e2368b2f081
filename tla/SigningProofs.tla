--------------------------- MODULE SigningProofs ---------------------------
(***************************************************************************)
(* Theorems about Signing, for every set of handlers, every recipient      *)
(* list, every routing and every bound.                                    *)
(*                                                                         *)
(*   TypeCorrect           every row and local keeps its type              *)
(*   CompletionIsNotLost   while handlers run to their ends, a fully       *)
(*                         signed agreement always has a handler that will *)
(*                         complete it                                     *)
(*   NobodyIsStranded      while handlers run to their ends, somebody      *)
(*                         awaited by an agreement sent once can sign      *)
(* and with a single handler, and a fault between any two statements:      *)
(*   EnvelopeKept          Spec => ImplementsEnvelope                      *)
(*   SignaturesAreKept     no signature is turned back                     *)
(*   LinksAreStable        one verification token for links and event      *)
(*   SealsShowSigners      a seal of the live list shows all its signers   *)
(*   SignaturesInTurn      nobody signs before the lower tiers answered    *)
(***************************************************************************)
EXTENDS Signing, TLAPS

----------------------------------------------------------------------------
(* The strengthening: what a handler remembers fits the place it is at.    *)

RcptPCs == {"mail", "sign_write", "sign_publish", "sign_evaluate", "sign_complete",
            "sign_seal", "sign_notify", "sign_advance",
            "decline_row", "decline_agreement", "decline_publish"}

\* A handler at p that works for a recipient remembers which; one that sends
\* knows the list it creates; no unconditional status write re-sends.
Fits(p, l) ==
    /\ p \in RcptPCs => l.rcp \in Rcpt
    /\ p \in {"send_delete", "send_commit"} => l.gen \in 1 .. MaxGen
    /\ p = "status_write" => l.to # "SENT"

HandlersOK ==
    /\ pc \in [Handlers -> PCs]
    /\ loc \in [Handlers -> Locals]
    /\ \A h \in Handlers : Fits(pc[h], loc[h])

RowsOK ==
    /\ agr \in AgreementRow
    /\ row \in [Rcpt -> RecipientRow]
    /\ held \in [Rcpt -> BOOLEAN]
    /\ seal \in [tok : Nat, doc : Nat, of : SUBSET Rcpt]
    /\ signedEvt \subseteq Rcpt /\ declinedEvt \subseteq Rcpt
    /\ completedEvt \in Nat
    /\ links \subseteq Nat
    /\ warned \in BOOLEAN
    /\ gens \in Nat /\ vtoks \in Nat /\ seals \in Nat

Typed == RowsOK /\ HandlersOK

----------------------------------------------------------------------------
(* How one handler's step moves it.                                        *)

\* Moving one handler to a place its new locals fit keeps every handler fit.
LEMMA HandlerMoves ==
    ASSUME HandlersOK, NEW h \in Handlers, NEW p \in PCs, NEW l \in Locals, Fits(p, l),
           pc' = [pc EXCEPT ![h] = p], loc' = [loc EXCEPT ![h] = l]
    PROVE  HandlersOK'
BY DEF HandlersOK, Fits

\* The locals of an idle handler are typed.
LEMMA NoLocalsTyped == NoLocals \in Locals
BY DEF NoLocals, Locals, Statuses, Kinds

\* Returning keeps every handler fit.
LEMMA ReturnMoves ==
    ASSUME HandlersOK, NEW h \in Handlers, Return(h)
    PROVE  HandlersOK'
<1>1. "idle" \in PCs /\ Fits("idle", NoLocals)
  BY DEF PCs, Fits, RcptPCs
<1> QED  BY <1>1, HandlerMoves, NoLocalsTyped DEF Return, Goto

\* So does going on without learning anything, to a place that needs no more.
LEMMA GotoMoves ==
    ASSUME HandlersOK, NEW h \in Handlers, NEW p \in PCs, Fits(p, loc[h]),
           Goto(h, p), UNCHANGED loc
    PROVE  HandlersOK'
<1>1. loc[h] \in Locals /\ loc' = [loc EXCEPT ![h] = loc[h]]
  BY DEF HandlersOK
<1> QED  BY <1>1, HandlerMoves DEF Goto

\* And so does accepting a request.
LEMMA BeginMoves ==
    ASSUME HandlersOK, NEW h \in Handlers, NEW op, NEW p \in PCs, NEW l \in Locals,
           Fits(p, l), Begin(h, op, p, l)
    PROVE  HandlersOK'
BY HandlerMoves DEF Begin, Goto

----------------------------------------------------------------------------
(* Type correctness.                                                       *)

\* A recipient row stays typed when its status, token or expiry is written.
LEMMA RowWrites ==
    ASSUME NEW old \in RecipientRow
    PROVE  /\ \A s \in {"PENDING", "INVITED", "SIGNED", "DECLINED"} :
                [old EXCEPT !.st = s] \in RecipientRow
           /\ [old EXCEPT !.expired = TRUE] \in RecipientRow
BY DEF RecipientRow

LEMMA RowRewrites ==
    ASSUME NEW old \in RecipientRow, NEW t \in Nat, NEW e \in BOOLEAN,
           NEW s \in {"NONE", "PENDING", "INVITED", "SIGNED", "DECLINED"}
    PROVE  [old EXCEPT !.st = s, !.tok = t, !.expired = e] \in RecipientRow
BY DEF RecipientRow

LEMMA VisitedTyped ==
    ASSUME row \in [Rcpt -> RecipientRow], NEW r \in Rcpt, NEW k \in Kinds
    PROVE  Visited(k, r) \in RecipientRow
<1> DEFINE st == IF k = "warn" THEN row[r].st ELSE "INVITED"
           tok == IF k = "send" THEN row[r].tok ELSE row[r].tok + 1
           ex == row[r].expired /\ k # "session"
<1>1. row[r] \in RecipientRow
  OBVIOUS
<1>2. st \in {"NONE", "PENDING", "INVITED", "SIGNED", "DECLINED"} /\ tok \in Nat
  BY <1>1 DEF RecipientRow
<1>3. ex \in BOOLEAN
  BY Zenon
<1>4. Visited(k, r) = [row[r] EXCEPT !.st = st, !.tok = tok, !.expired = ex]
  BY Zenon DEF Visited
<1> HIDE DEF st, tok, ex
<1>5. [row[r] EXCEPT !.st = st, !.tok = tok, !.expired = ex] \in RecipientRow
  BY <1>1, <1>2, <1>3, RowRewrites
<1> QED  BY <1>4, <1>5

\* The list a send creates is one of those the rows are indexed by.
LEMMA CreatedRcpt ==
    ASSUME HandlersOK, NEW h \in Handlers, pc[h] \in {"send_delete", "send_commit"}
    PROVE  Created(h) \subseteq Rcpt /\ loc[h].order \in {"SEQUENTIAL", "PARALLEL"}
BY DEF HandlersOK, Fits, Created, Rcpt, Locals

LEMMA InitTyped == Init => Typed
<1> SUFFICES ASSUME Init PROVE Typed
  OBVIOUS
<1>1. HandlersOK
  BY NoLocalsTyped DEF Init, HandlersOK, PCs, Fits, RcptPCs
<1>2. RowsOK
  BY DEF Init, RowsOK, AgreementRow, Statuses, RecipientRow, NoRow
<1> QED  BY <1>1, <1>2 DEF Typed

\* Accepting a request changes nothing but the handler.
LEMMA RequestTyped ==
    ASSUME Typed, NEW h \in Handlers, Request(h)
    PROVE  Typed'
<1> USE DEF Typed
<1>2. ASSUME NEW op, NEW from, NEW target \in Statuses \ {"SENT"},
             StatusRead(h, op, from, target)
      PROVE  Typed'
  <2>1. [NoLocals EXCEPT !.to = target] \in Locals
    BY NoLocalsTyped DEF NoLocals, Locals
  <2>2. Fits("status_write", [NoLocals EXCEPT !.to = target]) /\ "status_write" \in PCs
    BY DEF Fits, RcptPCs, PCs, NoLocals
  <2>3. HandlersOK'
    BY <1>2, <2>1, <2>2, BeginMoves DEF StatusRead
  <2>4. RowsOK'
    BY <1>2 DEF StatusRead, RowsOK, outbox, artefact
  <2> QED  BY <2>3, <2>4
<1>3. CASE SubmitForReview(h) \/ RetractReview(h) \/ ApproveAgreement(h)
             \/ RejectAgreement(h) \/ ActivateAgreement(h) \/ ExpireAgreement(h)
  BY <1>2, <1>3 DEF SubmitForReview, RetractReview, ApproveAgreement, RejectAgreement,
     ActivateAgreement, ExpireAgreement, Statuses
<1>4. CASE DeleteRead(h)
  <2>1. Fits("delete_write", NoLocals) /\ "delete_write" \in PCs
    BY DEF Fits, RcptPCs, PCs
  <2>2. HandlersOK'
    BY <1>4, <2>1, BeginMoves, NoLocalsTyped DEF DeleteRead
  <2>3. RowsOK'
    BY <1>4 DEF DeleteRead, RowsOK, outbox, artefact
  <2> QED  BY <2>2, <2>3
<1>5. CASE CancelRead(h)
  <2>1. Fits("cancel_status", NoLocals) /\ "cancel_status" \in PCs
    BY DEF Fits, RcptPCs, PCs
  <2>2. HandlersOK'
    BY <1>5, <2>1, BeginMoves, NoLocalsTyped DEF CancelRead
  <2>3. RowsOK'
    BY <1>5 DEF CancelRead, RowsOK, outbox, artefact
  <2> QED  BY <2>2, <2>3
<1>6. CASE SendRead(h)
  <2>1. PICK order \in Orders :
           Begin(h, "sendForSignature", "send_delete",
                 [NoLocals EXCEPT !.order = order, !.gen = gens + 1])
    BY <1>6 DEF SendRead
  <2>2. gens + 1 \in 1 .. MaxGen /\ gens + 1 \in Nat
    BY <1>6, BoundsAssumption DEF SendRead, RowsOK
  <2>3. [NoLocals EXCEPT !.order = order, !.gen = gens + 1] \in Locals
    BY <2>2, NoLocalsTyped, OrdersAssumption DEF NoLocals, Locals
  <2>4. /\ Fits("send_delete", [NoLocals EXCEPT !.order = order, !.gen = gens + 1])
        /\ "send_delete" \in PCs
    BY <2>2 DEF Fits, RcptPCs, PCs, NoLocals
  <2>5. HandlersOK'
    BY <2>1, <2>3, <2>4, BeginMoves
  <2>6. RowsOK'
    BY <1>6 DEF SendRead, RowsOK, outbox, artefact
  <2> QED  BY <2>5, <2>6
<1>7. ASSUME NEW op, NEW k \in Kinds, NEW rs \in SUBSET Rcpt,
             Begin(h, op, "loop", [NoLocals EXCEPT !.kind = k, !.rs = rs]),
             UNCHANGED <<agr, row, held, outbox, artefact, warned, gens>>
      PROVE  Typed'
  <2>1. [NoLocals EXCEPT !.kind = k, !.rs = rs] \in Locals
    BY NoLocalsTyped DEF NoLocals, Locals
  <2>2. Fits("loop", [NoLocals EXCEPT !.kind = k, !.rs = rs]) /\ "loop" \in PCs
    BY DEF Fits, RcptPCs, PCs
  <2>3. HandlersOK'
    BY <1>7, <2>1, <2>2, BeginMoves
  <2>4. RowsOK'
    BY <1>7 DEF RowsOK, outbox, artefact
  <2> QED  BY <2>3, <2>4
<1>8. Pending \subseteq Rcpt /\ Live \subseteq Rcpt
  BY DEF Pending, Live
<1>9. CASE SendManualReminder(h)
  <2>1. PICK rs \in SUBSET Rcpt :
           Begin(h, "sendManualReminder", "loop", [NoLocals EXCEPT !.kind = "remind", !.rs = rs])
    BY <1>8, <1>9, Zenon DEF SendManualReminder
  <2>2. UNCHANGED <<agr, row, held, outbox, artefact, warned, gens>>
    BY <1>9 DEF SendManualReminder
  <2> QED  BY <1>7, <2>1, <2>2 DEF Kinds
<1>10. CASE ExpiryWarning(h)
  BY <1>7, <1>8, <1>10 DEF ExpiryWarning, Kinds
<1>11. CASE CreateSignerSession(h)
  <2>1. PICK r \in Pending :
           Begin(h, "createSignerSession", "loop", [NoLocals EXCEPT !.kind = "session", !.rs = {r}])
    BY <1>11 DEF CreateSignerSession
  <2>2. {r} \in SUBSET Rcpt
    BY <1>8
  <2>3. UNCHANGED <<agr, row, held, outbox, artefact, warned, gens>>
    BY <1>11 DEF CreateSignerSession
  <2> QED  BY <1>7, <2>1, <2>2, <2>3 DEF Kinds
<1>12. CASE SignRead(h)
  <2> DEFINE l(r) == [NoLocals EXCEPT !.rcp = r, !.order = agr.order, !.step = agr.step,
                                      !.vtok = agr.vtok, !.pdf = agr.pdf]
  <2>1. PICK r \in Live : Begin(h, "submitRecipientSignature", "sign_write", l(r))
    BY <1>12 DEF SignRead
  <2>2. l(r) \in Locals /\ Fits("sign_write", l(r)) /\ "sign_write" \in PCs
    BY <1>8 DEF NoLocals, Locals, RowsOK, AgreementRow, Fits, PCs, RcptPCs, Statuses, Kinds
  <2>3. HandlersOK'
    BY <2>1, <2>2, BeginMoves
  <2>4. RowsOK'
    BY <1>12 DEF SignRead, RowsOK, outbox, artefact
  <2> QED  BY <2>3, <2>4
<1>13. CASE DeclineRead(h)
  <2>1. PICK r \in Live : Begin(h, "declineRecipientSignature", "decline_row",
                                [NoLocals EXCEPT !.rcp = r])
    BY <1>13 DEF DeclineRead
  <2>2. /\ [NoLocals EXCEPT !.rcp = r] \in Locals
        /\ Fits("decline_row", [NoLocals EXCEPT !.rcp = r]) /\ "decline_row" \in PCs
    BY <1>8 DEF NoLocals, Locals, Fits, PCs, RcptPCs, Statuses, Kinds
  <2>3. HandlersOK'
    BY <2>1, <2>2, BeginMoves
  <2>4. RowsOK'
    BY <1>13 DEF DeclineRead, RowsOK, outbox, artefact
  <2> QED  BY <2>3, <2>4
<1> QED  BY <1>3, <1>4, <1>5, <1>6, <1>9, <1>10, <1>11, <1>12, <1>13 DEF Request

\* Writing one recipient's status keeps all rows typed and the handler fit.
LEMMA UpdateTyped ==
    ASSUME Typed, NEW h \in Handlers, NEW s \in {"SIGNED", "DECLINED"},
           NEW p \in PCs, Fits(p, loc[h]), pc[h] \in RcptPCs, UpdateRecipient(h, s, p)
    PROVE  row' \in [Rcpt -> RecipientRow] /\ HandlersOK'
<1> DEFINE r == loc[h].rcp
<1>1. r \in Rcpt /\ row \in [Rcpt -> RecipientRow] /\ HandlersOK
  BY DEF Typed, RowsOK, HandlersOK, Fits
<1>2. CASE r \in Live /\ row' = [row EXCEPT ![r].st = s] /\ Goto(h, p) /\ UNCHANGED loc
  <2>1. [row[r] EXCEPT !.st = s] \in RecipientRow
    BY <1>1, RowWrites
  <2> QED  BY <1>1, <1>2, <2>1, GotoMoves
<1>3. CASE Return(h) /\ UNCHANGED row
  BY <1>1, <1>3, ReturnMoves
<1> QED  BY <1>2, <1>3 DEF UpdateRecipient

\* Every statement of every handler keeps the rows and the handlers typed.
LEMMA StatusSteps ==
    ASSUME Typed, NEW h \in Handlers,
           StatusWrite(h) \/ DeleteWrite(h) \/ CancelStatus(h) \/ CancelTokens(h)
             \/ DeclineAgreement(h) \/ DeclinePublish(h)
    PROVE  Typed'
<1> USE DEF Typed
<1>0. loc[h] \in Locals /\ Fits(pc[h], loc[h])
  BY DEF HandlersOK
<1>1. CASE StatusWrite(h)
  <2>1. loc[h].to \in Statuses
    BY <1>0 DEF Locals
  <2>2. RowsOK'
    BY <1>1, <2>1 DEF StatusWrite, RowsOK, AgreementRow, outbox, artefact
  <2> QED  BY <1>1, <2>2, ReturnMoves DEF StatusWrite
<1>2. CASE DeleteWrite(h)
  <2>1. RowsOK'
    BY <1>2 DEF DeleteWrite, RowsOK, AgreementRow, outbox, artefact
  <2> QED  BY <1>2, <2>1, ReturnMoves DEF DeleteWrite
<1>3. CASE CancelStatus(h)
  <2>1. RowsOK'
    BY <1>3 DEF CancelStatus, RowsOK, AgreementRow, Statuses, outbox, artefact
  <2>2. Fits("cancel_tokens", loc[h]) /\ "cancel_tokens" \in PCs
    BY DEF Fits, RcptPCs, PCs
  <2> QED  BY <1>3, <2>1, <2>2, GotoMoves DEF CancelStatus
<1>4. CASE CancelTokens(h)
  <2>1. row' \in [Rcpt -> RecipientRow]
    BY <1>4, RowWrites DEF CancelTokens, RowsOK
  <2>2. RowsOK'
    BY <1>4, <2>1 DEF CancelTokens, RowsOK, outbox, artefact
  <2> QED  BY <1>4, <2>2, ReturnMoves DEF CancelTokens
<1>5. CASE DeclineAgreement(h)
  <2>1. RowsOK'
    BY <1>5 DEF DeclineAgreement, RowsOK, AgreementRow, Statuses, outbox, artefact
  <2>2. Fits("decline_publish", loc[h]) /\ "decline_publish" \in PCs
    BY <1>0, <1>5 DEF DeclineAgreement, Fits, RcptPCs, PCs
  <2> QED  BY <1>5, <2>1, <2>2, GotoMoves DEF DeclineAgreement
<1>6. CASE DeclinePublish(h)
  <2>1. loc[h].rcp \in Rcpt
    BY <1>0, <1>6 DEF DeclinePublish, Fits, RcptPCs
  <2>2. RowsOK'
    BY <1>6, <2>1 DEF DeclinePublish, RowsOK, artefact
  <2> QED  BY <1>6, <2>2, ReturnMoves DEF DeclinePublish
<1> QED  BY <1>1, <1>2, <1>3, <1>4, <1>5, <1>6

LEMMA SendSteps ==
    ASSUME Typed, NEW h \in Handlers, SendDelete(h) \/ SendCommit(h)
    PROVE  Typed'
<1> USE DEF Typed
<1>0. loc[h] \in Locals /\ Fits(pc[h], loc[h])
  BY DEF HandlersOK
<1>1. CASE SendDelete(h)
  <2>1. Live \in SUBSET Rcpt
    BY DEF Live
  <2> DEFINE l == [loc[h] EXCEPT !.rs = Live]
  <2>2. l \in Locals /\ loc' = [loc EXCEPT ![h] = l]
    BY <1>0, <1>1, <2>1 DEF Locals, SendDelete
  <2>3. Fits("send_commit", l) /\ "send_commit" \in PCs
    BY <1>0, <1>1 DEF SendDelete, Fits, RcptPCs, PCs, Locals
  <2>4. HandlersOK'
    BY <1>1, <2>2, <2>3, HandlerMoves DEF SendDelete, Goto
  <2>5. RowsOK'
    BY <1>1 DEF SendDelete, RowsOK, outbox, artefact
  <2> QED  BY <2>4, <2>5
<1>2. CASE SendCommit(h)
  <2>1. Created(h) \subseteq Rcpt /\ loc[h].order \in {"SEQUENTIAL", "PARALLEL"}
    BY <1>2, CreatedRcpt DEF SendCommit
  <2>2. ASSUME NEW r \in Created(h)
        PROVE  [st |-> "PENDING", tok |-> 1, tier |-> CreatedTier(h, r), expired |-> FALSE]
                 \in RecipientRow
    <3>1. r[2] \in Slots
      BY DEF Created
    <3>2. CreatedTier(h, r) \in Nat
      BY <3>1, TierAssumption DEF CreatedTier
    <3> QED  BY <3>2 DEF RecipientRow
  <2>3. NoRow \in RecipientRow
    BY DEF NoRow, RecipientRow
  <2>4. row' \in [Rcpt -> RecipientRow]
    BY <1>2, <2>2, <2>3 DEF SendCommit, RowsOK
  <2>5. held' \in [Rcpt -> BOOLEAN]
    BY <1>2, Zenon DEF SendCommit
  <2>6. agr' \in AgreementRow
    BY <1>2, <2>1 DEF SendCommit, RowsOK, AgreementRow, Statuses
  <2>7. RowsOK'
    BY <1>2, <2>4, <2>5, <2>6 DEF SendCommit, RowsOK, outbox, artefact
  <2> DEFINE l == [NoLocals EXCEPT !.kind = "send", !.rs = FirstInvited(h)]
  <2>8. FirstInvited(h) \in SUBSET Rcpt
    BY <2>1 DEF FirstInvited
  <2>9. l \in Locals /\ Fits("loop", l) /\ "loop" \in PCs
    BY <2>8, NoLocalsTyped DEF Locals, NoLocals, Kinds, Fits, RcptPCs, PCs
  <2> QED  BY <1>2, <2>7, <2>9, HandlerMoves DEF SendCommit, Goto
<1> QED  BY <1>1, <1>2

LEMMA LoopSteps ==
    ASSUME Typed, NEW h \in Handlers, LoopVisit(h) \/ LoopMail(h) \/ LoopEnd(h)
    PROVE  Typed'
<1> USE DEF Typed
<1>0. loc[h] \in Locals /\ Fits(pc[h], loc[h])
  BY DEF HandlersOK
<1>1. CASE LoopVisit(h)
  <2> DEFINE newtok(r) == IF loc[h].kind = "send" THEN 1 ELSE row[r].tok + 1
             l(r) == [loc[h] EXCEPT !.rs = @ \ {r}, !.rcp = r, !.tok = newtok(r)]
  <2>1. PICK r \in loc[h].rs \cap Live :
           /\ row' = [row EXCEPT ![r] = Visited(loc[h].kind, r)]
           /\ held' = [held EXCEPT ![r] = @ /\ loc[h].kind = "send"]
           /\ loc' = [loc EXCEPT ![h].rs = @ \ {r}, ![h].rcp = r, ![h].tok = newtok(r)]
    BY <1>1 DEF LoopVisit
  <2>2. r \in Rcpt /\ loc[h].kind \in Kinds
    BY <1>0 DEF Live, Locals
  <2>3. row' \in [Rcpt -> RecipientRow]
    BY <2>1, <2>2, VisitedTyped DEF RowsOK
  <2>4. held' \in [Rcpt -> BOOLEAN]
    BY <2>1, <2>2, Zenon DEF RowsOK
  <2>5. newtok(r) \in Nat
    BY <2>2 DEF RowsOK, RecipientRow
  <2> HIDE DEF newtok
  <2>6. l(r) \in Locals
    BY <1>0, <2>2, <2>5 DEF Locals
  <2>7. loc' = [loc EXCEPT ![h] = l(r)]
    BY <2>1 DEF HandlersOK
  <2>8. Fits("mail", l(r)) /\ "mail" \in PCs
    BY <1>0, <2>2 DEF Fits, RcptPCs, PCs, Locals
  <2>9. HandlersOK'
    BY <1>1, <2>6, <2>7, <2>8, HandlerMoves DEF LoopVisit, Goto
  <2> QED  BY <1>1, <2>3, <2>4, <2>9 DEF LoopVisit, RowsOK, outbox, artefact
<1>2. CASE LoopMail(h)
  <2> DEFINE r == loc[h].rcp
             l == [loc[h] EXCEPT !.rcp = NoRcpt, !.tok = 0]
  <2>1. r \in Rcpt
    BY <1>0, <1>2 DEF LoopMail, Fits, RcptPCs
  <2>2. held' \in [Rcpt -> BOOLEAN]
    <3> DEFINE got == held[r] \/ (r \in Live /\ row[r].tok = loc[h].tok)
    <3>1. held' = [held EXCEPT ![r] = got] /\ got \in BOOLEAN
      BY <1>2, Zenon DEF LoopMail
    <3> HIDE DEF got
    <3> QED  BY <2>1, <3>1 DEF RowsOK
  <2>3. warned' \in BOOLEAN
    BY <1>2, Zenon DEF LoopMail
  <2>4. l \in Locals /\ loc' = [loc EXCEPT ![h] = l]
    BY <1>0, <1>2 DEF Locals, LoopMail
  <2>5. Fits("loop", l) /\ "loop" \in PCs
    BY DEF Fits, RcptPCs, PCs
  <2>6. HandlersOK'
    BY <1>2, <2>4, <2>5, HandlerMoves DEF LoopMail, Goto
  <2> QED  BY <1>2, <2>2, <2>3, <2>6 DEF LoopMail, RowsOK, outbox, artefact
<1>3. CASE LoopEnd(h)
  BY <1>3, ReturnMoves DEF LoopEnd, RowsOK, outbox, artefact
<1> QED  BY <1>1, <1>2, <1>3

LEMMA SignSteps ==
    ASSUME Typed, NEW h \in Handlers,
           SignWrite(h) \/ SignPublish(h) \/ SignEvaluate(h) \/ SignAdvance(h) \/ DeclineRow(h)
    PROVE  Typed'
<1> USE DEF Typed
<1>0. loc[h] \in Locals /\ Fits(pc[h], loc[h])
  BY DEF HandlersOK
<1>1. CASE SignWrite(h)
  <2>1. /\ Fits("sign_publish", loc[h]) /\ "sign_publish" \in PCs
        /\ pc[h] \in RcptPCs
    BY <1>0, <1>1 DEF SignWrite, Fits, RcptPCs, PCs
  <2>2. row' \in [Rcpt -> RecipientRow] /\ HandlersOK'
    BY <1>1, <2>1, UpdateTyped DEF SignWrite
  <2> QED  BY <1>1, <2>2 DEF SignWrite, RowsOK, outbox, artefact
<1>2. CASE DeclineRow(h)
  <2>1. /\ Fits("decline_agreement", loc[h]) /\ "decline_agreement" \in PCs
        /\ pc[h] \in RcptPCs
    BY <1>0, <1>2 DEF DeclineRow, Fits, RcptPCs, PCs
  <2>2. row' \in [Rcpt -> RecipientRow] /\ HandlersOK'
    BY <1>2, <2>1, UpdateTyped DEF DeclineRow
  <2> QED  BY <1>2, <2>2 DEF DeclineRow, RowsOK, outbox, artefact
<1>3. CASE SignPublish(h)
  <2>1. Fits("sign_evaluate", loc[h]) /\ "sign_evaluate" \in PCs /\ loc[h].rcp \in Rcpt
    BY <1>0, <1>3 DEF SignPublish, Fits, RcptPCs, PCs
  <2> QED  BY <1>3, <2>1, GotoMoves DEF SignPublish, RowsOK, artefact
<1>4. CASE SignEvaluate(h)
  <2>1. RowsOK'
    BY <1>4 DEF SignEvaluate, RowsOK, outbox, artefact
  <2>2. loc[h].rcp \in Rcpt
    BY <1>0, <1>4 DEF SignEvaluate, Fits, RcptPCs
  <2>3. CASE Goto(h, "sign_complete") /\ UNCHANGED loc
    <3>1. Fits("sign_complete", loc[h]) /\ "sign_complete" \in PCs
      BY <2>2 DEF Fits, PCs
    <3> QED  BY <2>1, <2>3, <3>1, GotoMoves
  <2>4. ASSUME NEW k \in NextTier(loc[h].step), Goto(h, "sign_advance"),
               loc' = [loc EXCEPT ![h].next = k, ![h].rs = TierOf(Active(Live), k)]
        PROVE  Typed'
    <3> DEFINE l == [loc[h] EXCEPT !.next = k, !.rs = TierOf(Active(Live), k)]
    <3>1. k \in Nat
      BY DEF NextTier, Remaining, Active, Live, RowsOK, RecipientRow
    <3>2. TierOf(Active(Live), k) \in SUBSET Rcpt
      BY DEF TierOf, Active, Live
    <3>3. l \in Locals /\ loc' = [loc EXCEPT ![h] = l]
      BY <1>0, <2>4, <3>1, <3>2 DEF Locals, HandlersOK
    <3>4. Fits("sign_advance", l) /\ "sign_advance" \in PCs
      BY <1>0, <2>2 DEF Fits, PCs, Locals
    <3> QED  BY <2>1, <2>4, <3>3, <3>4, HandlerMoves DEF Goto
  <2>5. CASE Return(h)
    BY <2>1, <2>5, ReturnMoves
  <2> QED  BY <1>4, <2>3, <2>4, <2>5 DEF SignEvaluate
<1>5. CASE SignAdvance(h)
  <2> DEFINE l == [NoLocals EXCEPT !.kind = "advance", !.rs = loc[h].rs]
  <2>1. RowsOK'
    BY <1>0, <1>5 DEF SignAdvance, RowsOK, AgreementRow, Locals, outbox, artefact
  <2>2. l \in Locals /\ Fits("loop", l) /\ "loop" \in PCs
    BY <1>0, NoLocalsTyped DEF Locals, NoLocals, Kinds, Fits, RcptPCs, PCs
  <2> QED  BY <1>5, <2>1, <2>2, HandlerMoves DEF SignAdvance, Goto
<1> QED  BY <1>1, <1>2, <1>3, <1>4, <1>5

LEMMA CompletionSteps ==
    ASSUME Typed, NEW h \in Handlers, SignComplete(h) \/ SignSeal(h) \/ SignNotify(h)
    PROVE  Typed'
<1> USE DEF Typed
<1>0. loc[h] \in Locals /\ Fits(pc[h], loc[h])
  BY DEF HandlersOK
<1>1. CASE SignComplete(h)
  <2> DEFINE meta == CompletedMeta(h)
             l == [loc[h] EXCEPT !.vtok = meta.vtok]
  <2>1. meta.vtok \in Nat /\ meta.pdf \in Nat
    BY <1>0 DEF CompletedMeta, Locals, RowsOK
  <2>2. RowsOK'
    BY <1>1, <2>1 DEF SignComplete, RowsOK, AgreementRow, Statuses, outbox
  <2>3. l \in Locals /\ loc' = [loc EXCEPT ![h] = l]
    BY <1>0, <1>1, <2>1 DEF Locals, SignComplete
  <2>4. Fits("sign_seal", l) /\ "sign_seal" \in PCs
    BY <1>0, <1>1 DEF SignComplete, Fits, RcptPCs, PCs, Locals
  <2> QED  BY <1>1, <2>2, <2>3, <2>4, HandlerMoves DEF SignComplete, Goto
<1>2. CASE SignSeal(h)
  <2>1. Fits("sign_notify", loc[h]) /\ "sign_notify" \in PCs
    BY <1>0, <1>2 DEF SignSeal, Fits, RcptPCs, PCs
  <2>2. ASSUME NEW v \in Nat, loc' = [loc EXCEPT ![h].vtok = v], Goto(h, "sign_notify")
        PROVE  HandlersOK'
    <3> DEFINE l == [loc[h] EXCEPT !.vtok = v]
    <3>1. l \in Locals /\ loc' = [loc EXCEPT ![h] = l]
      BY <1>0, <2>2 DEF Locals
    <3>2. Fits("sign_notify", l)
      BY <1>0, <2>1 DEF Fits, RcptPCs, Locals
    <3> QED  BY <2>1, <2>2, <3>1, <3>2, HandlerMoves DEF Goto
  <2>3. HandlersOK'
    <3>1. seal.tok \in Nat /\ agr.vtok \in Nat
      BY DEF RowsOK, AgreementRow
    <3> QED  BY <1>2, <2>1, <2>2, <3>1, GotoMoves DEF SignSeal
  <2>4. Signed(Live) \in SUBSET Rcpt
    BY DEF Signed, Live
  <2>5. agr' \in AgreementRow
    BY <1>2 DEF SignSeal, RowsOK, AgreementRow
  <2>6. seal' \in [tok : Nat, doc : Nat, of : SUBSET Rcpt] /\ seals' \in Nat
    BY <1>2, <2>4 DEF SignSeal, RowsOK, AgreementRow
  <2> QED  BY <1>2, <2>3, <2>5, <2>6 DEF SignSeal, RowsOK, outbox
<1>3. CASE SignNotify(h)
  <2>1. loc[h].vtok \in Nat
    BY <1>0 DEF Locals
  <2>2. RowsOK'
    BY <1>3, <2>1 DEF SignNotify, RowsOK
  <2> QED  BY <1>3, <2>2, ReturnMoves DEF SignNotify
<1> QED  BY <1>1, <1>2, <1>3

LEMMA StepTyped ==
    ASSUME Typed, [Next]_vars
    PROVE  Typed'
<1>1. CASE UNCHANGED vars
  BY <1>1 DEF Typed, RowsOK, HandlersOK, vars
<1>2. ASSUME NEW h \in Handlers, Continue(h)
      PROVE  Typed'
  BY <1>2, StatusSteps, SendSteps, LoopSteps, SignSteps, CompletionSteps DEF Continue
<1>3. ASSUME NEW h \in Handlers, Abort(h)
      PROVE  Typed'
  BY <1>3, ReturnMoves DEF Abort, Typed, RowsOK, outbox, artefact
<1> QED  BY <1>1, <1>2, <1>3, RequestTyped DEF Next

LEMMA AlwaysTyped == Spec => []Typed
BY InitTyped, StepTyped, PTL DEF Spec

\* In every reachable state the rows, the handlers' places and what they
\* remember have their types, whatever fails and however handlers interleave.
THEOREM TypeCorrect == Spec => []TypeOK
<1>1. Typed => TypeOK
  BY DEF Typed, RowsOK, HandlersOK, TypeOK
<1> QED  BY <1>1, AlwaysTyped, PTL

----------------------------------------------------------------------------
(* No completion is lost.  Three facts carry the argument: the only write   *)
(* of SIGNED leaves its handler before the re-evaluation; an evaluation     *)
(* gives up only when it sees somebody missing; and a send, the only step   *)
(* back to SENT, leaves its whole new list unsigned.                        *)

\* A handler that has recorded a signature and not yet judged it, or that
\* has judged the agreement complete.
Completing == \E h \in Handlers : pc[h] \in {"sign_publish", "sign_evaluate", "sign_complete"}

\* Everyone awaited has signed, and there is someone to await.
Done == Active(Live) # {} /\ AllSigned

\* Another handler's step leaves a completing handler where it is.
LEMMA CompletingStays ==
    ASSUME HandlersOK, NEW h \in Handlers, NEW p \in PCs, pc' = [pc EXCEPT ![h] = p],
           pc[h] \notin {"sign_publish", "sign_evaluate", "sign_complete"}, Completing
    PROVE  Completing'
BY DEF HandlersOK, Completing

\* Writing one recipient's row without a signature makes nobody done.
LEMMA UnsignedWrite ==
    ASSUME RowsOK, NEW r \in Live, row'[r].st # "NONE",
           row'[r].st = "SIGNED" => row[r].st = "SIGNED",
           row' \in [Rcpt -> RecipientRow], \A q \in Rcpt \ {r} : row'[q] = row[q], Done'
    PROVE  Done
BY DEF RowsOK, Done, AllSigned, Signed, Active, Live

\* Rows that keep their status keep everyone's.
LEMMA SameStatus ==
    ASSUME \A q \in Rcpt : row'[q].st = row[q].st, Done'
    PROVE  Done
BY DEF Done, AllSigned, Signed, Active, Live

\* Right after a send someone of the new list is awaited and has not signed.
LEMMA SendUnsigned ==
    ASSUME Typed, NEW h \in Handlers, SendCommit(h), Typed'
    PROVE  ~Done'
<1> SUFFICES ASSUME Active(Live)' # {} PROVE ~(AllSigned')
  BY DEF Done
<1>1. PICK q \in Rcpt : q \in Active(Live)'
  BY DEF Active, Live
<1> DEFINE r == <<loc[h].gen, q[2]>>
<1>2. q[2] \in Slots /\ Role[q[2]] \in {"signer", "approver"}
  BY <1>1 DEF Active, Rcpt
<1>3. r \in Created(h) /\ r[2] = q[2] /\ r \in Rcpt
  BY <1>2, CreatedRcpt DEF Created, SendCommit, Typed
<1>4. row'[r].st = "PENDING"
  BY <1>3 DEF SendCommit
<1>5. r \in Active(Live)' /\ r \notin Signed(Live)'
  BY <1>2, <1>3, <1>4 DEF Active, Live, Signed
<1> QED  BY <1>5 DEF AllSigned

\* A request writes no row.
LEMMA RequestReads ==
    ASSUME NEW h \in Handlers, Request(h)
    PROVE  /\ UNCHANGED <<agr, row>> /\ pc[h] = "idle"
           /\ \E p : pc' = [pc EXCEPT ![h] = p]
<1>1. ASSUME NEW op, NEW from, NEW target, StatusRead(h, op, from, target)
      PROVE  /\ UNCHANGED <<agr, row>> /\ pc[h] = "idle"
             /\ pc' = [pc EXCEPT ![h] = "status_write"]
  BY <1>1 DEF StatusRead, Begin, Goto
<1>2. CASE SubmitForReview(h) \/ RetractReview(h) \/ ApproveAgreement(h)
             \/ RejectAgreement(h) \/ ActivateAgreement(h) \/ ExpireAgreement(h)
  BY <1>1, <1>2 DEF SubmitForReview, RetractReview, ApproveAgreement, RejectAgreement,
     ActivateAgreement, ExpireAgreement
<1>3. CASE DeleteRead(h) \/ SendRead(h) \/ CancelRead(h) \/ ExpiryWarning(h)
  BY <1>3 DEF DeleteRead, SendRead, CancelRead, ExpiryWarning, Begin, Goto
<1>4. CASE SendManualReminder(h)
  BY <1>4 DEF SendManualReminder, Begin, Goto
<1>5. CASE CreateSignerSession(h)
  BY <1>5 DEF CreateSignerSession, Begin, Goto
<1>6. CASE SignRead(h) \/ DeclineRead(h)
  BY <1>6 DEF SignRead, DeclineRead, Begin, Goto
<1> QED  BY <1>2, <1>3, <1>4, <1>5, <1>6 DEF Request

LEMMA StepCompletes ==
    ASSUME Faults = FALSE, Typed, Typed', NoLostCompletion, [Next]_vars
    PROVE  NoLostCompletion'
<1> SUFFICES ASSUME agr'.status = "SENT", Done'
             PROVE  Completing'
  BY DEF NoLostCompletion, Done, Completing
<1> USE DEF Typed
<1>0. agr.status = "SENT" /\ Done => Completing
  BY DEF NoLostCompletion, Done, Completing
<1>1. CASE UNCHANGED vars
  BY <1>0, <1>1 DEF vars, Done, Completing, AllSigned, Active, Signed, Live
<1>2. ASSUME NEW h \in Handlers, NEW p \in PCs, pc' = [pc EXCEPT ![h] = p],
             pc[h] \notin {"sign_publish", "sign_evaluate", "sign_complete"},
             agr.status = "SENT", Done
      PROVE  Completing'
  BY <1>0, <1>2, CompletingStays
<1>3. ASSUME UNCHANGED row
      PROVE  Done
  BY <1>3, SameStatus
<1>4. ASSUME NEW h \in Handlers, Request(h)
      PROVE  Completing'
  BY <1>2, <1>3, <1>4, RequestReads DEF HandlersOK
<1>5. ASSUME NEW h \in Handlers, Continue(h)
      PROVE  Completing'
  <2>0. loc[h] \in Locals /\ Fits(pc[h], loc[h]) /\ agr \in AgreementRow
    BY DEF HandlersOK, RowsOK
  <2> USE DEF PCs
  <2>1. CASE StatusWrite(h)
    BY <2>0, <2>1 DEF StatusWrite, AgreementRow, Fits
  <2>2. CASE DeleteWrite(h)
    BY <1>2, <1>3, <2>0, <2>2 DEF DeleteWrite, AgreementRow, Return, Goto
  <2>3. CASE SendDelete(h)
    BY <1>2, <1>3, <2>3 DEF SendDelete, Goto
  <2>4. CASE SendCommit(h)
    BY <2>4, SendUnsigned
  <2>5. CASE LoopVisit(h)
    <3>1. PICK r \in loc[h].rs \cap Live : row' = [row EXCEPT ![r] = Visited(loc[h].kind, r)]
      BY <2>5 DEF LoopVisit
    <3>2. r \in Rcpt /\ row[r].st # "NONE" /\ row[r] \in RecipientRow
      BY DEF Live, RowsOK
    <3>3. row'[r].st \in {row[r].st, "INVITED"}
      BY <3>1, <3>2 DEF Visited, RowsOK, RecipientRow
    <3>4. Done
      BY <3>1, <3>2, <3>3, UnsignedWrite DEF RowsOK
    <3> QED  BY <1>2, <2>5, <3>4 DEF LoopVisit, Goto
  <2>6. CASE LoopMail(h)
    BY <1>2, <1>3, <2>6 DEF LoopMail, Goto
  <2>7. CASE LoopEnd(h)
    BY <1>2, <1>3, <2>7 DEF LoopEnd, Return, Goto
  <2>8. CASE SignWrite(h)
    <3>1. CASE Goto(h, "sign_publish")
      BY <3>1 DEF Goto, HandlersOK, Completing
    <3>2. CASE Return(h) /\ UNCHANGED row
      BY <1>2, <1>3, <2>8, <3>2 DEF SignWrite, Return, Goto
    <3> QED  BY <2>8, <3>1, <3>2 DEF SignWrite, UpdateRecipient
  <2>9. CASE SignPublish(h)
    BY <2>9 DEF SignPublish, Goto, HandlersOK, Completing
  <2>10. CASE SignEvaluate(h)
    <3>1. Done
      BY <1>3, <2>10 DEF SignEvaluate
    <3>2. Goto(h, "sign_complete")
      BY <2>10, <3>1 DEF SignEvaluate, Done, AllSigned, AllFinished
    <3> QED  BY <3>2 DEF Goto, HandlersOK, Completing
  <2>11. CASE SignAdvance(h)
    BY <1>2, <1>3, <2>0, <2>11 DEF SignAdvance, Goto, AgreementRow
  <2>12. CASE SignComplete(h)
    BY <2>0, <2>12 DEF SignComplete, AgreementRow
  <2>13. CASE SignSeal(h)
    <3>1. agr'.status = agr.status
      BY <2>0, <2>13 DEF SignSeal, AgreementRow
    <3> QED  BY <1>2, <1>3, <2>13, <3>1 DEF SignSeal, Goto
  <2>14. CASE SignNotify(h)
    BY <1>2, <1>3, <2>14 DEF SignNotify, Return, Goto
  <2>15. CASE DeclineRow(h)
    <3> DEFINE r == loc[h].rcp
    <3>1. CASE r \in Live /\ row' = [row EXCEPT ![r].st = "DECLINED"]
                 /\ Goto(h, "decline_agreement")
      <4>1. row'[r].st = "DECLINED" /\ \A q \in Rcpt \ {r} : row'[q] = row[q]
        BY <3>1 DEF Live, RowsOK, RecipientRow
      <4>2. Done
        BY <3>1, <4>1, UnsignedWrite DEF RowsOK
      <4> QED  BY <1>2, <2>15, <3>1, <4>2 DEF DeclineRow, Goto
    <3>2. CASE Return(h) /\ UNCHANGED row
      BY <1>2, <1>3, <2>15, <3>2 DEF DeclineRow, Return, Goto
    <3> QED  BY <2>15, <3>1, <3>2 DEF DeclineRow, UpdateRecipient
  <2>16. CASE DeclineAgreement(h) \/ CancelStatus(h)
    BY <2>0, <2>16 DEF DeclineAgreement, CancelStatus, AgreementRow
  <2>17. CASE DeclinePublish(h)
    BY <1>2, <1>3, <2>17 DEF DeclinePublish, Return, Goto
  <2>18. CASE CancelTokens(h)
    <3>1. \A q \in Rcpt : row'[q].st = row[q].st
      BY <2>18 DEF CancelTokens, RowsOK, RecipientRow
    <3> QED  BY <1>2, <2>18, <3>1, SameStatus DEF CancelTokens, Return, Goto
  <2> QED  BY <1>5, <2>1, <2>2, <2>3, <2>4, <2>5, <2>6, <2>7, <2>8, <2>9, <2>10, <2>11,
              <2>12, <2>13, <2>14, <2>15, <2>16, <2>17, <2>18 DEF Continue
<1> QED  BY <1>1, <1>4, <1>5 DEF Next, Abort

\* While every handler runs to its end, no completion is lost, for any number
\* of concurrent submissions, sends, reminders, declines and cancellations.
THEOREM CompletionIsNotLost ==
    ASSUME Faults = FALSE
    PROVE  Spec => []NoLostCompletion
<1>1. Init => NoLostCompletion
  BY DEF Init, NoLostCompletion
<1>2. Typed /\ Typed' /\ NoLostCompletion /\ [Next]_vars => NoLostCompletion'
  BY StepCompletes
<1> QED  BY <1>1, <1>2, AlwaysTyped, PTL DEF Spec

----------------------------------------------------------------------------
(* The envelope.  While its requests come one at a time, the signing        *)
(* workflow implements Envelope, with a fault between any two statements;   *)
(* from here on, a single handler is assumed where a theorem says so.      *)

----------------------------------------------------------------------------
(* The strengthening.  A link is held, and a row touched, only when its    *)
(* turn has come; and what the handler read is still so when it uses it.   *)

\* Under sequential routing, the recipient's tier has been unlocked.
Turn(r) == agr.order = "SEQUENTIAL" => row[r].tier <= agr.step

RowsInTurn ==
    /\ \A r \in Rcpt : held[r] => r \in Live /\ Turn(r)
    /\ \A r \in Live : ~Turn(r) => row[r].st = "PENDING"
    /\ \A r \in Live : r[1] <= gens

SealIsFiled == Active(seal.of) # {} => agr.pdf # 0 /\ seal.doc # 0

\* The rows a loop has still to visit are in turn, and it takes nobody's
\* signature back: only a warning keeps the status it finds.
Visiting(l) ==
    \A r \in l.rs \cap Live : Turn(r) /\ (l.kind # "warn" => row[r].st # "SIGNED")

\* The agreement is still what the submission read.
ReadIsCurrent(l) == l.order = agr.order /\ l.step = agr.step /\ l.pdf = agr.pdf

\* The list that a send is about to replace, and the new list's number.
Replacing(l) ==
    /\ agr.status # "COMPLETED"
    /\ l.gen <= gens
    /\ \A r \in Live : r[1] < l.gen

Unlocking(l) ==
    /\ agr.order = "SEQUENTIAL" /\ l.next > agr.step
    /\ \A r \in l.rs \cap Live : row[r].tier = l.next

Holds(p, l) ==
    /\ p = "status_write" => l.to # "COMPLETED"
    /\ p \in {"send_delete", "send_commit"} => Replacing(l)
    /\ p = "send_commit" => l.rs = Live
    /\ p \in {"loop", "mail"} => Visiting(l)
    /\ p \in {"mail", "sign_write", "decline_row"} => (l.rcp \in Live => Turn(l.rcp))
    /\ p \in {"sign_write", "sign_publish", "sign_evaluate", "sign_complete"} => ReadIsCurrent(l)
    /\ p = "sign_advance" => Unlocking(l)
    /\ p \in {"sign_complete", "sign_seal", "sign_notify"} => AllSigned
    /\ p \in {"sign_seal", "sign_notify"} => agr.status = "COMPLETED"

Alone == RowsInTurn /\ SealIsFiled /\ \A h \in Handlers : Holds(pc[h], loc[h])

----------------------------------------------------------------------------
(* Rows and handlers that do not move.                                     *)

\* Rows that keep their status are live, awaited and signed as before.
LEMMA RowsKeep ==
    ASSUME \A r \in Rcpt : row'[r].st = row[r].st
    PROVE  /\ Live' = Live /\ Signed(Live)' = Signed(Live)
           /\ Active(Live)' = Active(Live)
           /\ Active(Signed(Live))' = Active(Signed(Live))
           /\ AllSigned' = AllSigned
BY DEF Live, Signed, Active, AllSigned

\* Whether a row is in turn depends on its tier and on the step alone.
LEMMA RowsStayInTurn ==
    ASSUME Typed, RowsInTurn, gens' \in Nat, gens' >= gens,
           agr'.order = agr.order, agr'.step = agr.step,
           \A r \in Rcpt : row'[r].tier = row[r].tier /\ row'[r].st = row[r].st,
           \A r \in Rcpt : held'[r] => held[r]
    PROVE  RowsInTurn'
<1>1. Live' = Live /\ \A r \in Rcpt : Turn(r)' = Turn(r)
  BY RowsKeep DEF Turn
<1>2. \A r \in Live : r \in Rcpt /\ r[1] \in Nat
  BY DEF Live, Rcpt
<1> QED  BY <1>1, <1>2 DEF RowsInTurn, Typed, RowsOK

\* With a single handler, what holds at its place holds at every place.
LEMMA OneHandler ==
    ASSUME NEW h, Handlers = {h}, RowsInTurn', SealIsFiled', Holds(pc[h], loc[h])'
    PROVE  Alone'
BY DEF Alone

\* Nothing is asked of an idle handler.
LEMMA IdleHolds ==
    ASSUME NEW h \in Handlers, HandlersOK, Return(h)
    PROVE  Holds(pc[h], loc[h])' /\ pc'[h] = "idle"
BY DEF Holds, Return, Goto, HandlersOK

\* Accepting a request puts the handler where it says, with what it read.
LEMMA BeginSets ==
    ASSUME NEW h \in Handlers, NEW op, NEW p, NEW l, HandlersOK, Begin(h, op, p, l)
    PROVE  pc[h] = "idle" /\ pc'[h] = p /\ loc'[h] = l
BY DEF Begin, Goto, HandlersOK

LEMMA SealStays ==
    ASSUME SealIsFiled, agr'.pdf = agr.pdf, UNCHANGED seal
    PROVE  SealIsFiled'
BY DEF SealIsFiled, Active

----------------------------------------------------------------------------
(* A request reads; it changes no row.                                     *)

LEMMA RequestKeeps ==
    ASSUME NEW h \in Handlers, Request(h)
    PROVE  UNCHANGED <<agr, row, held, seal, completedEvt>>
<1>1. ASSUME NEW op, NEW from, NEW target, StatusRead(h, op, from, target)
      PROVE  UNCHANGED <<agr, row, held, seal, completedEvt>>
  BY <1>1 DEF StatusRead, outbox, artefact
<1>2. CASE SubmitForReview(h) \/ RetractReview(h) \/ ApproveAgreement(h)
             \/ RejectAgreement(h) \/ ActivateAgreement(h) \/ ExpireAgreement(h)
  BY <1>1, <1>2 DEF SubmitForReview, RetractReview, ApproveAgreement, RejectAgreement,
     ActivateAgreement, ExpireAgreement
<1>3. CASE DeleteRead(h) \/ SendRead(h) \/ SendManualReminder(h) \/ ExpiryWarning(h)
             \/ CreateSignerSession(h) \/ SignRead(h) \/ DeclineRead(h) \/ CancelRead(h)
  BY <1>3 DEF DeleteRead, SendRead, SendManualReminder, ExpiryWarning, CreateSignerSession,
     SignRead, DeclineRead, CancelRead, outbox, artefact
<1> QED  BY <1>2, <1>3 DEF Request

\* A loop begins with rows that are pending and in turn.
LEMMA LoopBegins ==
    ASSUME NEW h \in Handlers, Typed, UNCHANGED <<agr, row>>, NEW op, NEW k,
           NEW rs \in SUBSET Pending,
           Begin(h, op, "loop", [NoLocals EXCEPT !.kind = k, !.rs = rs])
    PROVE  Holds(pc[h], loc[h])'
<1>0. pc'[h] = "loop" /\ loc'[h] = [NoLocals EXCEPT !.kind = k, !.rs = rs]
  BY BeginSets DEF Typed
<1>1. pc'[h] = "loop" /\ loc'[h].rs = rs
  BY <1>0 DEF NoLocals
<1>2. \A r \in rs : row[r].st # "SIGNED" /\ Turn(r)
  BY DEF Pending, Turn, Typed, RowsOK, AgreementRow, RecipientRow, Live
<1>3. Visiting(loc[h])'
  BY <1>1, <1>2 DEF Visiting, Turn, Live
<1> QED  BY <1>1, <1>3 DEF Holds

LEMMA RequestAlone ==
    ASSUME NEW h, Handlers = {h}, Typed, Alone, Request(h), Typed'
    PROVE  Alone'
<1> USE DEF Typed
<1>1. h \in Handlers /\ HandlersOK /\ RowsInTurn /\ SealIsFiled
  BY DEF Alone
<1>2. UNCHANGED <<agr, row, held, seal>>
  BY <1>1, RequestKeeps
<1>3. gens \in Nat /\ gens' \in Nat /\ gens' >= gens
  <2>1. gens \in Nat
    BY DEF RowsOK
  <2>2. CASE SendRead(h)
    BY <2>1, <2>2 DEF SendRead
  <2>3. CASE DeleteRead(h) \/ SendManualReminder(h) \/ ExpiryWarning(h)
             \/ CreateSignerSession(h) \/ SignRead(h) \/ DeclineRead(h) \/ CancelRead(h)
    <3>1. gens' = gens
      BY <2>3 DEF DeleteRead, SendManualReminder, ExpiryWarning, CreateSignerSession,
         SignRead, DeclineRead, CancelRead
    <3> QED  BY <2>1, <3>1
  <2>4. CASE SubmitForReview(h) \/ RetractReview(h) \/ ApproveAgreement(h)
             \/ RejectAgreement(h) \/ ActivateAgreement(h) \/ ExpireAgreement(h)
    BY <2>1, <2>4 DEF SubmitForReview, RetractReview, ApproveAgreement, RejectAgreement,
       ActivateAgreement, ExpireAgreement, StatusRead
  <2> QED  BY <2>2, <2>3, <2>4 DEF Request
<1>4. RowsInTurn' /\ SealIsFiled'
  BY <1>1, <1>2, <1>3, RowsStayInTurn, SealStays
<1>5. Holds(pc[h], loc[h])'
  <2>1. ASSUME NEW op, NEW from, NEW target \in Statuses \ {"COMPLETED"},
               StatusRead(h, op, from, target)
        PROVE  Holds(pc[h], loc[h])'
    <3>1. pc'[h] = "status_write" /\ loc'[h].to = target
      BY <1>1, <2>1, BeginSets DEF StatusRead, NoLocals
    <3> QED  BY <3>1 DEF Holds
  <2>2. CASE SubmitForReview(h) \/ RetractReview(h) \/ ApproveAgreement(h)
               \/ RejectAgreement(h) \/ ActivateAgreement(h) \/ ExpireAgreement(h)
    BY <2>1, <2>2 DEF SubmitForReview, RetractReview, ApproveAgreement, RejectAgreement,
       ActivateAgreement, ExpireAgreement, Statuses
  <2>3. CASE DeleteRead(h) \/ CancelRead(h)
    <3>1. pc'[h] \in {"delete_write", "cancel_status"}
      BY <1>1, <2>3, BeginSets DEF DeleteRead, CancelRead
    <3> QED  BY <3>1 DEF Holds
  <2>4. CASE SendRead(h)
    <3>1. PICK order \in Orders :
             Begin(h, "sendForSignature", "send_delete",
                   [NoLocals EXCEPT !.order = order, !.gen = gens + 1])
      BY <2>4 DEF SendRead
    <3>2. pc'[h] = "send_delete" /\ loc'[h].gen = gens + 1
      <4>1. /\ pc'[h] = "send_delete"
            /\ loc'[h] = [NoLocals EXCEPT !.order = order, !.gen = gens + 1]
        BY <1>1, <3>1, BeginSets
      <4> QED  BY <4>1 DEF NoLocals
    <3>3. agr'.status # "COMPLETED" /\ gens' = gens + 1
      BY <1>2, <2>4 DEF SendRead
    <3>4. \A r \in Live' : r[1] < gens + 1
      BY <1>1, <1>2, <1>3 DEF RowsInTurn, Live, Rcpt
    <3>5. Replacing(loc[h])'
      BY <1>3, <3>2, <3>3, <3>4 DEF Replacing
    <3> QED  BY <3>2, <3>5 DEF Holds
  <2>5. CASE SendManualReminder(h)
    <3>1. PICK rs \in SUBSET Pending :
             Begin(h, "sendManualReminder", "loop", [NoLocals EXCEPT !.kind = "remind", !.rs = rs])
      BY <2>5, Zenon DEF SendManualReminder
    <3> QED  BY <1>1, <1>2, <3>1, LoopBegins
  <2>6. CASE ExpiryWarning(h)
    BY <1>1, <1>2, <2>6, LoopBegins DEF ExpiryWarning
  <2>7. CASE CreateSignerSession(h)
    <3>1. PICK r \in Pending :
             Begin(h, "createSignerSession", "loop", [NoLocals EXCEPT !.kind = "session", !.rs = {r}])
      BY <2>7 DEF CreateSignerSession
    <3>2. {r} \in SUBSET Pending
      OBVIOUS
    <3> QED  BY <1>1, <1>2, <3>1, <3>2, LoopBegins
  <2>8. CASE SignRead(h)
    <3> DEFINE l(r) == [NoLocals EXCEPT !.rcp = r, !.order = agr.order, !.step = agr.step,
                                        !.vtok = agr.vtok, !.pdf = agr.pdf]
    <3>1. PICK r \in Live : held[r] /\ Begin(h, "submitRecipientSignature", "sign_write", l(r))
      BY <2>8 DEF SignRead
    <3>2. /\ pc'[h] = "sign_write" /\ loc'[h].rcp = r
          /\ loc'[h].order = agr.order /\ loc'[h].step = agr.step /\ loc'[h].pdf = agr.pdf
      <4>1. pc'[h] = "sign_write" /\ loc'[h] = l(r)
        BY <1>1, <3>1, BeginSets
      <4> QED  BY <4>1 DEF NoLocals
    <3>3. Turn(r)
      BY <1>1, <3>1 DEF RowsInTurn, Live
    <3>4. Turn(loc[h].rcp)' /\ ReadIsCurrent(loc[h])'
      BY <1>2, <3>2, <3>3 DEF Turn, ReadIsCurrent
    <3> QED  BY <3>2, <3>4 DEF Holds
  <2>9. CASE DeclineRead(h)
    <3>1. PICK r \in Live : held[r] /\ Begin(h, "declineRecipientSignature", "decline_row",
                                             [NoLocals EXCEPT !.rcp = r])
      BY <2>9 DEF DeclineRead
    <3>2. pc'[h] = "decline_row" /\ loc'[h].rcp = r
      BY <1>1, <3>1, BeginSets DEF NoLocals
    <3>3. Turn(loc[h].rcp)'
      BY <1>1, <1>2, <3>1, <3>2 DEF RowsInTurn, Live, Turn
    <3> QED  BY <3>2, <3>3 DEF Holds
  <2> QED  BY <2>2, <2>3, <2>4, <2>5, <2>6, <2>7, <2>8, <2>9 DEF Request
<1> QED  BY <1>1, <1>4, <1>5, OneHandler

----------------------------------------------------------------------------
(* Statements that write the agreement's status, or nothing of the rows    *)
(* but their expiry.                                                       *)

LEMMA StatusAlone ==
    ASSUME NEW h, Handlers = {h}, Typed, Alone,
           StatusWrite(h) \/ DeleteWrite(h) \/ CancelStatus(h) \/ CancelTokens(h)
             \/ DeclineAgreement(h) \/ DeclinePublish(h)
    PROVE  Alone'
<1> USE DEF Typed
<1>1. /\ h \in Handlers /\ HandlersOK /\ RowsInTurn /\ SealIsFiled
      /\ agr \in AgreementRow /\ gens \in Nat
  BY DEF Alone, RowsOK
<1>2. UNCHANGED <<held, seal, gens>>
  BY DEF StatusWrite, DeleteWrite, CancelStatus, CancelTokens, DeclineAgreement,
     DeclinePublish, outbox, artefact
<1>3. agr'.order = agr.order /\ agr'.step = agr.step /\ agr'.pdf = agr.pdf
  BY <1>1 DEF StatusWrite, DeleteWrite, CancelStatus, CancelTokens, DeclineAgreement,
     DeclinePublish, AgreementRow
<1>4. \A r \in Rcpt : row'[r].tier = row[r].tier /\ row'[r].st = row[r].st
  <2>1. CASE CancelTokens(h)
    BY <2>1 DEF CancelTokens, RowsOK, RecipientRow
  <2>2. CASE UNCHANGED row
    BY <2>2
  <2> QED  BY <2>1, <2>2 DEF StatusWrite, DeleteWrite, CancelStatus, DeclineAgreement,
             DeclinePublish
<1>5. RowsInTurn' /\ SealIsFiled'
  BY <1>1, <1>2, <1>3, <1>4, RowsStayInTurn, SealStays
<1>6. pc'[h] \in {"idle", "cancel_tokens", "decline_publish"}
  BY <1>1 DEF StatusWrite, DeleteWrite, CancelStatus, CancelTokens, DeclineAgreement,
     DeclinePublish, Return, Goto, HandlersOK
<1>7. Holds(pc[h], loc[h])'
  BY <1>6 DEF Holds
<1> QED  BY <1>1, <1>5, <1>7, OneHandler

----------------------------------------------------------------------------
(* A send.                                                                 *)

\* A send that commits leaves its own list, all of it pending, and no other.
LEMMA SendReplaces ==
    ASSUME NEW h, Handlers = {h}, Typed, Alone, SendCommit(h)
    PROVE  /\ Live' = Created(h) /\ Created(h) \cap Live = {}
           /\ \A r \in Created(h) : row'[r].st = "PENDING" /\ row'[r].tier = CreatedTier(h, r)
           /\ agr.status # "COMPLETED"
           /\ \A r \in Created(h) : r \in Rcpt /\ r[1] <= gens
<1> USE DEF Typed
<1>1. h \in Handlers /\ HandlersOK /\ pc[h] = "send_commit" /\ loc[h] \in Locals
  BY DEF SendCommit, HandlersOK
<1>2. Replacing(loc[h]) /\ loc[h].rs = Live
  BY <1>1 DEF Alone, Holds
<1>3. Created(h) \subseteq Rcpt
  BY <1>1, CreatedRcpt
<1>4. \A r \in Created(h) : r[1] = loc[h].gen
  BY DEF Created
<1>5. loc[h].gen \in Nat /\ gens \in Nat /\ \A r \in Rcpt : r[1] \in Nat
  BY <1>1 DEF Locals, RowsOK, Rcpt
<1>6. Created(h) \cap Live = {}
  BY <1>2, <1>3, <1>4, <1>5 DEF Replacing
<1>8. ASSUME NEW r \in Created(h)
      PROVE  row'[r].st = "PENDING" /\ row'[r].tier = CreatedTier(h, r)
  <2>1. row'[r] = [st |-> "PENDING", tok |-> 1, tier |-> CreatedTier(h, r), expired |-> FALSE]
    BY <1>3 DEF SendCommit
  <2> QED  BY <2>1
<1>9. ASSUME NEW r \in Rcpt \ Created(h)
      PROVE  row'[r].st = "NONE"
  <2>1. CASE r \in Live
    BY <1>2, <2>1 DEF SendCommit, NoRow
  <2>2. CASE r \notin Live
    BY <1>2, <2>2 DEF SendCommit, Live
  <2> QED  BY <2>1, <2>2
<1>10. Live' = Created(h)
  BY <1>3, <1>8, <1>9 DEF Live
<1> QED  BY <1>2, <1>3, <1>4, <1>5, <1>6, <1>8, <1>10 DEF Replacing

LEMMA SendAlone ==
    ASSUME NEW h, Handlers = {h}, Typed, Alone, SendDelete(h) \/ SendCommit(h)
    PROVE  Alone'
<1> USE DEF Typed
<1>1. h \in Handlers /\ HandlersOK /\ RowsInTurn /\ SealIsFiled /\ loc[h] \in Locals
      /\ gens \in Nat /\ agr \in AgreementRow
  BY DEF Alone, HandlersOK, RowsOK
<1>2. CASE SendDelete(h)
  <2>1. UNCHANGED <<agr, row, held, seal, gens>>
    BY <1>2 DEF SendDelete, artefact
  <2>2. RowsInTurn' /\ SealIsFiled'
    BY <1>1, <2>1, RowsStayInTurn, SealStays
  <2>3. /\ pc[h] = "send_delete" /\ pc'[h] = "send_commit"
        /\ loc'[h].rs = Live /\ loc'[h].gen = loc[h].gen
    BY <1>1, <1>2 DEF SendDelete, Goto, HandlersOK, Locals
  <2>4. Replacing(loc[h])
    BY <1>1, <2>3 DEF Alone, Holds
  <2>5. Live' = Live
    BY <2>1 DEF Live
  <2>6. Replacing(loc[h])' /\ loc'[h].rs = Live'
    BY <2>1, <2>3, <2>4, <2>5 DEF Replacing
  <2> QED  BY <1>1, <2>2, <2>3, <2>6, OneHandler DEF Holds
<1>3. CASE SendCommit(h)
  <2>1. /\ Live' = Created(h) /\ Created(h) \cap Live = {}
        /\ \A r \in Created(h) : /\ row'[r].st = "PENDING" /\ row'[r].tier = CreatedTier(h, r)
                                 /\ r \in Rcpt /\ r[1] <= gens
    BY <1>3, SendReplaces
  <2>2. \A r \in Rcpt : ~held'[r]
    <3>1. loc[h].rs = Live
      BY <1>1, <1>3 DEF SendCommit, Alone, Holds
    <3>2. \A r \in Rcpt : held'[r] => held[r] /\ r \notin Live
      BY <1>3, <3>1, Zenon DEF SendCommit
    <3> QED  BY <1>1, <3>2 DEF RowsInTurn
  <2>3. gens' = gens /\ seal' = seal /\ agr'.pdf = agr.pdf /\ agr'.step = 1
        /\ agr'.order = loc[h].order
    BY <1>1, <1>3 DEF SendCommit, artefact, AgreementRow
  <2>4. RowsInTurn' /\ SealIsFiled'
    BY <1>1, <2>1, <2>2, <2>3, SealStays DEF RowsInTurn
  <2>5. /\ pc'[h] = "loop"
        /\ loc'[h] = [NoLocals EXCEPT !.kind = "send", !.rs = FirstInvited(h)]
    BY <1>1, <1>3 DEF SendCommit, Goto, HandlersOK
  <2>6. loc'[h].rs = FirstInvited(h)
    BY <2>5 DEF NoLocals
  <2>7. \A r \in FirstInvited(h) : row'[r].st = "PENDING" /\ row'[r].tier = 1
    BY <2>1 DEF FirstInvited
  <2>8. Visiting(loc[h])'
    BY <2>3, <2>6, <2>7 DEF Visiting, Turn
  <2> QED  BY <1>1, <2>4, <2>5, <2>8, OneHandler DEF Holds
<1> QED  BY <1>2, <1>3

----------------------------------------------------------------------------
(* The loops that invite, remind and warn.                                 *)

\* A visit leaves the row live and in its tier, INVITED unless it warns.
LEMMA VisitWrites ==
    ASSUME NEW h, Handlers = {h}, Typed, Alone, LoopVisit(h)
    PROVE  \E r \in loc[h].rs \cap Live :
             /\ r \in Rcpt /\ Turn(r)
             /\ row'[r].tier = row[r].tier
             /\ loc[h].kind # "warn" => row[r].st # "SIGNED"
             /\ loc[h].kind = "warn" => row'[r].st = row[r].st
             /\ row'[r].st \in {row[r].st, "INVITED"}
             /\ \A q \in Rcpt \ {r} : row'[q] = row[q] /\ (held'[q] => held[q])
             /\ loc'[h].rs = loc[h].rs \ {r} /\ loc'[h].rcp = r /\ loc'[h].kind = loc[h].kind
<1> USE DEF Typed
<1>1. h \in Handlers /\ HandlersOK /\ loc[h] \in Locals /\ pc[h] = "loop"
  BY DEF HandlersOK, LoopVisit
<1>2. PICK r \in loc[h].rs \cap Live :
         /\ row' = [row EXCEPT ![r] = Visited(loc[h].kind, r)]
         /\ held' = [held EXCEPT ![r] = @ /\ loc[h].kind = "send"]
         /\ loc' = [loc EXCEPT ![h].rs = @ \ {r}, ![h].rcp = r,
                        ![h].tok = IF loc[h].kind = "send" THEN 1 ELSE row[r].tok + 1]
  BY DEF LoopVisit
<1>3. r \in Rcpt /\ row[r] \in RecipientRow
  BY DEF Live, RowsOK
<1>4. Visiting(loc[h])
  BY <1>1 DEF Alone, Holds
<1>5. /\ Visited(loc[h].kind, r).tier = row[r].tier
      /\ Visited(loc[h].kind, r).st = IF loc[h].kind = "warn" THEN row[r].st ELSE "INVITED"
  BY <1>3 DEF Visited, RecipientRow
<1>6. row'[r] = Visited(loc[h].kind, r) /\ \A q \in Rcpt \ {r} : row'[q] = row[q]
  BY <1>2, <1>3 DEF RowsOK
<1>7. \A q \in Rcpt \ {r} : held'[q] = held[q]
  <2> DEFINE keep == held[r] /\ loc[h].kind = "send"
  <2>1. held' = [held EXCEPT ![r] = keep]
    BY <1>2, Zenon
  <2> HIDE DEF keep
  <2> QED  BY <1>3, <2>1 DEF RowsOK
<1>8. loc'[h].rs = loc[h].rs \ {r} /\ loc'[h].rcp = r /\ loc'[h].kind = loc[h].kind
  BY <1>1, <1>2 DEF HandlersOK, Locals
<1> QED  BY <1>2, <1>3, <1>4, <1>5, <1>6, <1>7, <1>8 DEF Visiting

LEMMA LoopAlone ==
    ASSUME NEW h, Handlers = {h}, Typed, Alone, LoopVisit(h) \/ LoopMail(h) \/ LoopEnd(h)
    PROVE  Alone'
<1> USE DEF Typed
<1>1. h \in Handlers /\ HandlersOK /\ RowsInTurn /\ SealIsFiled /\ loc[h] \in Locals
      /\ gens \in Nat
  BY DEF Alone, HandlersOK, RowsOK
<1>2. UNCHANGED <<agr, seal, gens>>
  BY DEF LoopVisit, LoopMail, LoopEnd, artefact
<1>3. SealIsFiled'
  BY <1>1, <1>2, SealStays
<1>4. CASE LoopVisit(h)
  <2>1. PICK r \in loc[h].rs \cap Live :
             /\ r \in Rcpt /\ Turn(r)
             /\ row'[r].tier = row[r].tier
             /\ row'[r].st \in {row[r].st, "INVITED"}
             /\ \A q \in Rcpt \ {r} : row'[q] = row[q] /\ (held'[q] => held[q])
             /\ loc'[h].rs = loc[h].rs \ {r} /\ loc'[h].rcp = r /\ loc'[h].kind = loc[h].kind
    BY <1>4, VisitWrites
  <2>2. Live' = Live /\ \A q \in Rcpt : Turn(q)' = Turn(q)
    BY <1>2, <2>1 DEF Live, Turn
  <2>3. \A q \in Rcpt : held'[q] => q \in Live /\ Turn(q)
    BY <1>1, <2>1 DEF RowsInTurn
  <2>4. \A q \in Live : ~Turn(q) => row'[q].st = "PENDING"
    BY <1>1, <2>1 DEF RowsInTurn, Live
  <2>5. RowsInTurn'
    BY <1>1, <1>2, <2>2, <2>3, <2>4 DEF RowsInTurn, Live
  <2>6. pc[h] = "loop" /\ pc'[h] = "mail"
    BY <1>1, <1>4 DEF LoopVisit, Goto, HandlersOK
  <2>7. Visiting(loc[h])
    BY <1>1, <2>6 DEF Alone, Holds
  <2>8. \A q \in loc[h].rs \ {r} : q \in Live => row'[q] = row[q]
    BY <2>1 DEF Live
  <2>9. \A q \in Live : Turn(q)' = Turn(q)
    BY <2>2 DEF Live
  <2>10. Visiting(loc[h])'
    BY <2>1, <2>2, <2>7, <2>8, <2>9 DEF Visiting
  <2>11. Turn(loc[h].rcp)'
    BY <1>2, <2>1 DEF Turn
  <2> QED  BY <1>1, <1>3, <2>5, <2>6, <2>10, <2>11, OneHandler DEF Holds
<1>5. CASE LoopMail(h)
  <2> DEFINE r == loc[h].rcp
             got == held[r] \/ (r \in Live /\ row[r].tok = loc[h].tok)
  <2>1. pc[h] = "mail" /\ pc'[h] = "loop" /\ r \in Rcpt
    BY <1>1, <1>5 DEF LoopMail, Goto, HandlersOK, Fits, RcptPCs
  <2>2. UNCHANGED row /\ loc'[h].rs = loc[h].rs /\ loc'[h].kind = loc[h].kind
    BY <1>1, <1>5 DEF LoopMail, HandlersOK, Locals
  <2>3. Live' = Live /\ \A q \in Rcpt : Turn(q)' = Turn(q)
    BY <1>2, <2>2 DEF Live, Turn
  <2>4. Visiting(loc[h]) /\ (r \in Live => Turn(r))
    BY <1>1, <2>1 DEF Alone, Holds
  <2>5. held' = [held EXCEPT ![r] = got]
    BY <1>5, Zenon DEF LoopMail
  <2>6. got => r \in Live
    BY <1>1, <2>1, Zenon DEF RowsInTurn
  <2> HIDE DEF got
  <2>7. \A q \in Rcpt : held'[q] => q \in Live /\ Turn(q)
    BY <1>1, <2>1, <2>4, <2>5, <2>6 DEF RowsInTurn, RowsOK
  <2>8. RowsInTurn'
    BY <1>1, <1>2, <2>2, <2>3, <2>7 DEF RowsInTurn, Live
  <2>9. Visiting(loc[h])'
    BY <1>2, <2>2, <2>4 DEF Visiting, Turn, Live
  <2> QED  BY <1>1, <1>3, <2>1, <2>8, <2>9, OneHandler DEF Holds
<1>6. CASE LoopEnd(h)
  <2>1. UNCHANGED <<row, held>> /\ Return(h)
    BY <1>6 DEF LoopEnd
  <2>2. RowsInTurn'
    BY <1>1, <1>2, <2>1, RowsStayInTurn
  <2> QED  BY <1>1, <1>3, <2>1, <2>2, IdleHolds, OneHandler
<1> QED  BY <1>4, <1>5, <1>6

----------------------------------------------------------------------------
(* A submission, up to its judgement, and a decline.                       *)

\* An update by id writes the row of a recipient whose turn it is, or nothing.
LEMMA UpdateAlone ==
    ASSUME NEW h, Handlers = {h}, Typed, Alone, NEW s \in {"SIGNED", "DECLINED"}, NEW p,
           UpdateRecipient(h, s, p), UNCHANGED <<agr, held, seal, gens>>,
           pc[h] \in {"sign_write", "decline_row"}
    PROVE  /\ RowsInTurn'
           /\ \/ pc'[h] = p /\ loc'[h] = loc[h]
              \/ pc'[h] = "idle"
<1> USE DEF Typed
<1> DEFINE r == loc[h].rcp
<1>1. h \in Handlers /\ HandlersOK /\ RowsInTurn /\ gens \in Nat /\ r \in Rcpt
  BY DEF Alone, HandlersOK, RowsOK, Fits, RcptPCs
<1>2. CASE r \in Live /\ row' = [row EXCEPT ![r].st = s] /\ Goto(h, p) /\ UNCHANGED loc
  <2>1. Turn(r)
    BY <1>1, <1>2 DEF Alone, Holds
  <2>2. /\ row'[r].st = s /\ row'[r].tier = row[r].tier
        /\ \A q \in Rcpt \ {r} : row'[q] = row[q]
    BY <1>1, <1>2 DEF RowsOK, RecipientRow
  <2>3. Live' = Live /\ \A q \in Rcpt : Turn(q)' = Turn(q)
    BY <1>1, <1>2, <2>2 DEF Live, Turn
  <2>4. \A q \in Live : ~Turn(q) => row'[q].st = "PENDING"
    BY <1>1, <2>1, <2>2 DEF RowsInTurn, Live
  <2>5. RowsInTurn'
    BY <1>1, <2>3, <2>4 DEF RowsInTurn, Live
  <2> QED  BY <1>1, <1>2, <2>5 DEF Goto, HandlersOK
<1>3. CASE Return(h) /\ UNCHANGED row
  <2>1. RowsInTurn'
    BY <1>1, <1>3, RowsStayInTurn
  <2> QED  BY <1>1, <1>3, <2>1, IdleHolds
<1> QED  BY <1>2, <1>3 DEF UpdateRecipient

LEMMA AnswerAlone ==
    ASSUME NEW h, Handlers = {h}, Typed, Alone, SignWrite(h) \/ SignPublish(h) \/ DeclineRow(h)
    PROVE  Alone'
<1> USE DEF Typed
<1>1. h \in Handlers /\ HandlersOK /\ RowsInTurn /\ SealIsFiled /\ gens \in Nat
  BY DEF Alone, RowsOK
<1>2. UNCHANGED <<agr, held, seal, gens>>
  BY DEF SignWrite, SignPublish, DeclineRow, artefact
<1>3. SealIsFiled'
  BY <1>1, <1>2, SealStays
<1>4. CASE SignWrite(h)
  <2>1. /\ RowsInTurn'
        /\ \/ pc'[h] = "sign_publish" /\ loc'[h] = loc[h]
           \/ pc'[h] = "idle"
    BY <1>2, <1>4, UpdateAlone DEF SignWrite
  <2>2. ReadIsCurrent(loc[h])
    BY <1>1, <1>4 DEF SignWrite, Alone, Holds
  <2>3. Holds(pc[h], loc[h])'
    BY <1>2, <2>1, <2>2 DEF Holds, ReadIsCurrent
  <2> QED  BY <1>1, <1>3, <2>1, <2>3, OneHandler
<1>5. CASE SignPublish(h)
  <2>1. UNCHANGED <<row, loc>> /\ pc[h] = "sign_publish" /\ pc'[h] = "sign_evaluate"
    BY <1>1, <1>5 DEF SignPublish, Goto, HandlersOK
  <2>2. RowsInTurn'
    BY <1>1, <1>2, <2>1, RowsStayInTurn
  <2>3. ReadIsCurrent(loc[h])
    BY <1>1, <2>1 DEF Alone, Holds
  <2>4. Holds(pc[h], loc[h])'
    BY <1>2, <2>1, <2>3 DEF Holds, ReadIsCurrent
  <2> QED  BY <1>1, <1>3, <2>2, <2>4, OneHandler
<1>6. CASE DeclineRow(h)
  <2>1. RowsInTurn' /\ pc'[h] \in {"decline_agreement", "idle"}
    BY <1>2, <1>6, UpdateAlone DEF DeclineRow
  <2>2. Holds(pc[h], loc[h])'
    BY <2>1 DEF Holds
  <2> QED  BY <1>1, <1>3, <2>1, <2>2, OneHandler
<1> QED  BY <1>4, <1>5, <1>6

\* What the evaluation decides holds when it is acted on: the agreement has
\* not moved since it was read.
LEMMA EvaluateAlone ==
    ASSUME NEW h, Handlers = {h}, Typed, Alone, SignEvaluate(h)
    PROVE  Alone'
<1> USE DEF Typed
<1>1. h \in Handlers /\ HandlersOK /\ RowsInTurn /\ SealIsFiled /\ loc[h] \in Locals
      /\ gens \in Nat /\ agr \in AgreementRow /\ row \in [Rcpt -> RecipientRow]
  BY DEF Alone, HandlersOK, RowsOK
<1>2. UNCHANGED <<agr, row, held, seal, gens>> /\ pc[h] = "sign_evaluate"
  BY DEF SignEvaluate, artefact
<1>3. RowsInTurn' /\ SealIsFiled'
  BY <1>1, <1>2, RowsStayInTurn, SealStays
<1>4. ReadIsCurrent(loc[h])
  BY <1>1, <1>2 DEF Alone, Holds
<1>5. CASE AllFinished /\ Goto(h, "sign_complete") /\ UNCHANGED loc
  <2>1. pc'[h] = "sign_complete"
    BY <1>1, <1>5 DEF Goto, HandlersOK
  <2>2. AllSigned'
    BY <1>2, <1>5 DEF AllFinished, AllSigned, Active, Live, Signed
  <2>3. ReadIsCurrent(loc[h])'
    BY <1>2, <1>4, <1>5 DEF ReadIsCurrent
  <2> QED  BY <1>1, <1>3, <2>1, <2>2, <2>3, OneHandler DEF Holds
<1>6. ASSUME loc[h].order = "SEQUENTIAL", Goto(h, "sign_advance"),
             NEW k \in NextTier(loc[h].step),
             loc' = [loc EXCEPT ![h].next = k, ![h].rs = TierOf(Active(Live), k)]
      PROVE  Alone'
  <2>1. /\ pc'[h] = "sign_advance" /\ loc'[h].next = k
        /\ loc'[h].rs = TierOf(Active(Live), k)
    BY <1>1, <1>6 DEF Goto, HandlersOK, Locals
  <2>2. k > loc[h].step
    BY DEF NextTier, Remaining
  <2>3. \A r \in TierOf(Active(Live), k) : row[r].tier = k
    BY DEF TierOf
  <2>4. Unlocking(loc[h])'
    BY <1>2, <1>4, <1>6, <2>1, <2>2, <2>3 DEF Unlocking, ReadIsCurrent
  <2> QED  BY <1>1, <1>3, <2>1, <2>4, OneHandler DEF Holds
<1>7. CASE Return(h)
  BY <1>1, <1>3, <1>7, IdleHolds, OneHandler
<1> QED  BY <1>5, <1>6, <1>7 DEF SignEvaluate

\* Advancing unlocks a tier that nobody has answered.
LEMMA AdvanceAlone ==
    ASSUME NEW h, Handlers = {h}, Typed, Alone, SignAdvance(h)
    PROVE  Alone'
<1> USE DEF Typed
<1>1. h \in Handlers /\ HandlersOK /\ RowsInTurn /\ SealIsFiled /\ loc[h] \in Locals
      /\ gens \in Nat /\ agr \in AgreementRow /\ row \in [Rcpt -> RecipientRow]
  BY DEF Alone, HandlersOK, RowsOK
<1>2. UNCHANGED <<row, held, seal, gens>> /\ pc[h] = "sign_advance"
  BY DEF SignAdvance, artefact
<1>3. agr' = [agr EXCEPT !.step = loc[h].next]
  BY DEF SignAdvance
<1>4. agr'.step = loc[h].next /\ agr'.order = agr.order /\ agr'.pdf = agr.pdf
  BY <1>1, <1>3 DEF AgreementRow
<1>5. Unlocking(loc[h])
  BY <1>1, <1>2 DEF Alone, Holds
<1>6. agr.step \in Nat /\ loc[h].next \in Nat /\ \A r \in Rcpt : row[r].tier \in Nat
  BY <1>1 DEF AgreementRow, Locals, RecipientRow
<1>7. \A r \in Rcpt : Turn(r) => Turn(r)'
  BY <1>2, <1>4, <1>5, <1>6 DEF Turn, Unlocking
<1>8. Live' = Live
  BY <1>2 DEF Live
<1>9. RowsInTurn'
  BY <1>1, <1>2, <1>7, <1>8 DEF RowsInTurn, Live
<1>10. /\ pc'[h] = "loop"
       /\ loc'[h] = [NoLocals EXCEPT !.kind = "advance", !.rs = loc[h].rs]
  BY <1>1 DEF SignAdvance, Goto, HandlersOK
<1>11. loc'[h].rs = loc[h].rs
  BY <1>10 DEF NoLocals
<1>12. ASSUME NEW r \in loc[h].rs \cap Live
       PROVE  Turn(r)' /\ row[r].st # "SIGNED"
  <2>1. row[r].tier = loc[h].next /\ r \in Rcpt
    BY <1>5 DEF Unlocking, Live
  <2>2. ~Turn(r)
    BY <1>5, <1>6, <2>1 DEF Unlocking, Turn
  <2>3. Turn(r)'
    BY <1>2, <1>4, <1>6, <2>1 DEF Turn
  <2> QED  BY <1>1, <2>2, <2>3 DEF RowsInTurn
<1>13. Visiting(loc[h])'
  BY <1>2, <1>8, <1>11, <1>12 DEF Visiting
<1>14. SealIsFiled'
  BY <1>1, <1>2, <1>4, SealStays
<1> QED  BY <1>1, <1>9, <1>10, <1>13, <1>14, OneHandler DEF Holds

----------------------------------------------------------------------------
(* Completion, sealing and its announcement.                               *)

LEMMA CompletionAlone ==
    ASSUME NEW h, Handlers = {h}, Typed, Alone, SignComplete(h) \/ SignSeal(h) \/ SignNotify(h)
    PROVE  Alone'
<1> USE DEF Typed
<1>1. h \in Handlers /\ HandlersOK /\ RowsInTurn /\ SealIsFiled /\ loc[h] \in Locals
      /\ gens \in Nat /\ agr \in AgreementRow /\ seals \in Nat
  BY DEF Alone, HandlersOK, RowsOK
<1>2. UNCHANGED <<row, held, gens>>
  BY DEF SignComplete, SignSeal, SignNotify
<1>3. AllSigned' = AllSigned
  BY <1>2, RowsKeep
<1>4. agr'.order = agr.order /\ agr'.step = agr.step
  BY <1>1 DEF SignComplete, SignSeal, SignNotify, AgreementRow
<1>5. RowsInTurn'
  BY <1>1, <1>2, <1>4, RowsStayInTurn
<1>6. CASE SignComplete(h)
  <2>1. pc[h] = "sign_complete" /\ pc'[h] = "sign_seal"
    BY <1>1, <1>6 DEF SignComplete, Goto, HandlersOK
  <2>2. AllSigned /\ loc[h].pdf = agr.pdf
    BY <1>1, <2>1 DEF Alone, Holds, ReadIsCurrent
  <2>3. CompletedMeta(h).pdf = loc[h].pdf
    BY DEF CompletedMeta
  <2>4. agr' = [agr EXCEPT !.status = "COMPLETED", !.vtok = CompletedMeta(h).vtok,
                           !.pdf = CompletedMeta(h).pdf]
        /\ UNCHANGED seal
    BY <1>6 DEF SignComplete
  <2>5. agr'.status = "COMPLETED" /\ agr'.pdf = agr.pdf
    BY <1>1, <2>2, <2>3, <2>4 DEF AgreementRow
  <2>6. SealIsFiled'
    BY <1>1, <2>4, <2>5, SealStays
  <2> QED  BY <1>1, <1>3, <1>5, <2>1, <2>2, <2>5, <2>6, OneHandler DEF Holds
<1>7. CASE SignSeal(h)
  <2>1. pc[h] = "sign_seal" /\ pc'[h] = "sign_notify"
    BY <1>1, <1>7 DEF SignSeal, Goto, HandlersOK
  <2>2. AllSigned /\ agr.status = "COMPLETED"
    BY <1>1, <2>1 DEF Alone, Holds
  <2>3. agr'.status = "COMPLETED"
    BY <1>1, <1>7, <2>2 DEF SignSeal, AgreementRow
  <2>4. SealIsFiled'
    <3>1. CASE UNCHANGED <<agr, seal>>
      BY <1>1, <3>1, SealStays
    <3>2. CASE /\ seal' = [tok |-> agr.vtok, doc |-> seals + 1, of |-> Signed(Live)]
               /\ agr' = [agr EXCEPT !.pdf = seals + 1]
      BY <1>1, <3>2 DEF SealIsFiled, AgreementRow
    <3> QED  BY <1>7, <3>1, <3>2 DEF SignSeal
  <2> QED  BY <1>1, <1>3, <1>5, <2>1, <2>2, <2>3, <2>4, OneHandler DEF Holds
<1>8. CASE SignNotify(h)
  <2>1. UNCHANGED <<agr, seal>> /\ Return(h)
    BY <1>8 DEF SignNotify
  <2> QED  BY <1>1, <1>5, <2>1, SealStays, IdleHolds, OneHandler
<1> QED  BY <1>6, <1>7, <1>8

LEMMA StepAlone ==
    ASSUME NEW h, Handlers = {h}, Typed, Alone, [Next]_vars, Typed'
    PROVE  Alone'
<1>1. h \in Handlers /\ HandlersOK /\ RowsInTurn /\ SealIsFiled
  BY DEF Alone, Typed
<1>2. CASE UNCHANGED vars
  <2>1. gens' = gens /\ gens \in Nat /\ UNCHANGED <<agr, row, held, seal, pc, loc>>
    BY <1>2 DEF vars, Typed, RowsOK
  <2>2. RowsInTurn' /\ SealIsFiled'
    BY <1>1, <2>1, RowsStayInTurn, SealStays
  <2>3. Holds(pc[h], loc[h])
    BY <1>1 DEF Alone
  <2>4. Holds(pc[h], loc[h])'
    BY <2>1, <2>3 DEF Holds, Replacing, Visiting, ReadIsCurrent, Unlocking, Turn,
       AllSigned, Active, Signed, Live
  <2> QED  BY <1>1, <2>2, <2>4, OneHandler
<1>3. CASE Request(h)
  BY <1>3, RequestAlone
<1>4. CASE Continue(h)
  BY <1>4, StatusAlone, SendAlone, LoopAlone, AnswerAlone, EvaluateAlone, AdvanceAlone,
     CompletionAlone DEF Continue
<1>5. CASE Abort(h)
  <2>1. gens' = gens /\ gens \in Nat /\ UNCHANGED <<agr, row, held, seal>> /\ Return(h)
    BY <1>5 DEF Abort, artefact, Typed, RowsOK
  <2>2. RowsInTurn' /\ SealIsFiled'
    BY <1>1, <2>1, RowsStayInTurn, SealStays
  <2> QED  BY <1>1, <2>1, <2>2, IdleHolds, OneHandler
<1>6. ASSUME NEW g \in Handlers
      PROVE  g = h
  OBVIOUS
<1> QED  BY <1>2, <1>3, <1>4, <1>5, <1>6 DEF Next

LEMMA InitAlone == Init => Alone
BY DEF Init, Alone, RowsInTurn, SealIsFiled, Holds, Live, NoRow, Active

----------------------------------------------------------------------------
(* The mapping.                                                            *)

\* A step that keeps every row's status, the agreement's status, the sealed
\* signatures and the announcement is none of the envelope's.
LEMMA Stutters ==
    ASSUME \A r \in Rcpt : row'[r].st = row[r].st, agr'.status = agr.status,
           UNCHANGED <<seal, completedEvt>>
    PROVE  UNCHANGED Promised!vars
BY RowsKeep DEF Promised!vars

\* One recipient's new status moves that party alone, and only to or from SIGNED.
LEMMA OneAnswers ==
    ASSUME NEW r \in Live, row \in [Rcpt -> RecipientRow], NEW s \in {"SIGNED", "DECLINED"},
           row' = [row EXCEPT ![r].st = s],
           UNCHANGED <<agr, seal, completedEvt>>
    PROVE  [Promised!Next]_(Promised!vars)
<1>1. r \in Rcpt /\ row'[r].st = s /\ \A q \in Rcpt \ {r} : row'[q] = row[q]
  BY DEF Live, RecipientRow
<1>2. Live' = Live
  BY <1>1 DEF Live
<1>3. Active(Live)' = Active(Live) /\ Active(seal.of)' = Active(seal.of)
  BY <1>2 DEF Active
<1>4. CASE row[r].st = s \/ Role[r[2]] \notin {"signer", "approver"}
  <2>1. Active(Signed(Live))' = Active(Signed(Live))
    BY <1>1, <1>2, <1>4 DEF Active, Signed, Live
  <2> QED  BY <1>3, <2>1 DEF Promised!vars
<1>5. CASE row[r].st # s /\ Role[r[2]] \in {"signer", "approver"}
  <2>1. r \in Active(Rcpt) /\ r \in Active(Live)
    BY <1>1, <1>5 DEF Active
  <2>2. CASE s = "SIGNED"
    <3>1. r \notin Active(Signed(Live))
      BY <1>5, <2>2 DEF Active, Signed
    <3>2. Active(Signed(Live))' = Active(Signed(Live)) \cup {r}
      BY <1>1, <1>2, <1>5, <2>2 DEF Active, Signed, Live
    <3> QED  BY <1>3, <2>1, <3>1, <3>2 DEF Promised!Next, Promised!Sign
  <2>3. CASE s = "DECLINED" /\ row[r].st = "SIGNED"
    <3>1. r \in Active(Signed(Live))
      BY <2>1, <2>3 DEF Active, Signed
    <3>2. Active(Signed(Live))' = Active(Signed(Live)) \ {r}
      BY <1>1, <1>2, <1>5, <2>3 DEF Active, Signed, Live
    <3> QED  BY <1>3, <2>1, <3>1, <3>2 DEF Promised!Next, Promised!Decline
  <2>4. CASE s = "DECLINED" /\ row[r].st # "SIGNED"
    <3>1. Active(Signed(Live))' = Active(Signed(Live))
      BY <1>1, <1>2, <2>4 DEF Active, Signed, Live
    <3> QED  BY <1>3, <3>1 DEF Promised!vars
  <2> QED  BY <1>5, <2>2, <2>3, <2>4
<1> QED  BY <1>4, <1>5

\* A send replaces the list as a whole.
LEMMA SendMaps ==
    ASSUME NEW h, Handlers = {h}, Typed, Alone, SendCommit(h)
    PROVE  Promised!Next
<1>1. /\ Live' = Created(h) /\ Created(h) \cap Live = {}
      /\ \A r \in Created(h) : row'[r].st = "PENDING" /\ r \in Rcpt
      /\ agr.status # "COMPLETED"
  BY SendReplaces
<1>2. Active(Live)' \subseteq Active(Rcpt)
  BY <1>1 DEF Active
<1>3. Active(Live)' \cap Active(Live) = {}
  BY <1>1 DEF Active
<1>4. Active(Signed(Live))' = {}
  BY <1>1 DEF Active, Signed
<1>5. agr'.status = "SENT" /\ UNCHANGED <<seal, completedEvt>>
  BY DEF SendCommit, outbox, artefact, Typed, RowsOK, AgreementRow
<1>6. Active(seal.of)' = Active(seal.of)
  BY <1>5 DEF Active
<1> QED  BY <1>1, <1>2, <1>3, <1>4, <1>5, <1>6 DEF Promised!Next, Promised!Send

\* A status other than COMPLETED reopens the envelope or leaves it open.
LEMMA StatusMaps ==
    ASSUME UNCHANGED <<row, seal, completedEvt>>, agr'.status # "COMPLETED"
    PROVE  [Promised!Next]_(Promised!vars)
<1>1. /\ Active(Live)' = Active(Live) /\ Active(Signed(Live))' = Active(Signed(Live))
      /\ Active(seal.of)' = Active(seal.of)
  BY RowsKeep DEF Active
<1> QED  BY <1>1 DEF Promised!Next, Promised!Reopen, Promised!vars

LEMMA CompletionMaps ==
    ASSUME NEW h, Handlers = {h}, Typed, Alone, SignComplete(h) \/ SignSeal(h) \/ SignNotify(h)
    PROVE  [Promised!Next]_(Promised!vars)
<1> USE DEF Typed
<1>1. h \in Handlers /\ HandlersOK /\ SealIsFiled /\ agr \in AgreementRow /\ seals \in Nat
  BY DEF Alone, RowsOK
<1>2. UNCHANGED row
  BY DEF SignComplete, SignSeal, SignNotify
<1>3. Active(Live)' = Active(Live) /\ Active(Signed(Live))' = Active(Signed(Live))
  BY <1>2, RowsKeep
<1>4. AllSigned
  BY <1>1 DEF Alone, Holds, SignComplete, SignSeal, SignNotify
<1>5. Active(Signed(Live)) = Active(Live)
  BY <1>4 DEF AllSigned, Active, Signed
<1>6. CASE SignComplete(h)
  <2>1. UNCHANGED <<seal, completedEvt>> /\ agr'.status = "COMPLETED"
    BY <1>1, <1>6 DEF SignComplete, outbox, AgreementRow
  <2>2. Active(seal.of)' = Active(seal.of)
    BY <2>1 DEF Active
  <2> QED  BY <1>3, <1>5, <2>1, <2>2 DEF Promised!Next, Promised!Complete, Promised!vars
<1>7. CASE SignSeal(h)
  <2>1. agr.status = "COMPLETED" /\ agr'.status = "COMPLETED" /\ UNCHANGED completedEvt
    BY <1>1, <1>7 DEF Alone, Holds, SignSeal, outbox, AgreementRow
  <2>2. CASE UNCHANGED seal
    <3>1. Active(seal.of)' = Active(seal.of)
      BY <2>2 DEF Active
    <3> QED  BY <1>3, <2>1, <3>1 DEF Promised!vars
  <2>3. CASE /\ ~(agr.pdf # 0 /\ seal.doc # 0)
             /\ seal' = [tok |-> agr.vtok, doc |-> seals + 1, of |-> Signed(Live)]
    <3>1. Active(seal.of) = {}
      BY <1>1, <2>3 DEF SealIsFiled
    <3>2. Active(seal.of)' = Active(Live)
      BY <1>5, <2>3 DEF Active
    <3> QED  BY <1>3, <1>5, <2>1, <3>1, <3>2 DEF Promised!Next, Promised!Seal
  <2> QED  BY <1>7, <2>2, <2>3 DEF SignSeal
<1>8. CASE SignNotify(h)
  <2>1. agr.status = "COMPLETED" /\ UNCHANGED <<agr, seal>>
    BY <1>1, <1>8 DEF Alone, Holds, SignNotify
  <2>2. Active(seal.of)' = Active(seal.of)
    BY <2>1 DEF Active
  <2>3. completedEvt # 0 => completedEvt' # 0
    BY <1>8 DEF SignNotify
  <2> QED  BY <1>3, <2>1, <2>2, <2>3 DEF Promised!Next, Promised!Announce, Promised!vars
<1> QED  BY <1>6, <1>7, <1>8

LEMMA StepMaps ==
    ASSUME NEW h, Handlers = {h}, Typed, Alone, [Next]_vars
    PROVE  [Promised!Next]_(Promised!vars)
<1> USE DEF Typed
<1>1. h \in Handlers /\ HandlersOK /\ loc[h] \in Locals /\ agr \in AgreementRow
      /\ row \in [Rcpt -> RecipientRow]
  BY DEF HandlersOK, RowsOK
<1>2. CASE UNCHANGED vars
  BY <1>2, Stutters DEF vars
<1>3. CASE Request(h)
  BY <1>1, <1>3, RequestKeeps, Stutters
<1>4. CASE Abort(h)
  BY <1>4, Stutters DEF Abort, outbox, artefact
<1>5. CASE StatusWrite(h)
  <2>1. loc[h].to # "COMPLETED"
    BY <1>1, <1>5 DEF Alone, Holds, StatusWrite
  <2>2. agr'.status # "COMPLETED" /\ UNCHANGED <<row, seal, completedEvt>>
    BY <1>1, <1>5, <2>1 DEF StatusWrite, AgreementRow, outbox, artefact
  <2> QED  BY <2>2, StatusMaps
<1>6. CASE DeclineAgreement(h) \/ CancelStatus(h)
  <2>1. agr'.status # "COMPLETED" /\ UNCHANGED <<row, seal, completedEvt>>
    BY <1>1, <1>6 DEF DeclineAgreement, CancelStatus, AgreementRow, outbox, artefact
  <2> QED  BY <2>1, StatusMaps
<1>7. CASE DeleteWrite(h) \/ SignAdvance(h)
  <2>1. agr'.status = agr.status /\ UNCHANGED <<row, seal, completedEvt>>
    BY <1>1, <1>7 DEF DeleteWrite, SignAdvance, AgreementRow, outbox, artefact
  <2> QED  BY <2>1, Stutters
<1>8. CASE SendDelete(h) \/ LoopMail(h) \/ LoopEnd(h) \/ SignEvaluate(h)
  BY <1>8, Stutters DEF SendDelete, LoopMail, LoopEnd, SignEvaluate, outbox, artefact
<1>9. CASE SignPublish(h) \/ DeclinePublish(h)
  BY <1>9, Stutters DEF SignPublish, DeclinePublish, artefact
<1>10. CASE CancelTokens(h)
  <2>1. \A r \in Rcpt : row'[r].st = row[r].st
    BY <1>1, <1>10 DEF CancelTokens, RecipientRow
  <2> QED  BY <1>10, <2>1, Stutters DEF CancelTokens, outbox, artefact
<1>11. CASE SendCommit(h)
  BY <1>11, SendMaps
<1>12. CASE LoopVisit(h)
  <2>1. PICK r \in loc[h].rs \cap Live :
             /\ r \in Rcpt
             /\ loc[h].kind # "warn" => row[r].st # "SIGNED"
             /\ loc[h].kind = "warn" => row'[r].st = row[r].st
             /\ row'[r].st \in {row[r].st, "INVITED"}
             /\ \A q \in Rcpt \ {r} : row'[q] = row[q]
    BY <1>12, VisitWrites
  <2>2. agr' = agr /\ UNCHANGED <<seal, completedEvt>>
    BY <1>12 DEF LoopVisit, outbox, artefact
  <2>3. Live' = Live /\ Signed(Live)' = Signed(Live)
    BY <2>1 DEF Live, Signed
  <2>4. /\ Active(Live)' = Active(Live) /\ Active(Signed(Live))' = Active(Signed(Live))
        /\ Active(seal.of)' = Active(seal.of)
    BY <2>2, <2>3 DEF Active
  <2> QED  BY <2>2, <2>4 DEF Promised!vars
<1>13. CASE SignWrite(h) \/ DeclineRow(h)
  <2>1. UNCHANGED <<agr, seal, completedEvt>>
    BY <1>13 DEF SignWrite, DeclineRow, outbox, artefact
  <2>2. CASE UNCHANGED row
    BY <2>1, <2>2, Stutters
  <2>3. ASSUME NEW s \in {"SIGNED", "DECLINED"}, loc[h].rcp \in Live,
               row' = [row EXCEPT ![loc[h].rcp].st = s]
        PROVE  [Promised!Next]_(Promised!vars)
    BY <1>1, <2>1, <2>3, OneAnswers
  <2> QED  BY <1>13, <2>2, <2>3 DEF SignWrite, DeclineRow, UpdateRecipient
<1>14. CASE SignComplete(h) \/ SignSeal(h) \/ SignNotify(h)
  BY <1>14, CompletionMaps
<1>15. CASE Continue(h)
  BY <1>5, <1>6, <1>7, <1>8, <1>9, <1>10, <1>11, <1>12, <1>13, <1>14, <1>15 DEF Continue
<1>16. ASSUME NEW g \in Handlers
       PROVE  g = h
  OBVIOUS
<1> QED  BY <1>2, <1>3, <1>4, <1>15, <1>16 DEF Next

LEMMA InitMaps == Init => Promised!Init
<1> SUFFICES ASSUME Init PROVE Promised!Init
  OBVIOUS
<1>1. Live = {} /\ seal.of = {} /\ agr.status = "DRAFT" /\ completedEvt = 0
  BY DEF Init, Live, NoRow
<1> QED  BY <1>1 DEF Promised!Init, Active, Signed

\* One request at a time, the handlers keep the envelope's promise: no step of
\* theirs, in any order, with a fault between any two statements, is anything
\* but a step of the envelope, for every recipient list, routing and bound.
THEOREM EnvelopeKept ==
    ASSUME NEW h, Handlers = {h}
    PROVE  Spec => ImplementsEnvelope
<1>1. Typed /\ Typed' /\ Alone /\ [Next]_vars => Alone'
  BY StepAlone
<1>2. Typed /\ Alone /\ [Next]_vars => [Promised!Next]_(Promised!vars)
  BY StepMaps
<1> QED  BY <1>1, <1>2, InitAlone, InitMaps, AlwaysTyped, PTL
         DEF Spec, ImplementsEnvelope, Promised!Spec

\* One request at a time, nothing but the recipient's own decline or a new list
\* takes a recorded signature back.
THEOREM SignaturesAreKept ==
    ASSUME NEW h, Handlers = {h}
    PROVE  Spec => SignatureKept
<1>1. Typed /\ Typed' /\ Alone /\ [Next]_vars => Alone'
  BY StepAlone
<1>2. ASSUME Typed, Alone, [Next]_vars
      PROVE  \A r \in Rcpt : row[r].st = "SIGNED" => row'[r].st \in {"SIGNED", "DECLINED", "NONE"}
  <2> SUFFICES ASSUME NEW r \in Rcpt, row[r].st = "SIGNED"
               PROVE  row'[r].st \in {"SIGNED", "DECLINED", "NONE"}
    OBVIOUS
  <2> USE DEF Typed
  <2>1. h \in Handlers /\ HandlersOK /\ row \in [Rcpt -> RecipientRow] /\ r \in Live
    BY <1>2 DEF RowsOK, Live
  <2>2. CASE UNCHANGED row
    BY <2>2
  <2>3. CASE SendCommit(h)
    BY <1>2, <2>1, <2>3, SendReplaces DEF Live
  <2>4. CASE LoopVisit(h)
    BY <1>2, <2>1, <2>4, VisitWrites
  <2>5. CASE SignWrite(h) \/ DeclineRow(h)
    <3>1. ASSUME NEW s \in {"SIGNED", "DECLINED"}, row' = [row EXCEPT ![loc[h].rcp].st = s]
          PROVE  row'[r].st \in {"SIGNED", s}
      BY <2>1, <3>1 DEF RecipientRow
    <3> QED  BY <2>2, <2>5, <3>1 DEF SignWrite, DeclineRow, UpdateRecipient
  <2>6. CASE CancelTokens(h)
    BY <2>1, <2>6 DEF CancelTokens, RecipientRow
  <2>7. CASE Request(h)
    BY <2>1, <2>2, <2>7, RequestReads
  <2>8. CASE Continue(h)
    <3>1. CASE StatusWrite(h) \/ DeleteWrite(h) \/ SendDelete(h) \/ LoopMail(h) \/ LoopEnd(h)
                 \/ SignPublish(h) \/ SignEvaluate(h) \/ SignAdvance(h) \/ SignComplete(h)
                 \/ SignSeal(h) \/ SignNotify(h) \/ DeclineAgreement(h) \/ DeclinePublish(h)
                 \/ CancelStatus(h)
      BY <2>2, <3>1 DEF StatusWrite, DeleteWrite, SendDelete, LoopMail, LoopEnd, SignPublish,
         SignEvaluate, SignAdvance, SignComplete, SignSeal, SignNotify, DeclineAgreement,
         DeclinePublish, CancelStatus
    <3> QED  BY <2>3, <2>4, <2>5, <2>6, <2>8, <3>1 DEF Continue
  <2> QED  BY <1>2, <2>2, <2>7, <2>8 DEF Next, Abort, vars
<1>3. Typed /\ Alone /\ [Next]_vars
        => [\A r \in Rcpt : row[r].st = "SIGNED"
               => row'[r].st \in {"SIGNED", "DECLINED", "NONE"}]_vars
  BY <1>2
<1> QED  BY <1>1, <1>3, InitAlone, AlwaysTyped, PTL DEF Spec, SignatureKept

----------------------------------------------------------------------------
(* Links, seals and turns: a further strengthening, Serial.                *)

Answered == {r \in Rcpt : row[r].st \in {"SIGNED", "DECLINED"}}

\* The tiers below the current one have answered; a parallel list has one tier.
TiersAnswered ==
    /\ agr.order = "SEQUENTIAL" => \A q \in Active(Live) : row[q].tier < agr.step => q \in Answered
    /\ agr.order = "PARALLEL" => \A q \in Live : row[q].tier = 1

\* All that has been given away names the agreement's verification token.
TokenFiled ==
    /\ links \subseteq {agr.vtok} \ {0}
    /\ completedEvt \in {0, agr.vtok}
    /\ seal.doc # 0 => seal.tok = agr.vtok /\ agr.vtok # 0

SealCovers ==
    /\ seal.of \cap Live # {} => Active(Live) \subseteq seal.of
    /\ \A r \in seal.of : r[1] <= gens

AlsoHolds(p, l) ==
    /\ p \in {"send_delete", "send_commit"} => \A r \in seal.of : r[1] < l.gen
    /\ p \in {"loop", "mail"} =>
         \A r \in l.rs \cap Live : agr.order = "SEQUENTIAL" => row[r].tier = agr.step
    /\ p \in {"sign_write", "sign_publish", "sign_evaluate", "sign_complete"} => l.vtok = agr.vtok
    /\ p \in {"sign_seal", "sign_notify"} => l.vtok = agr.vtok /\ l.vtok # 0
    /\ p = "sign_advance" => \A q \in Active(Live) : row[q].tier < l.next => q \in Answered

Serial ==
    /\ TiersAnswered /\ TokenFiled /\ SealCovers
    /\ \A h \in Handlers : AlsoHolds(pc[h], loc[h])

----------------------------------------------------------------------------
(* Steps that leave rows, seal and tokens alone.                           *)

LEMMA TiersStay ==
    ASSUME TiersAnswered, agr'.order = agr.order, agr'.step = agr.step,
           \A r \in Rcpt : row'[r].tier = row[r].tier /\ row'[r].st = row[r].st
    PROVE  TiersAnswered' /\ Live' = Live /\ Active(Live)' = Active(Live) /\ Answered' = Answered
<1>1. Live' = Live /\ Active(Live)' = Active(Live)
  BY RowsKeep
<1>2. Answered' = Answered
  BY DEF Answered
<1>3. Active(Live) \subseteq Rcpt /\ Live \subseteq Rcpt
  BY DEF Active, Live
<1> QED  BY <1>1, <1>2, <1>3 DEF TiersAnswered

LEMMA TokenStays ==
    ASSUME TokenFiled, agr'.vtok = agr.vtok, UNCHANGED <<links, completedEvt, seal>>
    PROVE  TokenFiled'
BY DEF TokenFiled

LEMMA CoverStays ==
    ASSUME SealCovers, Typed, gens' \in Nat, gens' >= gens, UNCHANGED seal,
           \A r \in Rcpt : row'[r].st = row[r].st
    PROVE  SealCovers'
<1>1. Live' = Live /\ Active(Live)' = Active(Live)
  BY RowsKeep
<1>2. gens \in Nat /\ \A r \in seal.of : r[1] \in Nat
  BY DEF Typed, RowsOK, Rcpt
<1> QED  BY <1>1, <1>2 DEF SealCovers

LEMMA OneSerial ==
    ASSUME NEW h, Handlers = {h}, TiersAnswered', TokenFiled', SealCovers',
           AlsoHolds(pc[h], loc[h])'
    PROVE  Serial'
BY DEF Serial

LEMMA IdleSerial ==
    ASSUME NEW h, Handlers = {h}, HandlersOK, Return(h),
           TiersAnswered', TokenFiled', SealCovers'
    PROVE  Serial'
<1>1. pc'[h] = "idle"
  BY DEF Return, Goto, HandlersOK
<1>2. AlsoHolds(pc[h], loc[h])'
  BY <1>1 DEF AlsoHolds
<1> QED  BY <1>2, OneSerial

----------------------------------------------------------------------------
(* Requests.                                                               *)

LEMMA RequestFrame ==
    ASSUME NEW h \in Handlers, Typed, Request(h)
    PROVE  /\ UNCHANGED <<agr, row, held, seal, links, completedEvt>>
           /\ gens \in Nat /\ gens' \in Nat /\ gens' >= gens
<1>0. gens \in Nat
  BY DEF Typed, RowsOK
<1>1. ASSUME NEW op, NEW from, NEW target, StatusRead(h, op, from, target)
      PROVE  UNCHANGED <<links, gens>>
  BY <1>1 DEF StatusRead, artefact
<1>2. CASE SubmitForReview(h) \/ RetractReview(h) \/ ApproveAgreement(h)
             \/ RejectAgreement(h) \/ ActivateAgreement(h) \/ ExpireAgreement(h)
  BY <1>0, <1>1, <1>2, RequestKeeps DEF SubmitForReview, RetractReview, ApproveAgreement,
     RejectAgreement, ActivateAgreement, ExpireAgreement
<1>3. CASE DeleteRead(h) \/ SendManualReminder(h) \/ ExpiryWarning(h)
             \/ CreateSignerSession(h) \/ SignRead(h) \/ DeclineRead(h) \/ CancelRead(h)
  <2>1. UNCHANGED <<links, gens>>
    BY <1>3 DEF DeleteRead, SendManualReminder, ExpiryWarning, CreateSignerSession,
       SignRead, DeclineRead, CancelRead, artefact
  <2> QED  BY <1>0, <2>1, RequestKeeps
<1>4. CASE SendRead(h)
  <2>1. links' = links /\ gens' = gens + 1
    BY <1>4 DEF SendRead, artefact
  <2> QED  BY <1>0, <2>1, RequestKeeps
<1> QED  BY <1>2, <1>3, <1>4 DEF Request

\* A reminder, a session and a warning begin with rows of the current tier.
LEMMA LoopBeginsInTier ==
    ASSUME NEW h \in Handlers, Typed, UNCHANGED <<agr, row>>, NEW op, NEW k,
           NEW rs \in SUBSET Pending,
           Begin(h, op, "loop", [NoLocals EXCEPT !.kind = k, !.rs = rs])
    PROVE  AlsoHolds(pc[h], loc[h])'
<1>1. pc'[h] = "loop" /\ loc'[h] = [NoLocals EXCEPT !.kind = k, !.rs = rs]
  BY BeginSets DEF Typed
<1>2. loc'[h].rs = rs
  BY <1>1 DEF NoLocals
<1>3. \A r \in rs : agr.order = "SEQUENTIAL" => row[r].tier = agr.step
  BY DEF Pending
<1> QED  BY <1>1, <1>2, <1>3 DEF AlsoHolds

LEMMA RequestSerial ==
    ASSUME NEW h, Handlers = {h}, Typed, Serial, Request(h)
    PROVE  Serial'
<1>1. h \in Handlers /\ HandlersOK /\ TiersAnswered /\ TokenFiled /\ SealCovers
  BY DEF Serial, Typed
<1>2. /\ UNCHANGED <<agr, row, seal, links, completedEvt>>
      /\ gens \in Nat /\ gens' \in Nat /\ gens' >= gens
  BY <1>1, RequestFrame
<1>3. TiersAnswered' /\ TokenFiled' /\ SealCovers'
  BY <1>1, <1>2, TiersStay, TokenStays, CoverStays
<1>4. AlsoHolds(pc[h], loc[h])'
  <2>1. ASSUME NEW op, NEW from, NEW target, StatusRead(h, op, from, target)
        PROVE  AlsoHolds(pc[h], loc[h])'
    <3>1. pc'[h] = "status_write"
      BY <1>1, <2>1, BeginSets DEF StatusRead
    <3> QED  BY <3>1 DEF AlsoHolds
  <2>2. CASE SubmitForReview(h) \/ RetractReview(h) \/ ApproveAgreement(h)
               \/ RejectAgreement(h) \/ ActivateAgreement(h) \/ ExpireAgreement(h)
    BY <2>1, <2>2 DEF SubmitForReview, RetractReview, ApproveAgreement, RejectAgreement,
       ActivateAgreement, ExpireAgreement
  <2>3. CASE DeleteRead(h) \/ CancelRead(h)
    <3>1. pc'[h] \in {"delete_write", "cancel_status"}
      BY <1>1, <2>3, BeginSets DEF DeleteRead, CancelRead
    <3> QED  BY <3>1 DEF AlsoHolds
  <2>4. CASE SendRead(h)
    <3>1. PICK order \in Orders :
             Begin(h, "sendForSignature", "send_delete",
                   [NoLocals EXCEPT !.order = order, !.gen = gens + 1])
      BY <2>4 DEF SendRead
    <3>2. /\ pc'[h] = "send_delete"
          /\ loc'[h] = [NoLocals EXCEPT !.order = order, !.gen = gens + 1]
      BY <1>1, <3>1, BeginSets
    <3>3. loc'[h].gen = gens + 1
      BY <3>2 DEF NoLocals
    <3>4. \A r \in seal'.of : r[1] < gens + 1
      BY <1>1, <1>2 DEF SealCovers, Typed, RowsOK, Rcpt
    <3> QED  BY <3>2, <3>3, <3>4 DEF AlsoHolds
  <2>5. CASE SendManualReminder(h)
    <3>1. PICK rs \in SUBSET Pending :
             Begin(h, "sendManualReminder", "loop", [NoLocals EXCEPT !.kind = "remind", !.rs = rs])
      BY <2>5, Zenon DEF SendManualReminder
    <3> QED  BY <1>1, <1>2, <3>1, LoopBeginsInTier
  <2>6. CASE ExpiryWarning(h)
    BY <1>1, <1>2, <2>6, LoopBeginsInTier DEF ExpiryWarning
  <2>7. CASE CreateSignerSession(h)
    <3>1. PICK r \in Pending :
             Begin(h, "createSignerSession", "loop", [NoLocals EXCEPT !.kind = "session", !.rs = {r}])
      BY <2>7 DEF CreateSignerSession
    <3>2. {r} \in SUBSET Pending
      OBVIOUS
    <3> QED  BY <1>1, <1>2, <3>1, <3>2, LoopBeginsInTier
  <2>8. CASE SignRead(h)
    <3> DEFINE l(r) == [NoLocals EXCEPT !.rcp = r, !.order = agr.order, !.step = agr.step,
                                        !.vtok = agr.vtok, !.pdf = agr.pdf]
    <3>1. PICK r \in Live : Begin(h, "submitRecipientSignature", "sign_write", l(r))
      BY <2>8 DEF SignRead
    <3>2. pc'[h] = "sign_write" /\ loc'[h] = l(r)
      BY <1>1, <3>1, BeginSets
    <3>3. loc'[h].vtok = agr.vtok
      BY <3>2 DEF NoLocals
    <3> QED  BY <1>2, <3>2, <3>3 DEF AlsoHolds
  <2>9. CASE DeclineRead(h)
    <3>1. PICK r \in Live : Begin(h, "declineRecipientSignature", "decline_row",
                                  [NoLocals EXCEPT !.rcp = r])
      BY <2>9 DEF DeclineRead
    <3>2. pc'[h] = "decline_row"
      BY <1>1, <3>1, BeginSets
    <3> QED  BY <3>2 DEF AlsoHolds
  <2> QED  BY <2>2, <2>3, <2>4, <2>5, <2>6, <2>7, <2>8, <2>9 DEF Request
<1> QED  BY <1>3, <1>4, OneSerial

----------------------------------------------------------------------------
(* Statements.                                                             *)

LEMMA StatusSerial ==
    ASSUME NEW h, Handlers = {h}, Typed, Serial,
           StatusWrite(h) \/ DeleteWrite(h) \/ CancelStatus(h) \/ CancelTokens(h)
             \/ DeclineAgreement(h) \/ DeclinePublish(h)
    PROVE  Serial'
<1> USE DEF Typed
<1>1. /\ h \in Handlers /\ HandlersOK /\ TiersAnswered /\ TokenFiled /\ SealCovers
      /\ agr \in AgreementRow /\ gens \in Nat
  BY DEF Serial, RowsOK
<1>2. UNCHANGED <<seal, gens, links, completedEvt>>
  BY DEF StatusWrite, DeleteWrite, CancelStatus, CancelTokens, DeclineAgreement,
     DeclinePublish, outbox, artefact
<1>3. agr'.order = agr.order /\ agr'.step = agr.step /\ agr'.vtok = agr.vtok
  BY <1>1 DEF StatusWrite, DeleteWrite, CancelStatus, CancelTokens, DeclineAgreement,
     DeclinePublish, AgreementRow
<1>4. \A r \in Rcpt : row'[r].tier = row[r].tier /\ row'[r].st = row[r].st
  <2>1. CASE CancelTokens(h)
    BY <2>1 DEF CancelTokens, RowsOK, RecipientRow
  <2>2. CASE UNCHANGED row
    BY <2>2
  <2> QED  BY <2>1, <2>2 DEF StatusWrite, DeleteWrite, CancelStatus, DeclineAgreement,
             DeclinePublish
<1>5. TiersAnswered' /\ TokenFiled' /\ SealCovers'
  BY <1>1, <1>2, <1>3, <1>4, TiersStay, TokenStays, CoverStays
<1>6. pc'[h] \in {"idle", "cancel_tokens", "decline_publish"}
  BY <1>1 DEF StatusWrite, DeleteWrite, CancelStatus, CancelTokens, DeclineAgreement,
     DeclinePublish, Return, Goto, HandlersOK
<1>7. AlsoHolds(pc[h], loc[h])'
  BY <1>6 DEF AlsoHolds
<1> QED  BY <1>5, <1>7, OneSerial

LEMMA SendSerial ==
    ASSUME NEW h, Handlers = {h}, Typed, Alone, Serial, SendDelete(h) \/ SendCommit(h)
    PROVE  Serial'
<1> USE DEF Typed
<1>1. /\ h \in Handlers /\ HandlersOK /\ TiersAnswered /\ TokenFiled /\ SealCovers
      /\ agr \in AgreementRow /\ gens \in Nat /\ loc[h] \in Locals
  BY DEF Serial, RowsOK, HandlersOK
<1>2. UNCHANGED <<seal, gens, links, completedEvt>> /\ agr'.vtok = agr.vtok
  BY <1>1 DEF SendDelete, SendCommit, outbox, artefact, AgreementRow
<1>3. TokenFiled'
  BY <1>1, <1>2, TokenStays
<1>4. \A r \in seal.of : r[1] < loc[h].gen
  BY <1>1 DEF Serial, AlsoHolds, SendDelete, SendCommit
<1>5. CASE SendDelete(h)
  <2>1. UNCHANGED <<agr, row>>
    BY <1>5 DEF SendDelete
  <2>2. TiersAnswered' /\ SealCovers'
    BY <1>1, <1>2, <2>1, TiersStay, CoverStays
  <2>3. pc'[h] = "send_commit" /\ loc'[h].gen = loc[h].gen
    BY <1>1, <1>5 DEF SendDelete, Goto, HandlersOK, Locals
  <2>4. AlsoHolds(pc[h], loc[h])'
    BY <1>2, <1>4, <2>3 DEF AlsoHolds
  <2> QED  BY <1>3, <2>2, <2>4, OneSerial
<1>6. CASE SendCommit(h)
  <2>1. /\ Live' = Created(h)
        /\ \A r \in Created(h) : row'[r].tier = CreatedTier(h, r)
    BY <1>6, SendReplaces
  <2>2. \A r \in Created(h) : r[1] = loc[h].gen /\ r[2] \in Slots
    BY DEF Created
  <2>3. loc[h].gen \in Nat /\ \A r \in seal.of : r[1] \in Nat
    BY <1>1 DEF Locals, RowsOK, Rcpt
  <2>4. seal.of \cap Created(h) = {}
    BY <1>4, <2>2, <2>3
  <2>5. SealCovers'
    BY <1>1, <1>2, <2>1, <2>4 DEF SealCovers
  <2>6. agr'.step = 1 /\ agr'.order = loc[h].order
    BY <1>1, <1>6 DEF SendCommit, AgreementRow
  <2>7. \A r \in Created(h) : /\ CreatedTier(h, r) \in Nat \ {0}
                              /\ loc[h].order # "SEQUENTIAL" => CreatedTier(h, r) = 1
    BY <2>2, TierAssumption DEF CreatedTier
  <2>8. Active(Live)' \subseteq Created(h)
    BY <2>1 DEF Active
  <2>9. TiersAnswered'
    BY <2>1, <2>6, <2>7, <2>8 DEF TiersAnswered
  <2>10. /\ pc'[h] = "loop"
         /\ loc'[h] = [NoLocals EXCEPT !.kind = "send", !.rs = FirstInvited(h)]
    BY <1>1, <1>6 DEF SendCommit, Goto, HandlersOK
  <2>11. loc'[h].rs = FirstInvited(h)
    BY <2>10 DEF NoLocals
  <2>12. AlsoHolds(pc[h], loc[h])'
    BY <2>1, <2>6, <2>10, <2>11 DEF AlsoHolds, FirstInvited
  <2> QED  BY <1>3, <2>5, <2>9, <2>12, OneSerial
<1> QED  BY <1>5, <1>6

LEMMA LoopSerial ==
    ASSUME NEW h, Handlers = {h}, Typed, Alone, Serial,
           LoopVisit(h) \/ LoopMail(h) \/ LoopEnd(h)
    PROVE  Serial'
<1> USE DEF Typed
<1>1. /\ h \in Handlers /\ HandlersOK /\ TiersAnswered /\ TokenFiled /\ SealCovers
      /\ gens \in Nat /\ loc[h] \in Locals
  BY DEF Serial, RowsOK, HandlersOK
<1>2. UNCHANGED <<agr, seal, gens, links, completedEvt>>
  BY DEF LoopVisit, LoopMail, LoopEnd, outbox, artefact
<1>3. TokenFiled'
  BY <1>1, <1>2, TokenStays
<1>4. CASE LoopVisit(h)
  <2>1. PICK r \in loc[h].rs \cap Live :
             /\ r \in Rcpt
             /\ row'[r].tier = row[r].tier
             /\ row'[r].st \in {row[r].st, "INVITED"}
             /\ \A q \in Rcpt \ {r} : row'[q] = row[q]
             /\ loc'[h].rs = loc[h].rs \ {r}
    BY <1>4, VisitWrites
  <2>2. pc[h] = "loop" /\ pc'[h] = "mail"
    BY <1>1, <1>4 DEF LoopVisit, Goto, HandlersOK
  <2>3. \A q \in loc[h].rs \cap Live : agr.order = "SEQUENTIAL" => row[q].tier = agr.step
    BY <1>1, <2>2 DEF Serial, AlsoHolds
  <2>4. Live' = Live
    BY <2>1 DEF Live
  <2>5. Active(Live)' = Active(Live) /\ Active(Live) \subseteq Rcpt /\ Live \subseteq Rcpt
    BY <2>4 DEF Active, Live
  <2>6. \A q \in Rcpt : row'[q].tier = row[q].tier
    BY <2>1
  <2>7. agr.step \in Nat
    BY DEF RowsOK, AgreementRow
  <2>8. \A q \in Active(Live) : agr.order = "SEQUENTIAL" /\ row[q].tier < agr.step => q # r
    BY <2>1, <2>3, <2>7
  <2>9. \A q \in Rcpt \ {r} : q \in Answered => q \in Answered'
    BY <2>1 DEF Answered
  <2>10. TiersAnswered'
    BY <1>1, <1>2, <2>4, <2>5, <2>6, <2>8, <2>9 DEF TiersAnswered
  <2>11. SealCovers'
    BY <1>1, <1>2, <2>4, <2>5 DEF SealCovers
  <2>12. AlsoHolds(pc[h], loc[h])'
    BY <1>2, <2>1, <2>2, <2>3, <2>4, <2>5, <2>6 DEF AlsoHolds
  <2> QED  BY <1>3, <2>10, <2>11, <2>12, OneSerial
<1>5. CASE LoopMail(h)
  <2>1. UNCHANGED row /\ loc'[h].rs = loc[h].rs /\ pc[h] = "mail" /\ pc'[h] = "loop"
    BY <1>1, <1>5 DEF LoopMail, Goto, HandlersOK, Locals
  <2>2. TiersAnswered' /\ SealCovers' /\ Live' = Live
    BY <1>1, <1>2, <2>1, TiersStay, CoverStays
  <2>3. AlsoHolds(pc[h], loc[h])
    BY <1>1 DEF Serial
  <2>4. AlsoHolds(pc[h], loc[h])'
    BY <1>2, <2>1, <2>2, <2>3 DEF AlsoHolds
  <2> QED  BY <1>3, <2>2, <2>4, OneSerial
<1>6. CASE LoopEnd(h)
  <2>1. UNCHANGED row /\ Return(h)
    BY <1>6 DEF LoopEnd
  <2>2. TiersAnswered' /\ SealCovers'
    BY <1>1, <1>2, <2>1, TiersStay, CoverStays
  <2> QED  BY <1>1, <1>3, <2>1, <2>2, IdleSerial
<1> QED  BY <1>4, <1>5, <1>6

\* A recipient's answer leaves those who have answered where they are.
LEMMA AnswerSerial ==
    ASSUME NEW h, Handlers = {h}, Typed, Serial, SignWrite(h) \/ DeclineRow(h)
    PROVE  Serial'
<1> USE DEF Typed
<1>1. /\ h \in Handlers /\ HandlersOK /\ TiersAnswered /\ TokenFiled /\ SealCovers
      /\ gens \in Nat /\ loc[h] \in Locals /\ row \in [Rcpt -> RecipientRow]
  BY DEF Serial, RowsOK, HandlersOK
<1>2. UNCHANGED <<agr, seal, gens, links, completedEvt>>
  BY DEF SignWrite, DeclineRow, outbox, artefact
<1>3. TokenFiled'
  BY <1>1, <1>2, TokenStays
<1>4. CASE UNCHANGED row /\ Return(h)
  <2>1. TiersAnswered' /\ SealCovers'
    BY <1>1, <1>2, <1>4, TiersStay, CoverStays
  <2> QED  BY <1>1, <1>3, <1>4, <2>1, IdleSerial
<1>5. ASSUME NEW s \in {"SIGNED", "DECLINED"}, loc[h].rcp \in Live,
             row' = [row EXCEPT ![loc[h].rcp].st = s], UNCHANGED loc,
             \/ pc[h] = "sign_write" /\ pc'[h] = "sign_publish"
             \/ pc'[h] = "decline_agreement"
      PROVE  Serial'
  <2> DEFINE r == loc[h].rcp
  <2>1. /\ r \in Rcpt /\ row'[r].st = s /\ row'[r].tier = row[r].tier
        /\ \A q \in Rcpt \ {r} : row'[q] = row[q]
    BY <1>1, <1>5 DEF Live, RecipientRow
  <2>2. Live' = Live
    BY <1>5, <2>1 DEF Live
  <2>3. Active(Live)' = Active(Live) /\ Active(Live) \subseteq Rcpt /\ Live \subseteq Rcpt
    BY <2>2 DEF Active, Live
  <2>4. Answered \subseteq Answered'
    BY <2>1 DEF Answered
  <2>5. TiersAnswered'
    BY <1>1, <1>2, <2>1, <2>2, <2>3, <2>4 DEF TiersAnswered
  <2>6. SealCovers'
    BY <1>1, <1>2, <2>2, <2>3 DEF SealCovers
  <2>7. AlsoHolds(pc[h], loc[h])
    BY <1>1 DEF Serial
  <2>8. AlsoHolds(pc[h], loc[h])'
    BY <1>2, <1>5, <2>7 DEF AlsoHolds
  <2> QED  BY <1>3, <2>5, <2>6, <2>8, OneSerial
<1>6. CASE SignWrite(h)
  BY <1>1, <1>4, <1>5, <1>6 DEF SignWrite, UpdateRecipient, Goto, HandlersOK
<1>7. CASE DeclineRow(h)
  BY <1>1, <1>4, <1>5, <1>7 DEF DeclineRow, UpdateRecipient, Goto, HandlersOK
<1> QED  BY <1>6, <1>7

\* The tiers below the next one are those below the current one, the current
\* one, which has signed, and none that waits in between.
LEMMA EvaluateSerial ==
    ASSUME NEW h, Handlers = {h}, Typed, Alone, Serial, SignPublish(h) \/ SignEvaluate(h)
    PROVE  Serial'
<1> USE DEF Typed
<1>1. /\ h \in Handlers /\ HandlersOK /\ TiersAnswered /\ TokenFiled /\ SealCovers
      /\ gens \in Nat /\ loc[h] \in Locals
  BY DEF Serial, RowsOK, HandlersOK
<1>2. UNCHANGED <<agr, row, seal, gens, links, completedEvt>>
  BY DEF SignPublish, SignEvaluate, outbox, artefact
<1>3. TiersAnswered' /\ TokenFiled' /\ SealCovers' /\ Active(Live)' = Active(Live)
      /\ Answered' = Answered
  BY <1>1, <1>2, TiersStay, TokenStays, CoverStays
<1>4. pc[h] \in {"sign_publish", "sign_evaluate"}
  BY DEF SignPublish, SignEvaluate
<1>5. loc[h].vtok = agr.vtok /\ ReadIsCurrent(loc[h])
  BY <1>1, <1>4 DEF Serial, AlsoHolds, Alone, Holds
<1>6. CASE UNCHANGED loc /\ pc'[h] \in {"sign_evaluate", "sign_complete"}
  <2>1. AlsoHolds(pc[h], loc[h])'
    BY <1>2, <1>5, <1>6 DEF AlsoHolds
  <2> QED  BY <1>3, <2>1, OneSerial
<1>7. CASE Return(h)
  BY <1>1, <1>3, <1>7, IdleSerial
<1>8. ASSUME loc[h].order = "SEQUENTIAL", Goto(h, "sign_advance"),
             NEW k \in NextTier(loc[h].step),
             TierOf(Active(Live), loc[h].step) \subseteq Signed(Live),
             loc' = [loc EXCEPT ![h].next = k, ![h].rs = TierOf(Active(Live), k)]
      PROVE  Serial'
  <2>1. pc'[h] = "sign_advance" /\ loc'[h].next = k
    BY <1>1, <1>8 DEF Goto, HandlersOK, Locals
  <2>2. agr.step \in Nat /\ \A q \in Rcpt : row[q].tier \in Nat
    BY DEF RowsOK, AgreementRow, RecipientRow
  <2>3. Signed(Live) \subseteq Answered /\ Active(Live) \subseteq Rcpt
    BY DEF Signed, Live, Answered, Active
  <2>4. k \in Nat /\ k > agr.step /\ \A q \in Remaining(agr.step) : k <= row[q].tier
    BY <1>5, <1>8, <2>2, <2>3 DEF NextTier, ReadIsCurrent, Remaining
  <2>5. ASSUME NEW q \in Active(Live), row[q].tier < k
        PROVE  q \in Answered
    <3>1. row[q].tier \in Nat
      BY <2>2, <2>3
    <3>2. CASE row[q].tier < agr.step
      BY <1>1, <1>5, <1>8, <3>2 DEF TiersAnswered, ReadIsCurrent
    <3>3. CASE row[q].tier = agr.step
      BY <1>5, <1>8, <2>3, <3>3 DEF TierOf, ReadIsCurrent
    <3>4. CASE row[q].tier > agr.step
      BY <2>3, <2>4, <2>5, <3>1, <3>4 DEF Remaining
    <3> QED  BY <2>2, <3>1, <3>2, <3>3, <3>4
  <2>6. AlsoHolds(pc[h], loc[h])'
    BY <1>2, <1>3, <2>1, <2>5 DEF AlsoHolds
  <2> QED  BY <1>3, <2>6, OneSerial
<1>9. CASE SignPublish(h)
  BY <1>1, <1>6, <1>9 DEF SignPublish, Goto, HandlersOK
<1>10. CASE SignEvaluate(h)
  BY <1>1, <1>6, <1>7, <1>8, <1>10 DEF SignEvaluate, Goto, HandlersOK
<1> QED  BY <1>9, <1>10

LEMMA AdvanceSerial ==
    ASSUME NEW h, Handlers = {h}, Typed, Alone, Serial, SignAdvance(h)
    PROVE  Serial'
<1> USE DEF Typed
<1>1. /\ h \in Handlers /\ HandlersOK /\ TiersAnswered /\ TokenFiled /\ SealCovers
      /\ agr \in AgreementRow /\ gens \in Nat
  BY DEF Serial, RowsOK
<1>2. UNCHANGED <<row, seal, gens, links, completedEvt>> /\ pc[h] = "sign_advance"
  BY DEF SignAdvance, outbox, artefact
<1>3. agr'.step = loc[h].next /\ agr'.order = agr.order /\ agr'.vtok = agr.vtok
  BY <1>1 DEF SignAdvance, AgreementRow
<1>4. TokenFiled' /\ SealCovers'
  BY <1>1, <1>2, <1>3, TokenStays, CoverStays
<1>5. Unlocking(loc[h]) /\ \A q \in Active(Live) : row[q].tier < loc[h].next => q \in Answered
  BY <1>1, <1>2 DEF Alone, Holds, Serial, AlsoHolds
<1>6. Live' = Live /\ Active(Live)' = Active(Live) /\ Answered' = Answered
  BY <1>2 DEF Live, Active, Answered
<1>7. TiersAnswered'
  BY <1>2, <1>3, <1>5, <1>6 DEF TiersAnswered, Unlocking
<1>8. /\ pc'[h] = "loop"
      /\ loc'[h] = [NoLocals EXCEPT !.kind = "advance", !.rs = loc[h].rs]
  BY <1>1 DEF SignAdvance, Goto, HandlersOK
<1>9. loc'[h].rs = loc[h].rs
  BY <1>8 DEF NoLocals
<1>10. AlsoHolds(pc[h], loc[h])'
  BY <1>2, <1>3, <1>5, <1>6, <1>8, <1>9 DEF AlsoHolds, Unlocking
<1> QED  BY <1>4, <1>7, <1>10, OneSerial

LEMMA CompletionSerial ==
    ASSUME NEW h, Handlers = {h}, Typed, Alone, Serial,
           SignComplete(h) \/ SignSeal(h) \/ SignNotify(h)
    PROVE  Serial'
<1> USE DEF Typed
<1>1. /\ h \in Handlers /\ HandlersOK /\ TiersAnswered /\ TokenFiled /\ SealCovers
      /\ agr \in AgreementRow /\ gens \in Nat /\ vtoks \in Nat /\ seals \in Nat
      /\ loc[h] \in Locals
  BY DEF Serial, RowsOK, HandlersOK
<1>2. UNCHANGED <<row, gens>> /\ agr'.order = agr.order /\ agr'.step = agr.step
  BY <1>1 DEF SignComplete, SignSeal, SignNotify, AgreementRow
<1>3. TiersAnswered' /\ Live' = Live /\ Active(Live)' = Active(Live)
  BY <1>1, <1>2, TiersStay
<1>4. CASE SignComplete(h)
  <2>1. pc[h] = "sign_complete" /\ pc'[h] = "sign_seal" /\ UNCHANGED <<seal, links, completedEvt>>
    BY <1>1, <1>4 DEF SignComplete, Goto, HandlersOK, outbox
  <2>2. loc[h].vtok = agr.vtok
    BY <1>1, <2>1 DEF Serial, AlsoHolds
  <2>3. CompletedMeta(h).vtok # 0 /\ (agr.vtok # 0 => CompletedMeta(h).vtok = agr.vtok)
    BY <1>1, <2>2 DEF CompletedMeta
  <2>4. agr'.vtok = CompletedMeta(h).vtok /\ loc'[h].vtok = CompletedMeta(h).vtok
    BY <1>1, <1>4 DEF SignComplete, AgreementRow, HandlersOK, Locals
  <2>5. TokenFiled'
    BY <1>1, <2>1, <2>3, <2>4 DEF TokenFiled
  <2>6. AlsoHolds(pc[h], loc[h])'
    BY <2>1, <2>3, <2>4 DEF AlsoHolds
  <2>7. SealCovers'
    BY <1>1, <1>2, <2>1, CoverStays
  <2> QED  BY <1>3, <2>5, <2>6, <2>7, OneSerial
<1>5. CASE SignSeal(h)
  <2>1. /\ pc[h] = "sign_seal" /\ pc'[h] = "sign_notify"
        /\ UNCHANGED <<links, completedEvt>> /\ agr'.vtok = agr.vtok
    BY <1>1, <1>5 DEF SignSeal, Goto, HandlersOK, outbox, AgreementRow
  <2>2. loc[h].vtok = agr.vtok /\ agr.vtok # 0 /\ AllSigned
    BY <1>1, <2>1 DEF Serial, AlsoHolds, Alone, Holds
  <2>3. /\ loc'[h].vtok \in {loc[h].vtok, agr.vtok, seal.tok}
        /\ loc'[h].vtok = seal.tok => seal.doc # 0 \/ loc'[h].vtok \in {loc[h].vtok, agr.vtok}
    BY <1>1, <1>5 DEF SignSeal, HandlersOK, Locals
  <2>4. loc'[h].vtok = agr.vtok
    BY <1>1, <2>2, <2>3 DEF TokenFiled
  <2>5. CASE UNCHANGED seal
    <3>1. TokenFiled' /\ SealCovers'
      BY <1>1, <1>2, <2>1, <2>5, TokenStays, CoverStays
    <3>2. AlsoHolds(pc[h], loc[h])'
      BY <2>1, <2>2, <2>4 DEF AlsoHolds
    <3> QED  BY <1>3, <3>1, <3>2, OneSerial
  <2>6. CASE seal' = [tok |-> agr.vtok, doc |-> seals + 1, of |-> Signed(Live)]
    <3>1. TokenFiled'
      BY <1>1, <2>1, <2>2, <2>6 DEF TokenFiled
    <3>2. \A r \in Signed(Live) : r[1] <= gens
      BY DEF Alone, RowsInTurn, Signed
    <3>3. SealCovers'
      BY <1>2, <1>3, <2>2, <2>6, <3>2 DEF SealCovers, AllSigned
    <3>4. AlsoHolds(pc[h], loc[h])'
      BY <2>1, <2>2, <2>4 DEF AlsoHolds
    <3> QED  BY <1>3, <3>1, <3>3, <3>4, OneSerial
  <2> QED  BY <1>5, <2>5, <2>6 DEF SignSeal
<1>6. CASE SignNotify(h)
  <2>1. pc[h] = "sign_notify" /\ UNCHANGED <<agr, seal>> /\ Return(h)
    BY <1>6 DEF SignNotify
  <2>2. loc[h].vtok = agr.vtok /\ loc[h].vtok # 0
    BY <1>1, <2>1 DEF Serial, AlsoHolds
  <2>3. TokenFiled'
    BY <1>1, <1>6, <2>1, <2>2 DEF SignNotify, TokenFiled
  <2>4. SealCovers'
    BY <1>1, <1>2, <2>1, CoverStays
  <2> QED  BY <1>1, <1>3, <2>1, <2>3, <2>4, IdleSerial
<1> QED  BY <1>4, <1>5, <1>6

LEMMA StepSerial ==
    ASSUME NEW h, Handlers = {h}, Typed, Alone, Serial, [Next]_vars
    PROVE  Serial'
<1>1. /\ h \in Handlers /\ HandlersOK /\ TiersAnswered /\ TokenFiled /\ SealCovers /\ gens \in Nat
  BY DEF Serial, Typed, RowsOK
<1>2. CASE UNCHANGED vars
  <2>1. UNCHANGED <<agr, row, seal, links, completedEvt, gens, pc, loc>>
    BY <1>2 DEF vars
  <2>2. /\ TiersAnswered' /\ TokenFiled' /\ SealCovers'
        /\ Live' = Live /\ Active(Live)' = Active(Live) /\ Answered' = Answered
    BY <1>1, <2>1, TiersStay, TokenStays, CoverStays
  <2>3. AlsoHolds(pc[h], loc[h])
    BY <1>1 DEF Serial
  <2>4. AlsoHolds(pc[h], loc[h])'
    BY <2>1, <2>2, <2>3 DEF AlsoHolds
  <2> QED  BY <2>2, <2>4, OneSerial
<1>3. CASE Request(h)
  BY <1>3, RequestSerial
<1>4. CASE Continue(h)
  BY <1>4, StatusSerial, SendSerial, LoopSerial, AnswerSerial, EvaluateSerial, AdvanceSerial,
     CompletionSerial DEF Continue
<1>5. CASE Abort(h)
  <2>1. UNCHANGED <<agr, row, seal, links, completedEvt, gens>> /\ Return(h)
    BY <1>5 DEF Abort, outbox, artefact
  <2>2. TiersAnswered' /\ TokenFiled' /\ SealCovers'
    BY <1>1, <2>1, TiersStay, TokenStays, CoverStays
  <2> QED  BY <1>1, <2>1, <2>2, IdleSerial
<1>6. ASSUME NEW g \in Handlers
      PROVE  g = h
  OBVIOUS
<1> QED  BY <1>2, <1>3, <1>4, <1>5, <1>6 DEF Next

LEMMA InitSerial == Init => Serial
<1> SUFFICES ASSUME Init PROVE Serial
  OBVIOUS
<1>1. Live = {} /\ seal = [tok |-> 0, doc |-> 0, of |-> {}] /\ links = {} /\ completedEvt = 0
  BY DEF Init, Live, NoRow
<1>2. TiersAnswered /\ TokenFiled /\ SealCovers
  BY <1>1 DEF TiersAnswered, TokenFiled, SealCovers, Active
<1>3. \A h \in Handlers : AlsoHolds(pc[h], loc[h])
  BY DEF Init, AlsoHolds
<1> QED  BY <1>2, <1>3 DEF Serial

----------------------------------------------------------------------------
(* The theorems.                                                           *)

LEMMA AlwaysSerial ==
    ASSUME NEW h, Handlers = {h}
    PROVE  Spec => [](Typed /\ Alone /\ Serial)
<1>1. Typed /\ Typed' /\ Alone /\ [Next]_vars => Alone'
  BY StepAlone
<1>2. Typed /\ Alone /\ Serial /\ [Next]_vars => Serial'
  BY StepSerial
<1> QED  BY <1>1, <1>2, InitAlone, InitSerial, AlwaysTyped, PTL DEF Spec

\* One request at a time, every link e-mailed on completion and the link of the
\* document.completed event carry the token of the one seal that is kept, after
\* any number of failed sealings, reopenings, resends and completions.
THEOREM LinksAreStable ==
    ASSUME NEW h, Handlers = {h}
    PROVE  Spec => []LinksStable
<1>1. Serial => LinksStable
  BY DEF Serial, TokenFiled, LinksStable
<1> QED  BY <1>1, AlwaysSerial, PTL

\* One request at a time, a sealed document that shows one signer of the live
\* list shows all of them.
THEOREM SealsShowSigners ==
    ASSUME NEW h, Handlers = {h}
    PROVE  Spec => []SealShowsSigners
<1>1. Serial => SealShowsSigners
  BY DEF Serial, SealCovers, SealShowsSigners
<1> QED  BY <1>1, AlwaysSerial, PTL

\* One request at a time, a signature is recorded only when everyone of the
\* lower tiers has answered, though the submission never checks whose turn it is.
THEOREM SignaturesInTurn ==
    ASSUME NEW h, Handlers = {h}
    PROVE  Spec => SignsInTurn
<1> DEFINE InTurn == \A r \in Rcpt : row[r].st # "SIGNED" /\ row'[r].st = "SIGNED" =>
                       \A q \in Active(Live) : q[1] = r[1] /\ row[q].tier < row[r].tier
                                                  => row[q].st \in {"SIGNED", "DECLINED"}
<1>1. ASSUME Typed, Alone, Serial, [Next]_vars
      PROVE  InTurn
  <2> USE DEF Typed
  <2>1. /\ h \in Handlers /\ HandlersOK /\ row \in [Rcpt -> RecipientRow] /\ agr \in AgreementRow
        /\ TiersAnswered
    BY <1>1 DEF RowsOK, Serial
  <2> SUFFICES ASSUME NEW r \in Rcpt, row[r].st # "SIGNED", row'[r].st = "SIGNED",
                      NEW q \in Active(Live), row[q].tier < row[r].tier
               PROVE  row[q].st \in {"SIGNED", "DECLINED"}
    OBVIOUS
  <2>2. q \in Rcpt /\ q \in Live /\ row[q].tier \in Nat /\ row[r].tier \in Nat /\ agr.step \in Nat
    BY <2>1 DEF Active, Live, RecipientRow, AgreementRow
  <2>3. SignWrite(h)
    <3>1. ~UNCHANGED row
      OBVIOUS
    <3>2. ~SendCommit(h)
      <4>1. SUFFICES ASSUME SendCommit(h) PROVE FALSE
        OBVIOUS
      <4>2. Live' = Created(h) /\ \A p \in Created(h) : row'[p].st = "PENDING"
        BY <1>1, <4>1, SendReplaces
      <4>3. r \in Live'
        BY DEF Live
      <4> QED  BY <4>2, <4>3
    <3>3. ~LoopVisit(h)
      BY <1>1, <2>1, VisitWrites
    <3>4. ~DeclineRow(h)
      <4>1. SUFFICES ASSUME DeclineRow(h), row' = [row EXCEPT ![loc[h].rcp].st = "DECLINED"]
                     PROVE  FALSE
        BY <3>1 DEF DeclineRow, UpdateRecipient
      <4> QED  BY <2>1, <4>1 DEF RecipientRow
    <3>5. ~CancelTokens(h)
      BY <2>1 DEF CancelTokens, RecipientRow
    <3>6. ~Request(h)
      BY <2>1, <3>1, RequestReads
    <3>7. ~(StatusWrite(h) \/ DeleteWrite(h) \/ SendDelete(h) \/ LoopMail(h) \/ LoopEnd(h)
              \/ SignPublish(h) \/ SignEvaluate(h) \/ SignAdvance(h) \/ SignComplete(h)
              \/ SignSeal(h) \/ SignNotify(h) \/ DeclineAgreement(h) \/ DeclinePublish(h)
              \/ CancelStatus(h) \/ Abort(h) \/ UNCHANGED vars)
      BY <3>1 DEF StatusWrite, DeleteWrite, SendDelete, LoopMail, LoopEnd, SignPublish,
         SignEvaluate, SignAdvance, SignComplete, SignSeal, SignNotify, DeclineAgreement,
         DeclinePublish, CancelStatus, Abort, vars
    <3>8. ASSUME NEW g \in Handlers PROVE g = h
      OBVIOUS
    <3> QED  BY <1>1, <3>2, <3>3, <3>4, <3>5, <3>6, <3>7, <3>8 DEF Next, Continue
  <2>4. row' = [row EXCEPT ![loc[h].rcp].st = "SIGNED"] /\ loc[h].rcp \in Live
    BY <2>3 DEF SignWrite, UpdateRecipient
  <2>5. r = loc[h].rcp
    BY <2>1, <2>4 DEF RecipientRow
  <2>6. Turn(r)
    BY <1>1, <2>1, <2>3, <2>4, <2>5 DEF Alone, Holds, SignWrite
  <2>7. CASE agr.order = "SEQUENTIAL"
    BY <2>1, <2>2, <2>6, <2>7 DEF TiersAnswered, Turn, Answered
  <2>8. CASE agr.order = "PARALLEL"
    BY <2>1, <2>2, <2>4, <2>5, <2>8 DEF TiersAnswered
  <2> QED  BY <2>1, <2>7, <2>8 DEF AgreementRow
<1>2. Typed /\ Alone /\ Serial /\ [Next]_vars => [InTurn]_vars
  BY <1>1
<1> QED  BY <1>2, AlwaysSerial, PTL DEF Spec, SignsInTurn

----------------------------------------------------------------------------
(* Nobody is stranded.  One list, sent once, and any number of handlers    *)
(* that run to their ends.  Three things are kept while the agreement is    *)
(* SENT: a recipient once reached stays so, since who takes a link away is  *)
(* about to mail another; who is not reached lies beyond everything that    *)
(* any handler has read or is about to write; and as long as somebody is    *)
(* missing, one of the missing is reached or a handler is about to judge.   *)

\* Where a handler may be before there is a list, and the handlers sending one.
RowFree == {"idle", "status_write", "delete_write", "send_delete", "send_commit",
            "cancel_status", "cancel_tokens"}

Sending == {h \in Handlers : pc[h] \in {"send_delete", "send_commit"}}

Before == gens = 0 \/ Sending # {}

Unsent ==
    /\ agr.status # "SENT"
    /\ \A r \in Rcpt : row[r].st = "NONE" /\ ~held[r]
    /\ \A h \in Handlers : pc[h] \in RowFree

\* The current token is about to be mailed to r, or a loop will come to r.
Carrying(h, r) == pc[h] = "mail" /\ loc[h].rcp = r /\ loc[h].tok = row[r].tok

Coming(h, r) == /\ pc[h] \in {"loop", "mail"} /\ r \in loc[h].rs
                /\ loc[h].kind = "send" => row[r].tok = 1

Reached(r) == held[r] \/ \E h \in Handlers : Carrying(h, r) \/ Coming(h, r)

Waits(r) == r \in Active(Rcpt) /\ row[r].st = "PENDING" /\ ~Reached(r)

\* A handler at p has neither read nor is it about to serve the tier of r, or
\* else it is about to serve r itself.
Below(p, l, r) ==
    /\ p \in {"loop", "mail"} => \A q \in l.rs : row[q].tier < row[r].tier
    /\ p = "mail" => row[l.rcp].tier < row[r].tier
    /\ p \in {"sign_write", "sign_publish", "sign_evaluate"} => l.step < row[r].tier
    /\ p = "sign_advance" => l.next < row[r].tier \/ r \in l.rs

Beyond(r) ==
    /\ agr.order = "SEQUENTIAL" /\ agr.step < row[r].tier
    /\ \A q \in Rcpt : held[q] => row[q].tier < row[r].tier
    /\ \A h \in Handlers : Below(pc[h], loc[h], r)

Placed(p, l) ==
    /\ p \in {"sign_write", "decline_row"} => Reached(l.rcp)
    /\ p \in {"sign_write", "sign_publish", "sign_evaluate"} => l.order = agr.order
    /\ p = "sign_advance" => /\ l.rs # {} /\ l.rs \subseteq Active(Rcpt)
                             /\ \A r \in l.rs : row[r].tier = l.next
    /\ p \in {"loop", "mail"} /\ l.kind = "advance" => l.rs \subseteq Active(Rcpt)

\* A handler about to judge, to unlock a tier or to end the agreement.
Moving(p, l) ==
    \/ p \in {"sign_publish", "sign_evaluate", "sign_advance", "decline_agreement"}
    \/ p \in {"loop", "mail"} /\ l.kind = "advance" /\ l.rs # {}

Progress ==
    \/ \A r \in Active(Rcpt) : row[r].st = "SIGNED"
    \/ \E r \in Active(Rcpt) : row[r].st # "SIGNED" /\ Reached(r)
    \/ \E h \in Handlers : Moving(pc[h], loc[h])

Underway ==
    /\ \A r \in Rcpt : row[r].st # "NONE"
    /\ \A h \in Handlers : Placed(pc[h], loc[h])
    /\ \A r \in Active(Rcpt) : row[r].st # "PENDING" => Reached(r)
    /\ \A r \in Rcpt : row[r].st = "DECLINED" => \E h \in Handlers : pc[h] = "decline_agreement"
    /\ \A r \in Rcpt : Waits(r) => Beyond(r)
    /\ Progress

OneList ==
    /\ gens <= 1 /\ (Sending # {} => gens = 1)
    /\ \A g, h \in Sending : g = h
    /\ Before => Unsent
    /\ ~Before /\ agr.status = "SENT" => Underway

\* A step of h leaves the other handlers alone.
OthersStay(h) == \A g \in Handlers \ {h} : pc'[g] = pc[g] /\ loc'[g] = loc[g]

LEMMA MovesOne ==
    ASSUME HandlersOK, NEW h \in Handlers, NEW p, NEW l,
           pc' = [pc EXCEPT ![h] = p], loc' = [loc EXCEPT ![h] = l]
    PROVE  pc'[h] = p /\ loc'[h] = l /\ OthersStay(h)
BY DEF HandlersOK, OthersStay

\* With a list there are no recipients but those of the list.
LEMMA AllLive ==
    ASSUME \A r \in Rcpt : row[r].st # "NONE"
    PROVE  Live = Rcpt
BY DEF Live

\* Whoever is reached stays so in a step that leaves links, tokens and the
\* tasks of all loops alone.
LEMMA ReachedStays ==
    ASSUME NEW h \in Handlers, OthersStay(h), held' = held,
           pc[h] \notin {"loop", "mail"} \/ (pc[h] = "loop" /\ loc[h].rs = {}),
           NEW r \in Rcpt, row'[r].tok = row[r].tok, Reached(r)
    PROVE  Reached(r)'
<1>1. CASE held[r]
  BY <1>1 DEF Reached
<1>2. ASSUME NEW g \in Handlers, Carrying(g, r) \/ Coming(g, r)
      PROVE  Carrying(g, r)' \/ Coming(g, r)'
  <2>1. g # h
    BY <1>2 DEF Carrying, Coming
  <2> QED  BY <1>2, <2>1 DEF Carrying, Coming, OthersStay
<1> QED  BY <1>1, <1>2 DEF Reached

\* The other handlers stay in place while tiers and routing do and nobody who
\* was reached is lost.
LEMMA PlacedStay ==
    ASSUME Typed', Underway, NEW h \in Handlers, OthersStay(h), agr'.order = agr.order,
           \A r \in Rcpt : row'[r].tier = row[r].tier /\ (Reached(r) => Reached(r)'),
           Placed(pc[h], loc[h])'
    PROVE  \A g \in Handlers : Placed(pc[g], loc[g])'
<1> TAKE g \in Handlers
<1>1. CASE g = h
  BY <1>1
<1>2. CASE g # h
  <2>1. pc'[g] \in RcptPCs => loc'[g].rcp \in Rcpt
    BY DEF Typed, HandlersOK, Fits
  <2>2. Placed(pc'[g], loc'[g])
    BY <1>2 DEF Underway, OthersStay
  <2>3. pc'[g] \in {"sign_write", "decline_row"} => Reached(loc[g].rcp)'
    BY <2>1, <2>2 DEF Placed, RcptPCs
  <2>4. pc'[g] = "sign_advance" => \A r \in loc'[g].rs : row'[r].tier = loc'[g].next
    BY <2>2 DEF Placed, Active
  <2> QED  BY <2>2, <2>3, <2>4 DEF Placed
<1> QED  BY <1>1, <1>2

\* And they stay below a waiting recipient.
LEMMA BeyondStays ==
    ASSUME Typed', Underway, NEW h \in Handlers, OthersStay(h), agr'.order = agr.order,
           \A q \in Rcpt : row'[q].tier = row[q].tier,
           NEW r \in Rcpt, Waits(r), agr'.step < row[r].tier,
           \A q \in Rcpt : held'[q] => row[q].tier < row[r].tier,
           Below(pc[h], loc[h], r)'
    PROVE  Beyond(r)'
<1>1. Beyond(r)
  BY DEF Underway
<1>2. ASSUME NEW g \in Handlers, g # h
      PROVE  Below(pc[g], loc[g], r)'
  <2>1. Below(pc'[g], loc'[g], r)
    BY <1>1, <1>2 DEF Beyond, OthersStay
  <2>2. loc'[g].rs \subseteq Rcpt /\ (pc'[g] = "mail" => loc'[g].rcp \in Rcpt)
    BY DEF Typed, HandlersOK, Locals, Fits, RcptPCs
  <2> QED  BY <2>1, <2>2 DEF Below
<1>3. \A g \in Handlers : Below(pc[g], loc[g], r)'
  BY <1>2
<1> QED  BY <1>1, <1>3 DEF Beyond

\* Such a step keeps the list under way if it fits the handler's next place.
LEMMA StillUnderway ==
    ASSUME Typed, Typed', Underway, NEW h \in Handlers, OthersStay(h), held' = held,
           agr'.step = agr.step, agr'.order = agr.order,
           \A q \in Rcpt : /\ row'[q].st = row[q].st
                           /\ row'[q].tok = row[q].tok /\ row'[q].tier = row[q].tier,
           pc[h] \notin {"loop", "mail", "decline_agreement"}
               \/ (pc[h] = "loop" /\ loc[h].rs = {}),
           Placed(pc[h], loc[h])',
           \A r \in Rcpt : Waits(r) => Below(pc[h], loc[h], r)',
           \/ ~Moving(pc[h], loc[h]) \/ Moving(pc'[h], loc'[h])
           \/ \A r \in Active(Rcpt) : row[r].st = "SIGNED"
           \/ \E r \in Active(Rcpt) : row[r].st # "SIGNED" /\ Reached(r)
           \/ \E g \in Handlers \ {h} : Moving(pc[g], loc[g])
    PROVE  Underway'
<1>1. \A r \in Rcpt : Reached(r) => Reached(r)'
  BY ReachedStays
<1>2. \A r \in Active(Rcpt) : r \in Rcpt
  BY DEF Active
<1>3. \A r \in Rcpt : row'[r].st # "NONE"
  BY DEF Underway
<1>4. \A g \in Handlers : Placed(pc[g], loc[g])'
  BY <1>1, PlacedStay
<1>5. \A r \in Active(Rcpt) : row'[r].st # "PENDING" => Reached(r)'
  BY <1>1, <1>2 DEF Underway
<1>6. \A r \in Rcpt : row'[r].st = "DECLINED" => \E g \in Handlers : pc'[g] = "decline_agreement"
  BY DEF Underway, OthersStay
<1>7. ASSUME NEW r \in Rcpt, Waits(r)'
      PROVE  Beyond(r)'
  <2>1. Waits(r) /\ Beyond(r)
    BY <1>1, <1>7 DEF Waits, Underway
  <2>2. agr'.step < row[r].tier /\ \A q \in Rcpt : held'[q] => row[q].tier < row[r].tier
    BY <2>1 DEF Beyond
  <2> QED  BY <2>1, <2>2, BeyondStays
<1>8. Progress'
  <2>1. CASE \A r \in Active(Rcpt) : row[r].st = "SIGNED"
    BY <1>2, <2>1 DEF Progress
  <2>2. CASE \E r \in Active(Rcpt) : row[r].st # "SIGNED" /\ Reached(r)
    BY <1>1, <1>2, <2>2 DEF Progress
  <2>3. CASE \E g \in Handlers \ {h} : Moving(pc[g], loc[g])
    BY <2>3 DEF Progress, OthersStay
  <2>4. CASE Moving(pc[h], loc[h]) /\ Moving(pc'[h], loc'[h])
    BY <2>4 DEF Progress
  <2> QED  BY <2>1, <2>2, <2>3, <2>4 DEF Underway, Progress
<1> QED  BY <1>3, <1>4, <1>5, <1>6, <1>7, <1>8 DEF Underway

\* What a visit writes.
LEMMA VisitDoes ==
    ASSUME Typed, NEW h \in Handlers, LoopVisit(h)
    PROVE  /\ pc[h] = "loop" /\ pc'[h] = "mail" /\ OthersStay(h) /\ agr' = agr
           /\ \E r \in loc[h].rs :
                /\ r \in Rcpt
                /\ row'[r].tier = row[r].tier
                /\ row'[r].st = IF loc[h].kind = "warn" THEN row[r].st ELSE "INVITED"
                /\ row'[r].tok = IF loc[h].kind = "send" THEN row[r].tok ELSE row[r].tok + 1
                /\ loc[h].kind = "send" => held'[r] = held[r]
                /\ \A q \in Rcpt \ {r} : row'[q] = row[q] /\ held'[q] = held[q]
                /\ loc'[h].rs = loc[h].rs \ {r} /\ loc'[h].rcp = r
                /\ loc'[h].kind = loc[h].kind
                /\ loc'[h].tok = IF loc[h].kind = "send" THEN 1 ELSE row[r].tok + 1
<1> USE DEF Typed
<1>1. HandlersOK /\ loc[h] \in Locals /\ pc[h] = "loop" /\ pc' = [pc EXCEPT ![h] = "mail"]
      /\ agr' = agr
  BY DEF HandlersOK, LoopVisit, Goto
<1>2. PICK r \in loc[h].rs \cap Live :
         /\ row' = [row EXCEPT ![r] = Visited(loc[h].kind, r)]
         /\ held' = [held EXCEPT ![r] = @ /\ loc[h].kind = "send"]
         /\ loc' = [loc EXCEPT ![h].rs = @ \ {r}, ![h].rcp = r,
                        ![h].tok = IF loc[h].kind = "send" THEN 1 ELSE row[r].tok + 1]
  BY DEF LoopVisit
<1>3. r \in Rcpt /\ row[r] \in RecipientRow /\ r \in loc[h].rs
  BY DEF Live, RowsOK
<1>4. /\ Visited(loc[h].kind, r).tier = row[r].tier
      /\ Visited(loc[h].kind, r).st = IF loc[h].kind = "warn" THEN row[r].st ELSE "INVITED"
      /\ Visited(loc[h].kind, r).tok = IF loc[h].kind = "send" THEN row[r].tok ELSE row[r].tok + 1
  BY <1>3 DEF Visited, RecipientRow
<1>5. row'[r] = Visited(loc[h].kind, r) /\ \A q \in Rcpt \ {r} : row'[q] = row[q]
  BY <1>2, <1>3 DEF RowsOK
<1>6. /\ loc[h].kind = "send" => held'[r] = held[r]
      /\ \A q \in Rcpt \ {r} : held'[q] = held[q]
  <2> DEFINE keep == held[r] /\ loc[h].kind = "send"
  <2>1. held' = [held EXCEPT ![r] = keep]
    BY <1>2, Zenon
  <2>2. loc[h].kind = "send" => keep = held[r]
    BY <1>3 DEF RowsOK
  <2> HIDE DEF keep
  <2> QED  BY <1>3, <2>1, <2>2 DEF RowsOK
<1>7. /\ loc'[h].rs = loc[h].rs \ {r} /\ loc'[h].rcp = r /\ loc'[h].kind = loc[h].kind
      /\ loc'[h].tok = IF loc[h].kind = "send" THEN 1 ELSE row[r].tok + 1
  BY <1>1, <1>2 DEF HandlersOK, Locals
<1>8. OthersStay(h) /\ pc'[h] = "mail"
  BY <1>1, <1>2 DEF HandlersOK, OthersStay
<1> QED  BY <1>1, <1>3, <1>4, <1>5, <1>6, <1>7, <1>8

\* A visit takes a link away only to mail another.
LEMMA VisitReaches ==
    ASSUME Typed, NEW h \in Handlers, pc[h] = "loop", pc'[h] = "mail", OthersStay(h),
           NEW r \in Rcpt,
           row'[r].tok = IF loc[h].kind = "send" THEN row[r].tok ELSE row[r].tok + 1,
           loc[h].kind = "send" => held'[r] = held[r],
           \A q \in Rcpt \ {r} : row'[q] = row[q] /\ held'[q] = held[q],
           loc'[h].rs = loc[h].rs \ {r}, loc'[h].rcp = r, loc'[h].kind = loc[h].kind,
           loc'[h].tok = IF loc[h].kind = "send" THEN 1 ELSE row[r].tok + 1
    PROVE  /\ \A q \in Rcpt : Reached(q) => Reached(q)'
           /\ loc[h].kind # "send" => Reached(r)'
<1>1. loc[h].kind # "send" => Carrying(h, r)'
  BY DEF Carrying
<1>2. ASSUME NEW q \in Rcpt \ {r}, NEW g \in Handlers, Carrying(g, q) \/ Coming(g, q)
      PROVE  Carrying(g, q)' \/ Coming(g, q)'
  BY <1>2 DEF Carrying, Coming, OthersStay
<1>3. ASSUME loc[h].kind = "send", NEW g \in Handlers, Carrying(g, r) \/ Coming(g, r)
      PROVE  Carrying(g, r)' \/ Coming(g, r)'
  <2>1. CASE g = h
    BY <1>3, <2>1 DEF Carrying, Coming
  <2>2. CASE g # h
    BY <1>3, <2>2 DEF Carrying, Coming, OthersStay
  <2> QED  BY <2>1, <2>2
<1>4. loc[h].kind # "send" => Reached(r)'
  BY <1>1 DEF Reached
<1>5. \A q \in Rcpt \ {r} : Reached(q) => Reached(q)'
  BY <1>2 DEF Reached
<1>6. loc[h].kind = "send" /\ Reached(r) => Reached(r)'
  BY <1>3 DEF Reached
<1> QED  BY <1>4, <1>5, <1>6

LEMMA VisitUnderway ==
    ASSUME Typed, Typed', Underway, NEW h \in Handlers, LoopVisit(h)
    PROVE  Underway'
<1>1. /\ pc[h] = "loop" /\ pc'[h] = "mail" /\ OthersStay(h) /\ agr' = agr
  BY VisitDoes
<1>2. PICK r \in loc[h].rs :
                /\ r \in Rcpt
                /\ row'[r].tier = row[r].tier
                /\ row'[r].st = IF loc[h].kind = "warn" THEN row[r].st ELSE "INVITED"
                /\ row'[r].tok = IF loc[h].kind = "send" THEN row[r].tok ELSE row[r].tok + 1
                /\ loc[h].kind = "send" => held'[r] = held[r]
                /\ \A q \in Rcpt \ {r} : row'[q] = row[q] /\ held'[q] = held[q]
                /\ loc'[h].rs = loc[h].rs \ {r} /\ loc'[h].rcp = r
                /\ loc'[h].kind = loc[h].kind
                /\ loc'[h].tok = IF loc[h].kind = "send" THEN 1 ELSE row[r].tok + 1
  BY VisitDoes
<1>3. /\ \A q \in Rcpt : Reached(q) => Reached(q)'
      /\ loc[h].kind # "send" => Reached(r)'
  BY <1>1, <1>2, VisitReaches
<1>4. \A q \in Active(Rcpt) : q \in Rcpt
  BY DEF Active
<1>5. row[r].tier \in Nat /\ row[r].st # "NONE" /\ row[r].st \in {"PENDING", "INVITED", "SIGNED", "DECLINED"}
  BY <1>2 DEF Typed, RowsOK, RecipientRow, Underway
<1>6. \A q \in Rcpt : row'[q].tier = row[q].tier
  BY <1>2
\* A recipient whom a loop comes to does not wait.
<1>7. ~Waits(r)
  <2> SUFFICES ASSUME Waits(r) PROVE FALSE
    OBVIOUS
  <2>1. Below(pc[h], loc[h], r)
    BY <1>2 DEF Underway, Beyond
  <2> QED  BY <1>1, <1>2, <1>5, <2>1 DEF Below
<1>8. r \in Active(Rcpt) => Reached(r)'
  <2> SUFFICES ASSUME r \in Active(Rcpt), loc[h].kind = "send" PROVE Reached(r)'
    BY <1>3
  <2>1. Reached(r)
    BY <1>4, <1>7 DEF Underway, Waits
  <2> QED  BY <1>2, <1>3, <2>1
<1>9. \A q \in Rcpt : row'[q].st # "NONE"
  BY <1>2, <1>5 DEF Underway
<1>10. \A g \in Handlers : Placed(pc[g], loc[g])'
  <2>1. Placed(pc[h], loc[h])'
    <3>1. Placed(pc[h], loc[h])
      BY DEF Underway
    <3> QED  BY <1>1, <1>2, <3>1 DEF Placed
  <2> QED  BY <1>1, <1>3, <1>6, <2>1, PlacedStay
<1>11. \A q \in Active(Rcpt) : row'[q].st # "PENDING" => Reached(q)'
  BY <1>2, <1>3, <1>4, <1>8 DEF Underway
<1>12. \A q \in Rcpt : row'[q].st = "DECLINED" => \E g \in Handlers : pc'[g] = "decline_agreement"
  <2>1. \A q \in Rcpt : row'[q].st = "DECLINED" => row[q].st = "DECLINED"
    BY <1>2
  <2>2. \A g \in Handlers : pc[g] = "decline_agreement" => pc'[g] = "decline_agreement"
    BY <1>1 DEF OthersStay
  <2> QED  BY <2>1, <2>2 DEF Underway
<1>13. ASSUME NEW q \in Rcpt, Waits(q)'
      PROVE  Beyond(q)'
  <2>1. q # r
    BY <1>8, <1>13 DEF Waits
  <2>2. Waits(q) /\ Beyond(q)
    BY <1>2, <1>3, <1>13, <2>1 DEF Waits, Underway
  <2>3. Below(pc[h], loc[h], q)
    BY <2>2 DEF Beyond
  <2>4. row[r].tier < row[q].tier
    BY <1>1, <1>2, <2>3 DEF Below
  <2>5. Below(pc[h], loc[h], q)'
    <3>1. \A w \in loc'[h].rs : row[w].tier < row[q].tier
      BY <1>1, <1>2, <2>3 DEF Below
    <3>2. loc'[h].rs \subseteq Rcpt
      BY DEF Typed, HandlersOK, Locals
    <3> QED  BY <1>1, <1>2, <1>6, <2>4, <3>1, <3>2 DEF Below
  <2>6. \A w \in Rcpt : held'[w] => row[w].tier < row[q].tier
    BY <1>2, <2>2, <2>4 DEF Beyond
  <2>7. agr'.step < row[q].tier
    BY <1>1, <2>2 DEF Beyond
  <2> QED  BY <1>1, <1>6, <2>2, <2>5, <2>6, <2>7, BeyondStays
<1>14. Progress'
  <2>1. CASE r \in Active(Rcpt) /\ loc[h].kind # "warn"
    BY <1>2, <1>8, <2>1 DEF Progress
  <2>2. CASE r \notin Active(Rcpt) \/ loc[h].kind = "warn"
    <3>1. \A q \in Active(Rcpt) : row'[q].st = row[q].st
      BY <1>2, <1>4, <2>2
    <3>2. \A g \in Handlers : Moving(pc[g], loc[g]) => g # h
      <4>1. Placed(pc[h], loc[h])
        BY DEF Underway
      <4> QED  BY <1>1, <1>2, <2>2, <4>1 DEF Moving, Placed
    <3>3. CASE \A q \in Active(Rcpt) : row[q].st = "SIGNED"
      BY <3>1, <3>3 DEF Progress
    <3>4. CASE \E q \in Active(Rcpt) : row[q].st # "SIGNED" /\ Reached(q)
      BY <1>3, <1>4, <3>1, <3>4 DEF Progress
    <3>5. CASE \E g \in Handlers : Moving(pc[g], loc[g])
      BY <1>1, <3>2, <3>5 DEF Progress, OthersStay
    <3> QED  BY <3>3, <3>4, <3>5 DEF Underway, Progress
  <2> QED  BY <2>1, <2>2
<1> QED  BY <1>9, <1>10, <1>11, <1>12, <1>13, <1>14 DEF Underway

\* A mail that carries the current token makes its link held.
LEMMA MailUnderway ==
    ASSUME Typed, Typed', Underway, NEW h \in Handlers, LoopMail(h)
    PROVE  Underway'
<1> DEFINE r == loc[h].rcp
           got == held[r] \/ (r \in Live /\ row[r].tok = loc[h].tok)
<1>1. /\ pc[h] = "mail" /\ pc'[h] = "loop" /\ OthersStay(h) /\ agr' = agr /\ row' = row
      /\ loc'[h].rs = loc[h].rs /\ loc'[h].kind = loc[h].kind
  BY DEF LoopMail, Goto, Typed, HandlersOK, OthersStay, Locals
<1>2. r \in Rcpt /\ Live = Rcpt
  BY <1>1, AllLive DEF Typed, HandlersOK, Fits, RcptPCs, Underway
<1>3. held' = [held EXCEPT ![r] = got]
  BY Zenon DEF LoopMail
<1>4. held[r] \/ row[r].tok = loc[h].tok => got
  BY <1>2, Zenon
<1> HIDE DEF got
<1>5. held'[r] = got /\ \A q \in Rcpt \ {r} : held'[q] = held[q]
  BY <1>2, <1>3 DEF Typed, RowsOK
<1>6. ASSUME NEW q \in Rcpt, Reached(q)
      PROVE  Reached(q)'
  <2>1. CASE held[q]
    BY <1>2, <1>4, <1>5, <2>1 DEF Reached
  <2>2. ASSUME NEW g \in Handlers, Carrying(g, q) \/ Coming(g, q)
        PROVE  held'[q] \/ Carrying(g, q)' \/ Coming(g, q)'
    <3>1. CASE g # h
      BY <1>1, <2>2, <3>1 DEF Carrying, Coming, OthersStay
    <3>2. CASE g = h /\ Carrying(h, q)
      BY <1>4, <1>5, <3>2 DEF Carrying
    <3>3. CASE g = h /\ Coming(h, q)
      BY <1>1, <3>3 DEF Coming
    <3> QED  BY <2>2, <3>1, <3>2, <3>3
  <2> QED  BY <1>6, <2>1, <2>2 DEF Reached
<1>7. \A q \in Active(Rcpt) : q \in Rcpt
  BY DEF Active
<1>8. \A q \in Rcpt : row'[q].st # "NONE"
  BY <1>1 DEF Underway
<1>9. \A g \in Handlers : Placed(pc[g], loc[g])'
  <2>1. Placed(pc[h], loc[h])'
    <3>1. Placed(pc[h], loc[h])
      BY DEF Underway
    <3> QED  BY <1>1, <3>1 DEF Placed
  <2> QED  BY <1>1, <1>6, <2>1, PlacedStay
<1>10. \A q \in Active(Rcpt) : row'[q].st # "PENDING" => Reached(q)'
  BY <1>1, <1>6, <1>7 DEF Underway
<1>11. \A q \in Rcpt : row'[q].st = "DECLINED" => \E g \in Handlers : pc'[g] = "decline_agreement"
  <2>1. \A g \in Handlers : pc[g] = "decline_agreement" => pc'[g] = "decline_agreement"
    BY <1>1 DEF OthersStay
  <2> QED  BY <1>1, <2>1 DEF Underway
<1>12. ASSUME NEW q \in Rcpt, Waits(q)'
       PROVE  Beyond(q)'
  <2>1. Waits(q) /\ Beyond(q)
    BY <1>1, <1>6, <1>12 DEF Waits, Underway
  <2>2. Below(pc[h], loc[h], q) /\ agr'.step < row[q].tier
    BY <1>1, <2>1 DEF Beyond
  <2>3. Below(pc[h], loc[h], q)'
    BY <1>1, <2>2 DEF Below
  <2>4. \A w \in Rcpt : held'[w] => row[w].tier < row[q].tier
    BY <1>1, <1>5, <2>1, <2>2 DEF Beyond, Below
  <2> QED  BY <1>1, <2>1, <2>2, <2>3, <2>4, BeyondStays
<1>13. Progress'
  <2>1. \A g \in Handlers : Moving(pc[g], loc[g]) => Moving(pc'[g], loc'[g])
    BY <1>1 DEF Moving, OthersStay
  <2>2. CASE \A q \in Active(Rcpt) : row[q].st = "SIGNED"
    BY <1>1, <2>2 DEF Progress
  <2>3. CASE \E q \in Active(Rcpt) : row[q].st # "SIGNED" /\ Reached(q)
    BY <1>1, <1>6, <1>7, <2>3 DEF Progress
  <2>4. CASE \E g \in Handlers : Moving(pc[g], loc[g])
    BY <2>1, <2>4 DEF Progress
  <2> QED  BY <2>2, <2>3, <2>4 DEF Underway, Progress
<1> QED  BY <1>8, <1>9, <1>10, <1>11, <1>12, <1>13 DEF Underway

\* A signature or a decline is written by a handler that goes on to judge it
\* or to end the agreement, about a recipient who was reached.
LEMMA AnswerUnderway ==
    ASSUME Typed, Typed', Underway, NEW h \in Handlers, SignWrite(h) \/ DeclineRow(h)
    PROVE  Underway'
<1> USE DEF Typed
<1>1. pc[h] \in {"sign_write", "decline_row"} /\ agr' = agr /\ held' = held
  BY DEF SignWrite, DeclineRow
<1>2. PICK r \in Rcpt : r = loc[h].rcp /\ Live = Rcpt
  BY <1>1, AllLive DEF HandlersOK, Fits, RcptPCs, Underway
<1>3. PICK s \in {"SIGNED", "DECLINED"} :
        /\ pc[h] = IF s = "SIGNED" THEN "sign_write" ELSE "decline_row"
        /\ row' = [row EXCEPT ![r].st = s] /\ loc' = loc
        /\ pc' = [pc EXCEPT ![h] = IF s = "SIGNED" THEN "sign_publish" ELSE "decline_agreement"]
  BY <1>2 DEF SignWrite, DeclineRow, UpdateRecipient, Goto
<1>4. /\ row'[r].st = s /\ row'[r].tok = row[r].tok /\ row'[r].tier = row[r].tier
      /\ \A q \in Rcpt \ {r} : row'[q] = row[q]
  BY <1>2, <1>3 DEF RowsOK, RecipientRow
<1>5. /\ pc'[h] = IF s = "SIGNED" THEN "sign_publish" ELSE "decline_agreement"
      /\ loc'[h] = loc[h] /\ OthersStay(h)
  BY <1>3 DEF HandlersOK, OthersStay
<1>6. \A q \in Rcpt : Reached(q) => Reached(q)'
  BY <1>1, <1>4, <1>5, ReachedStays
<1>7. \A q \in Active(Rcpt) : q \in Rcpt
  BY DEF Active
<1>8. Placed(pc[h], loc[h])
  BY DEF Underway
<1>9. Reached(r)'
  BY <1>1, <1>2, <1>6, <1>8 DEF Placed
<1>10. \A q \in Rcpt : row'[q].tier = row[q].tier
  BY <1>4
<1>11. \A q \in Rcpt : row'[q].st # "NONE"
  BY <1>4 DEF Underway
<1>12. \A g \in Handlers : Placed(pc[g], loc[g])'
  <2>1. Placed(pc[h], loc[h])'
    BY <1>1, <1>3, <1>5, <1>8 DEF Placed
  <2> QED  BY <1>1, <1>5, <1>6, <1>10, <2>1, PlacedStay
<1>13. \A q \in Active(Rcpt) : row'[q].st # "PENDING" => Reached(q)'
  BY <1>4, <1>6, <1>7, <1>9 DEF Underway
<1>14. \A q \in Rcpt : row'[q].st = "DECLINED" => \E g \in Handlers : pc'[g] = "decline_agreement"
  <2>1. \A g \in Handlers : pc[g] = "decline_agreement" => pc'[g] = "decline_agreement"
    BY <1>1, <1>5 DEF OthersStay
  <2>2. CASE s = "SIGNED"
    <3>1. \A q \in Rcpt : row'[q].st = "DECLINED" => row[q].st = "DECLINED"
      BY <1>4, <2>2
    <3> QED  BY <2>1, <3>1 DEF Underway
  <2>3. CASE s = "DECLINED"
    BY <1>5, <2>3
  <2> QED  BY <2>2, <2>3
<1>15. ASSUME NEW q \in Rcpt, Waits(q)'
       PROVE  Beyond(q)'
  <2>1. q # r
    BY <1>9, <1>15 DEF Waits
  <2>2. Waits(q) /\ Beyond(q)
    BY <1>4, <1>6, <1>15, <2>1 DEF Waits, Underway
  <2>3. Below(pc[h], loc[h], q) /\ agr'.step < row[q].tier
    BY <1>1, <2>2 DEF Beyond
  <2>4. Below(pc[h], loc[h], q)'
    BY <1>3, <1>5, <1>10, <2>3 DEF Below
  <2>5. \A w \in Rcpt : held'[w] => row[w].tier < row[q].tier
    BY <1>1, <2>2 DEF Beyond
  <2> QED  BY <1>1, <1>5, <1>10, <2>2, <2>3, <2>4, <2>5, BeyondStays
<1>16. Progress'
  BY <1>5 DEF Progress, Moving
<1> QED  BY <1>11, <1>12, <1>13, <1>14, <1>15, <1>16 DEF Underway

\* Unlocking a tier makes the loop come to all of it.
LEMMA AdvanceUnderway ==
    ASSUME Typed, Typed', Underway, NEW h \in Handlers, SignAdvance(h)
    PROVE  Underway'
<1> USE DEF Typed
<1> DEFINE l == [NoLocals EXCEPT !.kind = "advance", !.rs = loc[h].rs]
<1>1. /\ pc[h] = "sign_advance" /\ row' = row /\ held' = held
      /\ pc' = [pc EXCEPT ![h] = "loop"] /\ loc' = [loc EXCEPT ![h] = l]
      /\ agr' = [agr EXCEPT !.step = loc[h].next]
  BY DEF SignAdvance, Goto
<1>2. l.kind = "advance" /\ l.rs = loc[h].rs
  BY DEF NoLocals
<1>3. pc'[h] = "loop" /\ loc'[h] = l /\ OthersStay(h)
  BY <1>1, MovesOne
<1> HIDE DEF l
<1>4. agr'.step = loc[h].next /\ agr'.order = agr.order
  BY <1>1 DEF RowsOK, AgreementRow
<1>5. Placed(pc[h], loc[h])
  BY DEF Underway
<1>6. \A q \in Rcpt : Reached(q) => Reached(q)'
  BY <1>1, <1>3, ReachedStays
<1>7. \A q \in loc[h].rs : Reached(q)'
  BY <1>2, <1>3 DEF Reached, Coming
<1>8. \A q \in Active(Rcpt) : q \in Rcpt
  BY DEF Active
<1>9. \A q \in Rcpt : row'[q].st # "NONE"
  BY <1>1 DEF Underway
<1>10. \A g \in Handlers : Placed(pc[g], loc[g])'
  <2>1. Placed(pc[h], loc[h])'
    BY <1>1, <1>2, <1>3, <1>5 DEF Placed
  <2> QED  BY <1>1, <1>3, <1>4, <1>6, <2>1, PlacedStay
<1>11. \A q \in Active(Rcpt) : row'[q].st # "PENDING" => Reached(q)'
  BY <1>1, <1>6, <1>8 DEF Underway
<1>12. \A q \in Rcpt : row'[q].st = "DECLINED" => \E g \in Handlers : pc'[g] = "decline_agreement"
  <2>1. \A g \in Handlers : pc[g] = "decline_agreement" => pc'[g] = "decline_agreement"
    BY <1>1, <1>3 DEF OthersStay
  <2> QED  BY <1>1, <2>1 DEF Underway
<1>13. ASSUME NEW q \in Rcpt, Waits(q)'
       PROVE  Beyond(q)'
  <2>1. Waits(q) /\ Beyond(q) /\ q \notin loc[h].rs
    BY <1>1, <1>6, <1>7, <1>13 DEF Waits, Underway
  <2>2. loc[h].next < row[q].tier
    BY <1>1, <2>1 DEF Beyond, Below
  <2>3. Below(pc[h], loc[h], q)'
    BY <1>1, <1>2, <1>3, <1>5, <2>2 DEF Below, Placed
  <2>4. \A w \in Rcpt : held'[w] => row[w].tier < row[q].tier
    BY <1>1, <2>1 DEF Beyond
  <2> QED  BY <1>1, <1>3, <1>4, <2>1, <2>2, <2>3, <2>4, BeyondStays
<1>14. Progress'
  BY <1>1, <1>2, <1>3, <1>5 DEF Progress, Moving, Placed
<1> QED  BY <1>9, <1>10, <1>11, <1>12, <1>13, <1>14 DEF Underway

\* Places where a handler relies on nothing of the list and is not counted on.
Plain == PCs \ {"loop", "mail", "sign_write", "sign_publish", "sign_evaluate",
                "sign_advance", "decline_row"}

LEMMA PlainPlaces ==
    ASSUME NEW p \in Plain, NEW l
    PROVE  Placed(p, l) /\ \A r : Below(p, l, r)
BY DEF Plain, Placed, Below

\* A step from a place that is not counted on to a plain one.
LEMMA PlainUnderway ==
    ASSUME Typed, Typed', Underway, NEW h \in Handlers, OthersStay(h), held' = held,
           agr'.step = agr.step, agr'.order = agr.order,
           \A q \in Rcpt : /\ row'[q].st = row[q].st
                           /\ row'[q].tok = row[q].tok /\ row'[q].tier = row[q].tier,
           pc[h] \in Plain \ {"decline_agreement"} \/ (pc[h] = "loop" /\ loc[h].rs = {}),
           pc'[h] \in Plain
    PROVE  Underway'
<1>1. Placed(pc[h], loc[h])' /\ \A r \in Rcpt : Below(pc[h], loc[h], r)'
  BY DEF Plain, Placed, Below
<1>2. pc[h] \notin {"loop", "mail", "decline_agreement"}
         \/ (pc[h] = "loop" /\ loc[h].rs = {})
  BY DEF Plain
<1>3. ~Moving(pc[h], loc[h])
  BY DEF Moving, Plain
<1> QED  BY <1>1, <1>2, <1>3, StillUnderway

\* The judgement advances unless somebody missing is reached or somebody else
\* is about to judge: it looks beyond the step it has read, and whoever waits
\* is there.
LEMMA EvaluateUnderway ==
    ASSUME Typed, Typed', Underway, NEW h \in Handlers, SignEvaluate(h)
    PROVE  Underway'
<1> USE DEF Typed
<1>1. pc[h] = "sign_evaluate" /\ UNCHANGED <<agr, row, held>> /\ Live = Rcpt
  BY AllLive DEF SignEvaluate, Underway
<1>2. loc[h] \in Locals /\ agr \in AgreementRow /\ Placed(pc[h], loc[h])
  BY DEF HandlersOK, RowsOK, Underway
<1>3. loc[h].order = agr.order
  BY <1>1, <1>2 DEF Placed
<1>4. \A r \in Rcpt : row[r].tier \in Nat
  BY DEF RowsOK, RecipientRow
<1>5. \A r \in Rcpt : Waits(r) => Beyond(r) /\ loc[h].step < row[r].tier
  BY <1>1 DEF Underway, Beyond, Below
<1>6. ASSUME NEW r \in Rcpt, Waits(r)
      PROVE  r \in Remaining(loc[h].step)
  BY <1>1, <1>5, <1>6 DEF Waits, Remaining, Signed
<1>7. CASE AllFinished /\ Goto(h, "sign_complete") /\ UNCHANGED loc
  <2>1. pc'[h] = "sign_complete" /\ OthersStay(h)
    BY <1>7 DEF Goto, HandlersOK, OthersStay
  <2>2. \A r \in Active(Rcpt) : row[r].st = "SIGNED"
    BY <1>1, <1>7 DEF AllFinished, Signed
  <2>3. Placed(pc[h], loc[h])' /\ \A r \in Rcpt : Below(pc[h], loc[h], r)'
    BY <2>1 DEF Placed, Below
  <2> QED  BY <1>1, <2>1, <2>2, <2>3, StillUnderway
<1>8. ASSUME Goto(h, "sign_advance"), NEW k \in NextTier(loc[h].step),
             loc' = [loc EXCEPT ![h].next = k, ![h].rs = TierOf(Active(Live), k)]
      PROVE  Underway'
  <2>1. /\ pc'[h] = "sign_advance" /\ OthersStay(h)
        /\ loc'[h].next = k /\ loc'[h].rs = TierOf(Active(Live), k)
    BY <1>2, <1>8 DEF Goto, HandlersOK, OthersStay, Locals
  <2>2. PICK r \in Remaining(loc[h].step) : row[r].tier = k
    BY <1>8 DEF NextTier
  <2>3. \A q \in Remaining(loc[h].step) : k <= row[q].tier
    BY <1>8 DEF NextTier
  <2>4. r \in TierOf(Active(Rcpt), k)
    BY <1>1, <2>2 DEF Remaining, TierOf
  <2>5. Placed(pc[h], loc[h])'
    BY <1>1, <2>1, <2>4 DEF Placed, TierOf
  <2>6. ASSUME NEW q \in Rcpt, Waits(q)
        PROVE  Below(pc[h], loc[h], q)'
    <3>1. k <= row[q].tier /\ k \in Nat /\ row[q].tier \in Nat
      BY <1>4, <1>6, <2>2, <2>3, <2>6 DEF Remaining, Active, Live
    <3>2. row[q].tier = k => q \in TierOf(Active(Rcpt), k)
      BY <2>6 DEF Waits, TierOf
    <3> QED  BY <1>1, <2>1, <3>1, <3>2 DEF Below
  <2>7. Moving(pc'[h], loc'[h])
    BY <2>1 DEF Moving
  <2>8. pc[h] \notin {"loop", "mail", "decline_agreement"}
    BY <1>1
  <2> QED  BY <1>1, <2>1, <2>5, <2>6, <2>7, <2>8, StillUnderway
<1>9. ASSUME ~AllFinished, Return(h),
             ~(/\ loc[h].order = "SEQUENTIAL"
               /\ TierOf(Active(Live), loc[h].step) \subseteq Signed(Live)
               /\ Remaining(loc[h].step) # {})
      PROVE  Underway'
  <2>1. pc'[h] = "idle" /\ loc'[h] = NoLocals /\ OthersStay(h)
    BY <1>9, MovesOne DEF Return, Goto
  <2>2. PICK w \in Active(Rcpt) : row[w].st # "SIGNED"
    BY <1>1, <1>9 DEF AllFinished, Signed, Active
  <2>3. ASSUME \A r \in Active(Rcpt) : row[r].st # "SIGNED" => ~Reached(r),
               \A g \in Handlers \ {h} : pc[g] # "decline_agreement"
        PROVE  FALSE
    <3>1. \A r \in Active(Rcpt) : row[r].st # "SIGNED" => r \in Rcpt /\ Waits(r)
      BY <2>3 DEF Underway, Active, Waits
    <3>2. Waits(w) /\ w \in Rcpt
      BY <2>2, <3>1
    <3>3. loc[h].order = "SEQUENTIAL" /\ Remaining(loc[h].step) # {}
      BY <1>3, <1>5, <1>6, <3>2 DEF Beyond
    <3>4. PICK q \in TierOf(Active(Rcpt), loc[h].step) : row[q].st # "SIGNED"
      BY <1>1, <1>9, <3>3 DEF Signed, TierOf, Active
    <3>5. Waits(q) /\ q \in Rcpt /\ row[q].tier = loc[h].step
      BY <3>1, <3>4 DEF TierOf
    <3> QED  BY <1>4, <1>5, <3>5
  <2>4. \/ \E r \in Active(Rcpt) : row[r].st # "SIGNED" /\ Reached(r)
        \/ \E g \in Handlers \ {h} : Moving(pc[g], loc[g])
    BY <2>3 DEF Moving
  <2>5. Placed(pc[h], loc[h])' /\ \A r \in Rcpt : Below(pc[h], loc[h], r)'
    BY <2>1 DEF Placed, Below
  <2>6. pc[h] \notin {"loop", "mail", "decline_agreement"}
    BY <1>1
  <2> QED  BY <1>1, <2>1, <2>4, <2>5, <2>6, StillUnderway
<1> QED  BY <1>7, <1>8, <1>9 DEF SignEvaluate

\* The other steps of a handler in place.
LEMMA ContinueUnderway ==
    ASSUME Typed, Typed', Underway, NEW h \in Handlers, Continue(h),
           pc[h] \notin {"send_delete", "send_commit"}, agr'.status = "SENT"
    PROVE  Underway'
<1> USE DEF Typed
<1>1. loc[h] \in Locals /\ Fits(pc[h], loc[h]) /\ agr \in AgreementRow /\ Live = Rcpt
  BY AllLive DEF HandlersOK, RowsOK, Underway
<1>2. ASSUME UNCHANGED <<row, held>>, agr'.step = agr.step, agr'.order = agr.order,
             pc[h] \in Plain \ {"decline_agreement"} \/ (pc[h] = "loop" /\ loc[h].rs = {}),
             Return(h)
      PROVE  Underway'
  <2>1. pc'[h] = "idle" /\ OthersStay(h)
    BY <1>2, MovesOne DEF Return, Goto
  <2>2. pc'[h] \in Plain
    BY <2>1 DEF Plain, PCs
  <2> QED  BY <1>2, <2>1, <2>2, PlainUnderway
<1>3. CASE StatusWrite(h)
  BY <1>1, <1>3 DEF StatusWrite, AgreementRow, Fits
<1>4. CASE DeleteWrite(h)
  <2>1. agr'.step = agr.step /\ agr'.order = agr.order /\ pc[h] \in Plain \ {"decline_agreement"}
    BY <1>1, <1>4 DEF DeleteWrite, AgreementRow, Plain, PCs
  <2> QED  BY <1>2, <1>4, <2>1 DEF DeleteWrite
<1>5. CASE LoopEnd(h)
  <2>1. loc[h].rs = {} /\ pc[h] = "loop"
    BY <1>1, <1>5 DEF LoopEnd, Locals
  <2> QED  BY <1>2, <1>5, <2>1 DEF LoopEnd
<1>6. CASE SignPublish(h)
  <2>1. /\ pc[h] = "sign_publish" /\ pc'[h] = "sign_evaluate" /\ loc'[h] = loc[h]
        /\ OthersStay(h) /\ UNCHANGED <<agr, row, held>>
    BY <1>6 DEF SignPublish, Goto, HandlersOK, OthersStay
  <2>2. Placed(pc[h], loc[h]) /\ \A r \in Rcpt : Waits(r) => Below(pc[h], loc[h], r)
    BY DEF Underway, Beyond
  <2>3. Placed(pc[h], loc[h])'
    BY <2>1, <2>2 DEF Placed
  <2>4. \A r \in Rcpt : Waits(r) => Below(pc[h], loc[h], r)'
    BY <2>1, <2>2 DEF Below
  <2>5. Moving(pc'[h], loc'[h])
    BY <2>1 DEF Moving
  <2>6. pc[h] \notin {"loop", "mail", "decline_agreement"}
    BY <2>1
  <2> QED  BY <2>1, <2>3, <2>4, <2>5, <2>6, StillUnderway
<1>7. CASE SignComplete(h) \/ DeclineAgreement(h) \/ CancelStatus(h)
  BY <1>1, <1>7 DEF SignComplete, DeclineAgreement, CancelStatus, AgreementRow
<1>8. CASE SignSeal(h)
  <2>1. /\ pc[h] = "sign_seal" /\ pc' = [pc EXCEPT ![h] = "sign_notify"]
        /\ UNCHANGED <<row, held>>
    BY <1>8 DEF SignSeal, Goto
  <2>2. agr'.step = agr.step /\ agr'.order = agr.order
    BY <1>1, <1>8 DEF SignSeal, AgreementRow
  <2>3. \A g \in Handlers \ {h} : loc'[g] = loc[g]
    BY <1>8 DEF SignSeal, HandlersOK
  <2>4. pc'[h] = "sign_notify" /\ OthersStay(h)
    BY <2>1, <2>3 DEF HandlersOK, OthersStay
  <2>5. pc[h] \in Plain \ {"decline_agreement"} /\ pc'[h] \in Plain
    BY <2>1, <2>4 DEF Plain, PCs
  <2> QED  BY <2>1, <2>2, <2>4, <2>5, PlainUnderway
<1>9. CASE SignNotify(h) \/ DeclinePublish(h)
  <2>1. pc[h] \in Plain \ {"decline_agreement"} /\ UNCHANGED <<agr, row, held>> /\ Return(h)
    BY <1>9 DEF SignNotify, DeclinePublish, Plain, PCs
  <2> QED  BY <1>2, <2>1
<1>10. CASE CancelTokens(h)
  <2>1. \A q \in Rcpt : /\ row'[q].st = row[q].st
                        /\ row'[q].tok = row[q].tok /\ row'[q].tier = row[q].tier
    BY <1>10 DEF CancelTokens, RowsOK, RecipientRow
  <2>2. pc'[h] = "idle" /\ OthersStay(h) /\ UNCHANGED <<agr, held>> /\ pc[h] = "cancel_tokens"
    BY <1>10, MovesOne DEF CancelTokens, Return, Goto
  <2>3. pc[h] \in Plain \ {"decline_agreement"} /\ pc'[h] \in Plain
    BY <2>2 DEF Plain, PCs
  <2> QED  BY <2>1, <2>2, <2>3, PlainUnderway
<1>11. CASE SendDelete(h) \/ SendCommit(h)
  BY <1>11 DEF SendDelete, SendCommit
<1> QED  BY <1>3, <1>4, <1>5, <1>6, <1>7, <1>8, <1>9, <1>10, <1>11, VisitUnderway,
            MailUnderway, AnswerUnderway, AdvanceUnderway, EvaluateUnderway DEF Continue

\* A request that is accepted while the list is under way.
LEMMA RequestUnderway ==
    ASSUME Typed, Typed', Underway, NEW h \in Handlers, Request(h), ~SendRead(h),
           agr.status = "SENT"
    PROVE  Underway'
<1> USE DEF Typed
<1>1. pc[h] = "idle" /\ UNCHANGED <<agr, row>> /\ Live = Rcpt
  BY RequestReads, AllLive DEF Underway
<1>2. ASSUME held' = held, NEW op, NEW p \in Plain, NEW l, Begin(h, op, p, l)
      PROVE  Underway'
  <2>1. pc'[h] = p /\ OthersStay(h)
    BY <1>2, MovesOne DEF Begin, Goto
  <2>2. pc[h] \in Plain \ {"decline_agreement"}
    BY <1>1 DEF Plain, PCs
  <2> QED  BY <1>1, <1>2, <2>1, <2>2, PlainUnderway
<1>3. ASSUME held' = held, NEW op, NEW l, Begin(h, op, "loop", l), Placed("loop", l),
             \A r \in Rcpt : Waits(r) => Below("loop", l, r)
      PROVE  Underway'
  <2>1. pc'[h] = "loop" /\ loc'[h] = l /\ OthersStay(h)
    BY <1>3, MovesOne DEF Begin, Goto
  <2>2. Placed(pc[h], loc[h])' /\ \A r \in Rcpt : Waits(r) => Below(pc[h], loc[h], r)'
    BY <1>1, <1>3, <2>1 DEF Placed, Below
  <2>3. pc[h] \notin {"loop", "mail", "decline_agreement"} /\ ~Moving(pc[h], loc[h])
    BY <1>1 DEF Moving
  <2> QED  BY <1>1, <1>3, <2>1, <2>2, <2>3, StillUnderway
<1>4. CASE SubmitForReview(h) \/ RetractReview(h) \/ ApproveAgreement(h)
             \/ RejectAgreement(h) \/ ActivateAgreement(h) \/ ExpireAgreement(h)
  <2>1. "status_write" \in Plain
    BY DEF Plain, PCs
  <2> QED  BY <1>2, <1>4, <2>1 DEF SubmitForReview, RetractReview, ApproveAgreement,
              RejectAgreement, ActivateAgreement, ExpireAgreement, StatusRead
<1>5. CASE DeleteRead(h) \/ CancelRead(h)
  <2>1. "delete_write" \in Plain /\ "cancel_status" \in Plain
    BY DEF Plain, PCs
  <2> QED  BY <1>2, <1>5, <2>1 DEF DeleteRead, CancelRead
  \* Loops address the current tier, which lies below whoever waits.
<1>6. ASSUME NEW rs \in SUBSET Pending, NEW k \in {"remind", "session", "warn"}, NEW op,
             held' = held, Begin(h, op, "loop", [NoLocals EXCEPT !.kind = k, !.rs = rs])
      PROVE  Underway'
  <2> DEFINE l == [NoLocals EXCEPT !.kind = k, !.rs = rs]
  <2>1. l.kind = k /\ l.rs = rs
    BY DEF NoLocals
  <2> HIDE DEF l
  <2>2. Placed("loop", l)
    BY <1>6, <2>1 DEF Placed
  <2>3. ASSUME NEW r \in Rcpt, Waits(r)
        PROVE  Below("loop", l, r)
    <3>1. Beyond(r)
      BY <2>3 DEF Underway
    <3> QED  BY <1>6, <2>1, <3>1 DEF Beyond, Below, Pending
  <2> QED  BY <1>3, <1>6, <2>1, <2>2, <2>3 DEF l
<1>7. CASE SendManualReminder(h)
  <2>1. PICK rs \in {Pending} \cup {{r} : r \in Pending} :
               Begin(h, "sendManualReminder", "loop", [NoLocals EXCEPT !.kind = "remind", !.rs = rs])
    BY <1>7 DEF SendManualReminder
  <2>2. rs \subseteq Pending /\ held' = held
    BY <1>7 DEF SendManualReminder
  <2> QED  BY <1>6, <2>1, <2>2
<1>8. CASE ExpiryWarning(h)
  <2>1. Begin(h, "expiryWarning", "loop", [NoLocals EXCEPT !.kind = "warn", !.rs = Pending])
        /\ held' = held
    BY <1>8 DEF ExpiryWarning
  <2> QED  BY <1>6, <2>1
<1>9. CASE CreateSignerSession(h)
  <2>1. PICK r \in Pending :
          Begin(h, "createSignerSession", "loop", [NoLocals EXCEPT !.kind = "session", !.rs = {r}])
    BY <1>9 DEF CreateSignerSession
  <2>2. {r} \subseteq Pending /\ held' = held
    BY <1>9 DEF CreateSignerSession
  <2> QED  BY <1>6, <2>1, <2>2
<1>10. CASE SignRead(h)
  <2>1. PICK r \in Live :
         /\ held[r]
         /\ Begin(h, "submitRecipientSignature", "sign_write",
                  [NoLocals EXCEPT !.rcp = r, !.order = agr.order, !.step = agr.step,
                                   !.vtok = agr.vtok, !.pdf = agr.pdf])
    BY <1>10 DEF SignRead
  <2> DEFINE l == [NoLocals EXCEPT !.rcp = r, !.order = agr.order, !.step = agr.step,
                                   !.vtok = agr.vtok, !.pdf = agr.pdf]
  <2>2. l.rcp = r /\ l.order = agr.order /\ l.step = agr.step /\ held' = held
        /\ "sign_write" \in PCs
    BY <1>10 DEF NoLocals, PCs, SignRead
  <2>3. Begin(h, "submitRecipientSignature", "sign_write", l)
    BY <2>1
  <2> HIDE DEF l
  <2>4. Placed("sign_write", l)
    BY <2>1, <2>2 DEF Placed, Reached
  <2>5. \A q \in Rcpt : Waits(q) => Below("sign_write", l, q)
    BY <2>2 DEF Underway, Beyond, Below
  <2>6. pc'[h] = "sign_write" /\ loc'[h] = l /\ OthersStay(h)
    BY <2>3, MovesOne DEF Begin, Goto
  <2>7. Placed(pc[h], loc[h])'
    BY <1>1, <2>1, <2>2, <2>6 DEF Placed, Reached
  <2>8. \A q \in Rcpt : Waits(q) => Below(pc[h], loc[h], q)'
    BY <1>1, <2>5, <2>6 DEF Below
  <2>9. pc[h] \notin {"loop", "mail", "decline_agreement"} /\ ~Moving(pc[h], loc[h])
    BY <1>1 DEF Moving
  <2> QED  BY <1>1, <2>2, <2>6, <2>7, <2>8, <2>9, StillUnderway
<1>11. CASE DeclineRead(h)
  <2>1. PICK r \in Live :
         /\ held[r]
         /\ Begin(h, "declineRecipientSignature", "decline_row", [NoLocals EXCEPT !.rcp = r])
    BY <1>11 DEF DeclineRead
  <2>2. pc'[h] = "decline_row" /\ loc'[h].rcp = r /\ OthersStay(h) /\ held' = held
    <3> DEFINE l == [NoLocals EXCEPT !.rcp = r]
    <3>1. l.rcp = r /\ Begin(h, "declineRecipientSignature", "decline_row", l)
      BY <2>1 DEF NoLocals
    <3>2. held' = held
      BY <1>11 DEF DeclineRead
    <3> HIDE DEF l
    <3> QED  BY <3>1, <3>2, MovesOne DEF Begin, Goto
  <2>3. Placed(pc[h], loc[h])' /\ \A q \in Rcpt : Below(pc[h], loc[h], q)'
    BY <2>1, <2>2 DEF Placed, Reached, Below
  <2>4. pc[h] \notin {"loop", "mail", "decline_agreement"} /\ ~Moving(pc[h], loc[h])
    BY <1>1 DEF Moving
  <2> QED  BY <1>1, <2>2, <2>3, <2>4, StillUnderway
<1> QED  BY <1>4, <1>5, <1>7, <1>8, <1>9, <1>10, <1>11 DEF Request

\* The first tier of a list has somebody to await.
FirstTierSigns ==
    \E s \in Slots : Role[s] \in {"signer", "approver"} /\ Tier[s] = 1

\* A send sets out to reach its first tier; the others lie beyond it.
LEMMA CommitUnderway ==
    ASSUME MaxGen = 1, FirstTierSigns, Typed, Typed', Unsent, NEW h \in Handlers,
           \A g \in Sending : g = h, SendCommit(h)
    PROVE  Underway'
<1> USE DEF Typed
<1>1. pc[h] = "send_commit" /\ loc[h].gen = 1 /\ loc[h].order \in {"SEQUENTIAL", "PARALLEL"}
  BY DEF SendCommit, HandlersOK, Fits, Locals
<1>2. Created(h) = Rcpt
  BY <1>1 DEF Created, Rcpt
<1>3. \A r \in Rcpt : /\ row'[r].st = "PENDING" /\ row'[r].tok = 1
                      /\ row'[r].tier = CreatedTier(h, r) /\ ~held'[r]
  BY <1>2 DEF SendCommit, Unsent
<1>4. agr'.step = 1 /\ agr'.order = loc[h].order
  BY DEF SendCommit, RowsOK, AgreementRow
<1>5. /\ pc'[h] = "loop" /\ loc'[h].kind = "send" /\ loc'[h].rs = FirstInvited(h)
      /\ OthersStay(h)
  <2> DEFINE l == [NoLocals EXCEPT !.kind = "send", !.rs = FirstInvited(h)]
  <2>1. l.kind = "send" /\ l.rs = FirstInvited(h)
    BY DEF NoLocals
  <2>2. pc' = [pc EXCEPT ![h] = "loop"] /\ loc' = [loc EXCEPT ![h] = l]
    BY DEF SendCommit, Goto
  <2> HIDE DEF l
  <2> QED  BY <2>1, <2>2, MovesOne
<1>6. \A g \in Handlers \ {h} : pc'[g] \in {"idle", "status_write", "delete_write",
                                             "cancel_status", "cancel_tokens"}
  BY <1>5 DEF Unsent, RowFree, Sending, OthersStay
<1>7. \A r \in FirstInvited(h) : Reached(r)'
  <2>1. \A r \in FirstInvited(h) : Coming(h, r)'
    BY <1>2, <1>3, <1>5 DEF Coming, FirstInvited
  <2> QED  BY <2>1 DEF Reached
<1>8. \A g \in Handlers : Placed(pc[g], loc[g])'
  BY <1>5, <1>6 DEF Placed
<1>9. ASSUME NEW r \in Rcpt, Waits(r)'
      PROVE  Beyond(r)'
  <2>1. CreatedTier(h, r) # 1
    BY <1>2, <1>7, <1>9 DEF Waits, FirstInvited
  <2>2. loc[h].order = "SEQUENTIAL" /\ 1 < CreatedTier(h, r)
    <3>1. r[2] \in Slots /\ Tier[r[2]] \in Nat \ {0}
      BY TierAssumption DEF Rcpt
    <3> QED  BY <1>1, <2>1, <3>1 DEF CreatedTier
  <2>3. \A g \in Handlers : Below(pc[g], loc[g], r)'
    <3>1. Below(pc[h], loc[h], r)'
      BY <1>2, <1>3, <1>5, <2>2 DEF Below, FirstInvited
    <3> QED  BY <1>6, <3>1 DEF Below
  <2> QED  BY <1>3, <1>4, <2>2, <2>3 DEF Beyond
<1>10. Progress'
  <2>1. PICK s \in Slots : Role[s] \in {"signer", "approver"} /\ Tier[s] = 1
    BY DEF FirstTierSigns
  <2>2. <<1, s>> \in Active(Rcpt) /\ <<1, s>> \in Rcpt
    BY <2>1 DEF Active, Rcpt
  <2>3. <<1, s>> \in FirstInvited(h)
    BY <1>2, <2>1, <2>2 DEF FirstInvited, CreatedTier
  <2> QED  BY <1>3, <1>7, <2>2, <2>3 DEF Progress
<1>11. \A r \in Rcpt : row'[r].st \notin {"NONE", "DECLINED"}
  BY <1>3
<1>12. \A r \in Active(Rcpt) : row'[r].st = "PENDING"
  BY <1>3 DEF Active
<1> QED  BY <1>8, <1>9, <1>10, <1>11, <1>12 DEF Underway

\* Where requests and other steps lead, and that only a send counts one.
LEMMA RequestPlaces ==
    ASSUME NEW h \in Handlers, Request(h), ~SendRead(h)
    PROVE  /\ gens' = gens
           /\ \E p \in PCs \ {"send_delete", "send_commit"} : pc' = [pc EXCEPT ![h] = p]
<1> USE DEF Begin, Goto, PCs
<1>1. CASE SubmitForReview(h) \/ RetractReview(h) \/ ApproveAgreement(h)
             \/ RejectAgreement(h) \/ ActivateAgreement(h) \/ ExpireAgreement(h)
  BY <1>1 DEF SubmitForReview, RetractReview, ApproveAgreement,
     RejectAgreement, ActivateAgreement, ExpireAgreement, StatusRead
<1>2. CASE DeleteRead(h) \/ CancelRead(h) \/ ExpiryWarning(h)
  BY <1>2 DEF DeleteRead, CancelRead, ExpiryWarning
<1>3. CASE SendManualReminder(h)
  BY <1>3 DEF SendManualReminder
<1>4. CASE CreateSignerSession(h)
  BY <1>4 DEF CreateSignerSession
<1>5. CASE SignRead(h) \/ DeclineRead(h)
  BY <1>5 DEF SignRead, DeclineRead
<1> QED  BY <1>1, <1>2, <1>3, <1>4, <1>5 DEF Request

LEMMA ContinuePlaces ==
    ASSUME NEW h \in Handlers, Continue(h), ~SendDelete(h), ~SendCommit(h)
    PROVE  /\ gens' = gens /\ pc[h] \notin {"send_delete", "send_commit", "idle"}
           /\ \E p \in PCs \ {"send_delete", "send_commit"} : pc' = [pc EXCEPT ![h] = p]
<1> USE DEF Return, Goto, PCs
<1>1. CASE StatusWrite(h) \/ DeleteWrite(h) \/ CancelStatus(h) \/ CancelTokens(h)
  BY <1>1 DEF StatusWrite, DeleteWrite, CancelStatus, CancelTokens
<1>2. CASE LoopVisit(h)
  BY <1>2 DEF LoopVisit
<1>3. CASE LoopMail(h) \/ LoopEnd(h)
  BY <1>3 DEF LoopMail, LoopEnd
<1>4. CASE SignWrite(h) \/ DeclineRow(h)
  BY <1>4 DEF SignWrite, DeclineRow, UpdateRecipient
<1>5. CASE SignPublish(h) \/ SignAdvance(h)
  BY <1>5 DEF SignPublish, SignAdvance
<1>6. CASE SignEvaluate(h)
  BY <1>6 DEF SignEvaluate
<1>7. CASE SignComplete(h) \/ SignSeal(h) \/ SignNotify(h)
  BY <1>7 DEF SignComplete, SignSeal, SignNotify
<1>8. CASE DeclineAgreement(h) \/ DeclinePublish(h)
  BY <1>8 DEF DeclineAgreement, DeclinePublish
<1> QED  BY <1>1, <1>2, <1>3, <1>4, <1>5, <1>6, <1>7, <1>8 DEF Continue

\* Moving a handler outside a send leaves the sending ones as they are.
LEMMA SendersStay ==
    ASSUME HandlersOK, NEW h \in Handlers, pc[h] \notin {"send_delete", "send_commit"},
           NEW p \in PCs \ {"send_delete", "send_commit"}, pc' = [pc EXCEPT ![h] = p]
    PROVE  Sending' = Sending
BY DEF Sending, HandlersOK

\* Before the list is committed, handlers write statuses only.
LEMMA UnsentStays ==
    ASSUME Typed, Typed', Unsent, NEW h \in Handlers, Request(h) \/ Continue(h), ~SendCommit(h)
    PROVE  Unsent'
<1> USE DEF Typed
<1>1. Live = {} /\ agr \in AgreementRow /\ pc[h] \in RowFree /\ Fits(pc[h], loc[h])
  BY DEF Unsent, Live, HandlersOK, RowsOK
<1>2. ASSUME NEW p \in RowFree, pc' = [pc EXCEPT ![h] = p], UNCHANGED <<row, held>>,
             agr'.status # "SENT"
      PROVE  Unsent'
  BY <1>2 DEF Unsent, HandlersOK
<1>3. ASSUME Request(h)
      PROVE  Unsent'
  <2> USE DEF RowFree, Begin, Goto
  <2>1. CASE SubmitForReview(h) \/ RetractReview(h) \/ ApproveAgreement(h)
               \/ RejectAgreement(h) \/ ActivateAgreement(h) \/ ExpireAgreement(h)
    BY <1>2, <2>1 DEF SubmitForReview, RetractReview, ApproveAgreement,
       RejectAgreement, ActivateAgreement, ExpireAgreement, StatusRead, Unsent
  <2>2. CASE DeleteRead(h) \/ CancelRead(h)
    BY <1>2, <2>2 DEF DeleteRead, CancelRead, Unsent
  <2>3. CASE SendRead(h)
    BY <1>2, <2>3 DEF SendRead, Unsent
  <2>4. CASE SendManualReminder(h) \/ ExpiryWarning(h) \/ CreateSignerSession(h)
    BY <2>4 DEF SendManualReminder, ExpiryWarning, CreateSignerSession, Unsent
  <2>5. CASE SignRead(h) \/ DeclineRead(h)
    BY <1>1, <2>5 DEF SignRead, DeclineRead
  <2> QED  BY <1>3, <2>1, <2>2, <2>3, <2>4, <2>5 DEF Request
<1>4. ASSUME Continue(h)
      PROVE  Unsent'
  <2> USE DEF RowFree, Return, Goto
  <2>1. CASE StatusWrite(h)
    BY <1>1, <1>2, <2>1 DEF StatusWrite, AgreementRow, Fits
  <2>2. CASE DeleteWrite(h)
    <3>1. agr'.status = agr.status
      BY <1>1, <2>2 DEF DeleteWrite, AgreementRow
    <3> QED  BY <1>2, <2>2, <3>1 DEF DeleteWrite, Unsent
  <2>3. CASE SendDelete(h)
    BY <1>2, <2>3 DEF SendDelete, Unsent
  <2>4. CASE CancelStatus(h)
    BY <1>1, <1>2, <2>4 DEF CancelStatus, AgreementRow
  <2>5. CASE CancelTokens(h)
    <3>1. row' = row
      BY <1>1, <2>5 DEF CancelTokens, RowsOK
    <3> QED  BY <1>2, <2>5, <3>1 DEF CancelTokens, Unsent
  <2>6. CASE LoopVisit(h) \/ LoopMail(h) \/ LoopEnd(h)
    BY <1>1, <2>6 DEF LoopVisit, LoopMail, LoopEnd
  <2>7. CASE SignWrite(h) \/ SignPublish(h) \/ SignEvaluate(h) \/ SignAdvance(h)
               \/ SignComplete(h) \/ SignSeal(h) \/ SignNotify(h)
    BY <1>1, <2>7 DEF SignWrite, SignPublish, SignEvaluate, SignAdvance, SignComplete,
       SignSeal, SignNotify
  <2>8. CASE DeclineRow(h) \/ DeclineAgreement(h) \/ DeclinePublish(h)
    BY <1>1, <2>8 DEF DeclineRow, DeclineAgreement, DeclinePublish
  <2> QED  BY <1>4, <2>1, <2>2, <2>3, <2>4, <2>5, <2>6, <2>7, <2>8 DEF Continue
<1> QED  BY <1>3, <1>4

\* Only DeclineAgreement and the like take a list out of SENT, and only the
\* commit of a send brings one there.
LEMMA SentBefore ==
    ASSUME Typed, NEW h \in Handlers, Request(h) \/ Continue(h), ~SendCommit(h),
           agr'.status = "SENT"
    PROVE  agr.status = "SENT"
<1>1. agr \in AgreementRow /\ Fits(pc[h], loc[h])
  BY DEF Typed, HandlersOK, RowsOK
<1>2. CASE Request(h)
  BY <1>2, RequestReads
<1>3. CASE StatusWrite(h) \/ CancelStatus(h) \/ DeclineAgreement(h) \/ SignComplete(h)
  BY <1>1, <1>3 DEF StatusWrite, CancelStatus, DeclineAgreement, SignComplete,
     AgreementRow, Fits
<1>4. CASE DeleteWrite(h) \/ SignAdvance(h) \/ SignSeal(h)
  BY <1>1, <1>4 DEF DeleteWrite, SignAdvance, SignSeal, AgreementRow
<1>5. CASE \/ SendDelete(h) \/ CancelTokens(h)
           \/ LoopVisit(h) \/ LoopMail(h) \/ LoopEnd(h)
           \/ SignWrite(h) \/ SignPublish(h) \/ SignEvaluate(h) \/ SignNotify(h)
           \/ DeclineRow(h) \/ DeclinePublish(h)
  BY <1>5 DEF SendDelete, CancelTokens, LoopVisit, LoopMail, LoopEnd, SignWrite,
     SignPublish, SignEvaluate, SignNotify, DeclineRow, DeclinePublish
<1> QED  BY <1>2, <1>3, <1>4, <1>5 DEF Continue

LEMMA StepOneList ==
    ASSUME Faults = FALSE, MaxGen = 1, FirstTierSigns, Typed, Typed', OneList, [Next]_vars
    PROVE  OneList'
<1> USE DEF Typed
<1>1. CASE UNCHANGED vars
  BY <1>1 DEF vars, OneList, Before, Sending, Unsent, Underway, Placed, Reached, Carrying,
     Coming, Waits, Beyond, Below, Progress, Moving, Active
<1>2. ASSUME NEW h \in Handlers, Request(h) \/ Continue(h)
      PROVE  OneList'
  <2>0. gens \in Nat /\ HandlersOK
    BY DEF RowsOK
  <2>1. CASE SendRead(h)
    <3>1. gens = 0 /\ gens' = 1 /\ pc' = [pc EXCEPT ![h] = "send_delete"]
      BY <2>0, <2>1 DEF SendRead, Begin, Goto
    <3>2. Sending = {} /\ Unsent
      BY <3>1 DEF OneList, Before
    <3>3. Sending' = {h}
      BY <2>0, <3>1, <3>2 DEF Sending, HandlersOK
    <3>4. ~SendCommit(h)
      BY <2>1 DEF SendRead, Begin, SendCommit
    <3>5. Unsent'
      BY <1>2, <3>2, <3>4, UnsentStays
    <3> QED  BY <3>1, <3>3, <3>5 DEF OneList, Before
  <2>2. CASE SendDelete(h)
    <3>1. gens' = gens /\ pc[h] = "send_delete" /\ pc' = [pc EXCEPT ![h] = "send_commit"]
      BY <2>2 DEF SendDelete, Goto
    <3>2. Sending' = Sending /\ h \in Sending
      BY <2>0, <3>1 DEF Sending, HandlersOK
    <3>3. Unsent /\ ~SendCommit(h)
      BY <3>1, <3>2 DEF OneList, Before, SendCommit
    <3>4. Unsent'
      BY <1>2, <3>3, UnsentStays
    <3> QED  BY <3>1, <3>2, <3>4 DEF OneList, Before
  <2>3. CASE SendCommit(h)
    <3>1. gens' = gens /\ pc[h] = "send_commit" /\ pc' = [pc EXCEPT ![h] = "loop"]
      BY <2>3 DEF SendCommit, Goto
    <3>2. h \in Sending /\ gens = 1 /\ Unsent /\ \A g \in Sending : g = h
      BY <3>1 DEF Sending, OneList, Before
    <3>3. Sending' = {}
      BY <2>0, <3>1, <3>2 DEF Sending, HandlersOK
    <3>4. Underway'
      BY <2>3, <3>2, CommitUnderway
    <3> QED  BY <3>1, <3>2, <3>3, <3>4 DEF OneList, Before
  <2>4. CASE ~SendRead(h) /\ ~SendDelete(h) /\ ~SendCommit(h)
    <3>1. gens' = gens /\ Sending' = Sending
      <4>1. CASE Request(h)
        <5>1. pc[h] = "idle"
          BY <4>1, RequestReads
        <5> QED  BY <2>0, <2>4, <4>1, <5>1, RequestPlaces, SendersStay
      <4>2. CASE Continue(h)
        BY <2>0, <2>4, <4>2, ContinuePlaces, SendersStay
      <4> QED  BY <1>2, <4>1, <4>2
    <3>2. Before' = Before
      BY <3>1 DEF Before
    <3>3. Before => Unsent'
      BY <1>2, <2>4, UnsentStays DEF OneList
    <3>4. ASSUME ~Before, agr'.status = "SENT"
          PROVE  Underway'
      <4>1. Underway /\ agr.status = "SENT"
        BY <1>2, <2>4, <3>4, SentBefore DEF OneList
      <4>2. CASE Request(h)
        BY <2>4, <4>1, <4>2, RequestUnderway
      <4>3. CASE Continue(h)
        <5>1. pc[h] \notin {"send_delete", "send_commit"}
          BY <2>4, <4>3, ContinuePlaces
        <5> QED  BY <3>4, <4>1, <4>3, <5>1, ContinueUnderway
      <4> QED  BY <1>2, <4>2, <4>3
    <3> QED  BY <3>1, <3>2, <3>3, <3>4 DEF OneList
  <2> QED  BY <2>1, <2>2, <2>3, <2>4
<1> QED  BY <1>1, <1>2 DEF Next, Abort

LEMMA InitOneList == Init => OneList
<1> SUFFICES ASSUME Init PROVE OneList
  OBVIOUS
<1>1. Unsent /\ Sending = {} /\ gens = 0
  BY DEF Init, Unsent, RowFree, NoRow, Sending
<1> QED  BY <1>1 DEF OneList, Before

\* Nobody is stranded: while an agreement that is sent once, to a list whose
\* first tier has somebody to await, is out for signature and no handler is
\* under way, somebody awaited holds a working link and so does whoever is
\* awaited no later; for any number of concurrent submissions, reminders,
\* warnings, sessions, declines, cancellations and expiries that run to
\* their ends.
THEOREM NobodyIsStranded ==
    ASSUME Faults = FALSE, MaxGen = 1, FirstTierSigns
    PROVE  Spec => []SomeoneCanSign
<1>1. Typed /\ OneList => SomeoneCanSign
  <2> SUFFICES ASSUME Typed, OneList, agr.status = "SENT", Quiet, ~AllSigned
               PROVE  \E r \in Active(Live) \ Signed(Live) :
                        \A q \in Active(Live) \ Signed(Live) :
                          row[q].tier <= row[r].tier => held[q]
    BY DEF SomeoneCanSign
  <2>1. Underway /\ Live = Rcpt
    <3>1. Underway
      BY DEF OneList, Unsent
    <3> QED  BY <3>1, AllLive DEF Underway
  <2>2. \A r \in Rcpt : Reached(r) => held[r]
    BY DEF Quiet, Reached, Carrying, Coming
  <2>3. \A h \in Handlers : ~Moving(pc[h], loc[h]) /\ pc[h] # "decline_agreement"
    BY DEF Quiet, Moving
  <2>4. \A r \in Active(Rcpt) : r \in Rcpt /\ row[r].tier \in Nat
    BY DEF Active, Typed, RowsOK, RecipientRow
  <2>5. PICK w \in Active(Rcpt) : row[w].st # "SIGNED"
    BY <2>1 DEF AllSigned, Signed, Active
  <2>6. PICK r \in Active(Rcpt) : row[r].st # "SIGNED" /\ held[r]
    BY <2>1, <2>2, <2>3, <2>4, <2>5 DEF Underway, Progress
  <2>7. ASSUME NEW q \in Active(Rcpt), row[q].st # "SIGNED", row[q].tier <= row[r].tier
        PROVE  held[q]
    <3>1. CASE row[q].st # "PENDING"
      BY <2>1, <2>2, <2>4, <3>1 DEF Underway
    <3>2. CASE Waits(q)
      <4>1. row[r].tier < row[q].tier
        BY <2>1, <2>4, <2>6, <3>2 DEF Underway, Beyond
      <4> QED  BY <2>4, <2>7, <4>1
    <3>3. CASE row[q].st = "PENDING" /\ ~Waits(q)
      BY <2>2, <2>4, <3>3 DEF Waits
    <3> QED  BY <3>1, <3>2, <3>3
  <2>8. r \in Active(Live) \ Signed(Live)
    BY <2>1, <2>6 DEF Signed
  <2>9. \A q \in Active(Live) \ Signed(Live) : q \in Active(Rcpt) /\ row[q].st # "SIGNED"
    BY <2>1 DEF Signed, Active
  <2> QED  BY <2>7, <2>8, <2>9
<1>2. Typed /\ Typed' /\ OneList /\ [Next]_vars => OneList'
  BY StepOneList
<1> QED  BY <1>1, <1>2, InitOneList, AlwaysTyped, PTL DEF Spec
=============================================================================
