------------------------------- MODULE Accounts -------------------------------
(***************************************************************************)
(* Accounts, their email addresses, and the links AuthService mails to     *)
(* them: registration, verification, password reset and change of email,   *)
(* with the accounts that invitations create and the ones that end.        *)
(*                                                                         *)
(* Nothing here runs in a transaction.  One action is a database write or  *)
(* a mail, with the reads before it; a request that has read something and *)
(* writes later keeps it in loc.  An account of another organisation may   *)
(* have the same email: the table is unique in organisation and email, and *)
(* every registration founds an organisation.  Passwords, names and time   *)
(* zones are left out, and so are sessions, which module Sessions models.  *)
(***************************************************************************)
EXTENDS Naturals, Sequences

CONSTANTS
    Rows,       \* accounts that may come to exist
    Emails,
    NoEmail,    \* the email of a row that does not exist
    Requests,   \* requests in flight at once
    MaxLinks,   \* bound: links
    MaxReqs,    \* bound: requests
    Faults      \* TRUE: a mail, or the database, may fail

ASSUME NoEmailAssumption == NoEmail \notin Emails
ASSUME BoundsAssumption == MaxLinks \in Nat /\ MaxReqs \in Nat
ASSUME FaultsAssumption == Faults \in BOOLEAN

VARIABLES
    account,    \* users
    link,       \* the links made so far, with their fate
    last,       \* history: the link of each kind mailed last to each account
    pc, loc,    \* where each request is, and what it knows
    overlap,    \* history: accounts, or emails, two requests have overlapped on
    failed,     \* history: accounts for which a mail or a request has failed
    moved,      \* history: accounts whose email has changed
    left        \* bound: requests still to come

vars == <<account, link, last, pc, loc, overlap, failed, moved, left>>

tables  == <<account, link, last>>
history == <<overlap, failed, moved, left>>

----------------------------------------------------------------------------
(* Rows and links *)

Kinds == {"verify", "reset", "change"}

\* org: the organisation that the registration of this row founded, or the
\* one that invited it; token: the link whose hash the row holds, by kind.
Account == [st : {"none", "pending_verification", "active", "suspended", "deleted"},
            email : Emails \cup {NoEmail}, org : Rows, verified : BOOLEAN, gone : BOOLEAN,
            pending : SUBSET Emails, token : [Kinds -> 0 .. MaxLinks]]

\* st: not mailed, in the mailbox, or never to arrive; proof: an invitation
\* or a link that has been opened, and so an address that is read.
Link == [kind : Kinds, row : Rows, to : Emails, st : {"new", "mailed", "lost"},
         old : BOOLEAN, opened : BOOLEAN]

NoTokens == [kind \in Kinds |-> 0]

NoAccount(x) == [st |-> "none", email |-> NoEmail, org |-> x,
                 verified |-> FALSE, gone |-> FALSE, pending |-> {}, token |-> NoTokens]

NewLink(kind, x, e) ==
    [kind |-> kind, row |-> x, to |-> e, st |-> "new", old |-> FALSE, opened |-> FALSE]

\* row and email: what the request is about; k: the link it has made or opened.
Locals == [row : SUBSET Rows, email : SUBSET Emails, kind : Kinds, k : 0 .. MaxLinks]

NoLocals == [row |-> {}, email |-> {}, kind |-> "verify", k |-> 0]

PCs == {"idle", "create", "join", "write", "mail", "mail_first", "open"}

Init ==
    /\ account = [x \in Rows |-> NoAccount(x)]
    /\ link = <<>>
    /\ last = [x \in Rows |-> NoTokens]
    /\ pc = [r \in Requests |-> "idle"]
    /\ loc = [r \in Requests |-> NoLocals]
    /\ overlap = {} /\ failed = {} /\ moved = {} /\ left = MaxReqs

----------------------------------------------------------------------------
(* Requests *)

Move(r, label, l) ==
    /\ pc' = [pc EXCEPT ![r] = label]
    /\ loc' = [loc EXCEPT ![r] = l]

Return(r) == Move(r, "idle", NoLocals)

\* A request that touches these accounts and emails, to go on at a label.
Begin(r, label, l) ==
    /\ pc[r] = "idle" /\ left > 0
    /\ left' = left - 1
    /\ overlap' = overlap \cup
         UNION {(loc[q].row \cap l.row) \cup (loc[q].email \cap l.email) : q \in Requests \ {r}}
    /\ Move(r, label, l)
    /\ UNCHANGED <<failed, moved>>

At(r, label) == pc[r] = label

Live(x) == account[x].st # "none" /\ ~account[x].gone

\* Fault: an address counts once it has been verified.
FoundVerified(e) == {x \in Rows : Live(x) /\ account[x].email = e /\ account[x].verified}

\* findUserByEmail.  The default organisation it falls back to has no accounts.
Found(e) == {x \in Rows : Live(x) /\ account[x].email = e}

\* acceptInvitation looks for any account with the address, ended ones included.
Known(e) == {x \in Rows : account[x].st # "none" /\ account[x].email = e}

\* The unique index on organisation and email.
Clash(x, org, e) ==
    \E y \in Rows \ {x} : account[y].st # "none" /\ account[y].org = org /\ account[y].email = e

\* A new link of a kind, to an address.
Make(kind, x, e) ==
    /\ Len(link) < MaxLinks
    /\ link' = Append(link, NewLink(kind, x, e))

----------------------------------------------------------------------------
(* Registration, and accounts made by an invitation *)

RegisterRead(r, e) ==
    /\ Found(e) = {}
    /\ Begin(r, "create", [NoLocals EXCEPT !.email = {e}])
    /\ UNCHANGED tables

\* The account, its organisation, and the first verification link.
RegisterCreate(r) ==
    /\ At(r, "create")
    /\ \E x \in Rows, e \in loc[r].email :
         /\ account[x].st = "none"
         /\ Make("verify", x, e)
         /\ account' = [account EXCEPT ![x] = [NoAccount(x) EXCEPT
                !.st = "pending_verification", !.email = e, !.token["verify"] = Len(link')]]
         /\ Move(r, "mail", [loc[r] EXCEPT !.row = {x}, !.k = Len(link')])
    /\ UNCHANGED <<last, history>>

\* acceptInvitation for an address without an account, into the organisation
\* of another account; the invitation was mailed to that address.
AcceptRead(r, host, e) ==
    /\ account[host].st # "none" /\ Known(e) = {}
    /\ Begin(r, "join", [NoLocals EXCEPT !.email = {e}, !.row = {host}])
    /\ UNCHANGED tables

AcceptCreate(r) ==
    /\ At(r, "join")
    /\ \E x \in Rows, host \in loc[r].row, e \in loc[r].email :
         /\ account[x].st = "none" /\ Len(link) < MaxLinks
         /\ ~Clash(x, account[host].org, e)
         /\ link' = Append(link, [NewLink("verify", x, e) EXCEPT !.opened = TRUE])
         /\ account' = [account EXCEPT ![x] = [NoAccount(x) EXCEPT !.st = "active",
                !.email = e, !.org = account[host].org, !.verified = TRUE]]
    /\ Return(r)
    /\ UNCHANGED <<last, history>>

----------------------------------------------------------------------------
(* Asking for a link: resend, requestPasswordReset, updateProfile *)

AskRead(r, e, kind) ==
    /\ kind \in {"verify", "reset"}
    /\ \E x \in Found(e) :
         /\ kind = "verify" => ~account[x].verified
         /\ Begin(r, "write", [NoLocals EXCEPT !.row = {x}, !.email = {e}, !.kind = kind])
    /\ UNCHANGED tables

\* Fault: a link that is still good is not replaced, and the new one is mailed.
AskWriteOnce(r) ==
    /\ At(r, "write") /\ loc[r].kind # "change"
    /\ \E x \in loc[r].row, e \in loc[r].email :
         /\ Make(loc[r].kind, x, e)
         /\ account' = IF account[x].token[loc[r].kind] # 0 THEN account
                       ELSE [account EXCEPT ![x].token[loc[r].kind] = Len(link')]
    /\ Move(r, "mail", [loc[r] EXCEPT !.k = Len(link')])
    /\ UNCHANGED <<last, history>>

AskWrite(r) ==
    /\ At(r, "write") /\ loc[r].kind # "change"
    /\ \E x \in loc[r].row, e \in loc[r].email :
         /\ Make(loc[r].kind, x, e)
         /\ account' = [account EXCEPT ![x].token[loc[r].kind] = Len(link')]
    /\ Move(r, "mail", [loc[r] EXCEPT !.k = Len(link')])
    /\ UNCHANGED <<last, history>>

\* A failed mail is logged and forgotten.
SendMail(r) ==
    LET k == loc[r].k
    IN  /\ At(r, "mail") \/ At(r, "mail_first")
        /\ \/ /\ link' = [link EXCEPT ![k].st = "mailed"]
              /\ last' = [last EXCEPT ![link[k].row][link[k].kind] = k]
              /\ UNCHANGED failed
           \/ /\ Faults
              /\ link' = [link EXCEPT ![k].st = "lost"]
              /\ failed' = failed \cup {link[k].row}
              /\ UNCHANGED last
        /\ IF At(r, "mail") THEN Return(r) ELSE Move(r, "write", loc[r])
        /\ UNCHANGED <<account, overlap, moved, left>>

\* Whoever is verified may have a session.  The address must be free in the
\* organisation, and the link to it is mailed before the row is written.
ChangeRead(r, x, e) ==
    /\ Live(x) /\ account[x].verified
    /\ e # account[x].email /\ ~Clash(x, account[x].org, e)
    /\ Make("change", x, e)
    /\ Begin(r, "mail_first", [NoLocals EXCEPT !.row = {x}, !.email = {e}, !.kind = "change",
                                               !.k = Len(link')])
    /\ UNCHANGED <<account, last>>

ChangeWrite(r) ==
    /\ At(r, "write") /\ loc[r].kind = "change"
    /\ \E x \in loc[r].row :
         account' = [account EXCEPT ![x].pending = loc[r].email,
                                    ![x].token["change"] = loc[r].k]
    /\ Return(r)
    /\ UNCHANGED <<link, last, history>>

----------------------------------------------------------------------------
(* Opening a link: verifyEmail, resetPassword and verifyEmailChange *)

\* Fault: an account that is gone is found as well.
OpensGone(k) ==
    LET u == account[link[k].row]
    IN  /\ link[k].st = "mailed" /\ ~link[k].old
        /\ u.token[link[k].kind] = k
        /\ link[k].kind = "verify" => ~u.verified

\* The link finds its account by the hash of its token.
Opens(k) ==
    LET u == account[link[k].row]
    IN  /\ link[k].st = "mailed" /\ ~link[k].old
        /\ u.token[link[k].kind] = k /\ ~u.gone
        /\ link[k].kind = "verify" => ~u.verified

OpenRead(r, k) ==
    /\ Opens(k)
    /\ Begin(r, "open", [row |-> {link[k].row}, kind |-> link[k].kind, k |-> k,
                         email |-> IF link[k].kind = "change"
                                   THEN account[link[k].row].pending ELSE {}])
    /\ UNCHANGED tables

\* Fault: a status that nothing else knows.
VerifyWriteOdd(r) ==
    /\ At(r, "open") /\ loc[r].kind = "verify"
    /\ \E x \in loc[r].row :
         account' = [account EXCEPT ![x] = [@ EXCEPT !.verified = TRUE, !.st = "verified",
                                                     !.token["verify"] = 0]]
    /\ link' = [link EXCEPT ![loc[r].k].opened = TRUE]
    /\ Return(r)
    /\ UNCHANGED <<last, history>>

VerifyWrite(r) ==
    /\ At(r, "open") /\ loc[r].kind = "verify"
    /\ \E x \in loc[r].row :
         account' = [account EXCEPT ![x] = [@ EXCEPT !.verified = TRUE, !.st = "active",
                                                     !.token["verify"] = 0]]
    /\ link' = [link EXCEPT ![loc[r].k].opened = TRUE]
    /\ Return(r)
    /\ UNCHANGED <<last, history>>

ResetWrite(r) ==
    /\ At(r, "open") /\ loc[r].kind = "reset"
    /\ \E x \in loc[r].row : account' = [account EXCEPT ![x].token["reset"] = 0]
    /\ link' = [link EXCEPT ![loc[r].k].opened = TRUE]
    /\ Return(r)
    /\ UNCHANGED <<last, history>>

\* Fault: the pending email is taken from the row as it is now.
MoveWriteNow(r) ==
    /\ At(r, "open") /\ loc[r].kind = "change"
    /\ \E x \in loc[r].row : \E e \in account[x].pending :
         /\ ~Clash(x, account[x].org, e)
         /\ account' = [account EXCEPT ![x].email = e, ![x].pending = {},
                                       ![x].token["change"] = 0]
         /\ moved' = moved \cup {x}
    /\ link' = [link EXCEPT ![loc[r].k].opened = TRUE]
    /\ Return(r)
    /\ UNCHANGED <<last, overlap, failed, left>>

\* The email that was pending when the link was looked up.
MoveWrite(r) ==
    /\ At(r, "open") /\ loc[r].kind = "change"
    /\ \E x \in loc[r].row, e \in loc[r].email :
         /\ ~Clash(x, account[x].org, e)
         /\ account' = [account EXCEPT ![x].email = e, ![x].pending = {},
                                       ![x].token["change"] = 0]
         /\ moved' = moved \cup {x}
    /\ link' = [link EXCEPT ![loc[r].k].opened = TRUE]
    /\ Return(r)
    /\ UNCHANGED <<last, overlap, failed, left>>

----------------------------------------------------------------------------
(* The end of an account, administrators, and the specification *)

\* deleteAccount, of a user with a session, forgets two tokens; removeMember none.
End(x) ==
    /\ left > 0 /\ left' = left - 1
    /\ Live(x)
    /\ \/ /\ account[x].verified
          /\ account' = [account EXCEPT ![x] = [@ EXCEPT
                !.st = "deleted", !.gone = TRUE, !.token["verify"] = 0, !.token["reset"] = 0]]
       \/ account' = [account EXCEPT ![x].st = "suspended", ![x].gone = TRUE]
    /\ overlap' = overlap \cup UNION {loc[q].row \cap {x} : q \in Requests}
    /\ UNCHANGED <<link, last, pc, loc, failed, moved>>

\* updateMemberStatus, of any account of the organisation, ended or not; the
\* status it has already changes nothing.
SetStatus(x, st) ==
    /\ left > 0 /\ left' = left - 1
    /\ account[x].st \notin {"none", st}
    /\ account' = [account EXCEPT ![x].st = st]
    /\ UNCHANGED <<link, last, pc, loc, overlap, failed, moved>>

\* superAdminAssignAdmin, of any account, into the organisation of another.
Assign(x, host) ==
    /\ left > 0 /\ left' = left - 1
    /\ account[x].st # "none" /\ account[host].st # "none"
    /\ ~Clash(x, account[host].org, account[x].email)
    /\ account' = [account EXCEPT ![x] = [@ EXCEPT !.st = "active", !.org = account[host].org]]
    /\ UNCHANGED <<link, last, pc, loc, overlap, failed, moved>>

\* What an administrator may do about an account that has ended.
Reinstate(x) == SetStatus(x, "active") \/ \E host \in Rows : Assign(x, host)

Expire(k) ==
    /\ link[k].st = "mailed" /\ ~link[k].old /\ ~link[k].opened
    /\ link' = [link EXCEPT ![k].old = TRUE]
    /\ UNCHANGED <<account, last, pc, loc, history>>

\* A statement throws: the index refuses the row, or the database is away.
Abort(r) ==
    /\ pc[r] # "idle"
    /\ \/ Faults
       \/ /\ At(r, "join")
          /\ \E h \in loc[r].row, e \in loc[r].email :
               \E x \in Rows : account[x].st = "none" /\ Clash(x, account[h].org, e)
       \/ /\ At(r, "open") /\ loc[r].kind = "change"
          /\ \E x \in loc[r].row, e \in loc[r].email : Clash(x, account[x].org, e)
    /\ failed' = failed \cup loc[r].row
    /\ Return(r)
    /\ UNCHANGED <<tables, overlap, moved, left>>

Next ==
    \/ \E r \in Requests, e \in Emails :
         \/ RegisterRead(r, e)
         \/ \E x \in Rows : AcceptRead(r, x, e) \/ ChangeRead(r, x, e)
         \/ \E kind \in Kinds : AskRead(r, e, kind)
    \/ \E r \in Requests, k \in DOMAIN link : OpenRead(r, k)
    \/ \E r \in Requests :
         \/ RegisterCreate(r) \/ AcceptCreate(r) \/ AskWrite(r) \/ SendMail(r)
         \/ ChangeWrite(r) \/ VerifyWrite(r) \/ ResetWrite(r) \/ MoveWrite(r) \/ Abort(r)
    \/ \E x \in Rows : End(x) \/ Reinstate(x) \/ SetStatus(x, "suspended")
    \/ \E k \in DOMAIN link : Expire(k)

Spec == Init /\ [][Next]_vars

----------------------------------------------------------------------------
(* Properties *)

\* Rows, links, locals and history have the types of schema and code.
TypeOK ==
    /\ account \in [Rows -> Account]
    /\ link \in Seq(Link) /\ Len(link) <= MaxLinks
    /\ last \in [Rows -> [Kinds -> 0 .. MaxLinks]]
    /\ pc \in [Requests -> PCs] /\ loc \in [Requests -> Locals]
    /\ overlap \subseteq Rows \cup Emails
    /\ failed \subseteq Rows /\ moved \subseteq Rows /\ left \in 0 .. MaxReqs

\* A verified account's address has been read by its owner: a link mailed to
\* this very address was opened, however verifications and changes of email
\* overlap (verifyEmailChange writes the email its token was looked up with).
AddressProven ==
    \A x \in Rows : account[x].verified =>
      \E k \in DOMAIN link : link[k].opened /\ link[k].row = x /\ link[k].to = account[x].email

\* Of each kind, the link that reached the mailbox last is the one that works,
\* until it is opened or expires, unless requests for the account overlapped,
\* or a mail or a write has failed (resend, reset and change each replace it).
NewestLinkWorks ==
    \A x \in Rows, kind \in Kinds :
      LET k == last[x][kind]
      IN  /\ k # 0 /\ Live(x) /\ x \notin overlap \cup failed
          /\ ~link[k].opened /\ ~link[k].old
          /\ \A r \in Requests : x \notin loc[r].row
          => Opens(k) \/ (kind = "verify" /\ account[x].verified)

\* Two live accounts have the same address only if requests about it overlapped
\* or one of them moved to it (register and acceptInvitation look before they create).
OneAccountEach ==
    \A x, y \in Rows :
      x # y /\ Live(x) /\ Live(y) /\ account[x].email = account[y].email
        => {x, y} \cap moved # {} \/ account[x].email \in overlap

\* The links of an account do not outlive it: one that has ended keeps address and
\* verification, and becomes active again only by an administrator, unless a link
\* was being opened while it ended (verifyEmail, resetPassword and verifyEmailChange
\* ignore accounts that are gone, whose tokens deleteAccount clears in part).
EndedUntouched ==
    [][\A x \in Rows : account[x].gone /\ x \notin overlap =>
         /\ account'[x].email = account[x].email /\ account'[x].verified = account[x].verified
         /\ account[x].st # "active" /\ account'[x].st = "active" => Reinstate(x)]_vars
=============================================================================
