------------------------------- MODULE Sessions -------------------------------
(***************************************************************************)
(* One account's sessions: signing in with and without a second factor,    *)
(* setting the factor up, signing out, and the checks that requests pass:  *)
(* each, that its token has not been revoked (jwtAuth, apiAuth), and those *)
(* of the routes that ask for it, that the organisation is not suspended   *)
(* (enforceTenantActiveStatus, which keeps each answer for a minute in the *)
(* memory of its isolate).                                                 *)
(*                                                                         *)
(* One action is one read or write of the database, or what happens        *)
(* between two without waiting.  Passwords are right, codes are those of   *)
(* a secret the owner's device has; wrong ones change nothing but the log. *)
(***************************************************************************)
EXTENDS Naturals

CONSTANTS
    Isolates,   \* Worker isolates, each with a memory of its own
    Tokens,     \* session tokens that may be signed
    Secrets,    \* TOTP secrets that may be drawn
    None,       \* no secret
    Requests,   \* requests in flight at once
    TTL,        \* STATUS_CACHE_TTL_MS, in ticks
    MaxTime,    \* bound: the clock
    MaxReqs,    \* bound: requests
    Faults      \* TRUE: a database call may throw

ASSUME NoneAssumption == None \notin Secrets
ASSUME TTLAssumption == TTL \in Nat \ {0}
ASSUME BoundsAssumption == MaxTime \in Nat /\ MaxReqs \in Nat
ASSUME FaultsAssumption == Faults \in BOOLEAN

VARIABLES
    user,       \* the account's row
    held,       \* secrets on the owner's device
    ticket,     \* whether a sign-in waits for a code
    token,      \* each token: not signed yet, good, or expired
    revoked,    \* revoked_access_tokens
    org,        \* the organisation's status
    cache,      \* orgStatusCache of each isolate
    clock,
    pc, loc,    \* where each request is, and what it knows
    out,        \* history: tokens that a logout found, and answered "Signed out successfully"
    lost,       \* history: tokens whose revocation, or look-up, failed
    proven,     \* history: secrets a code of which has been entered
    since,      \* history: when the organisation was suspended last
    left        \* bound: requests still to come

vars == <<user, held, ticket, token, revoked, org, cache, clock, pc, loc,
          out, lost, proven, since, left>>

account == <<user, held, ticket, token, proven>>
tenant  == <<org, cache, clock, since>>

----------------------------------------------------------------------------
(* State *)

\* strange: MFA was enabled by enableMfa, with a secret that is shown to nobody.
User == [active : BOOLEAN, gone : BOOLEAN, mfa : BOOLEAN, strange : BOOLEAN,
         secret : Secrets \cup {None}, pending : Secrets \cup {None}]

NoFactor == [active |-> TRUE, gone |-> FALSE, mfa |-> FALSE, strange |-> FALSE,
             secret |-> None, pending |-> None]

\* st: the status remembered, if any.
Cached == [st : {"none", "active", "suspended"}, until : 0 .. MaxTime + TTL]

NotCached == [st |-> "none", until |-> 0]

\* t: the token found; was: its holder had been signed out before; secret;
\* at: the isolate; now: when its status check began; seen: the status read;
\* blind: it could not be; open: the route does not ask for it.
Locals == [t : SUBSET Tokens, was : BOOLEAN, secret : Secrets \cup {None}, at : Isolates,
           now : 0 .. MaxTime, seen : {"none", "active", "suspended"}, blind : BOOLEAN,
           open : BOOLEAN]

PCs == {"idle", "sign", "show", "enable", "revoke", "signed_out", "tenant", "org_read",
        "org_set", "admitted"}

NoLocals(i) == [t |-> {}, was |-> FALSE, secret |-> None, at |-> i, now |-> 0,
                seen |-> "none", blind |-> FALSE, open |-> FALSE]

Init ==
    /\ \/ user = NoFactor /\ held = {}
       \/ \E s \in Secrets : /\ user = [NoFactor EXCEPT !.mfa = TRUE, !.secret = s]
                             /\ held = {s}
    /\ proven = held /\ ticket = FALSE
    /\ token = [t \in Tokens |-> "none"]
    /\ revoked = {}
    /\ org = "active"
    /\ cache = [i \in Isolates |-> NotCached] /\ clock = 0
    /\ pc = [r \in Requests |-> "idle"]
    /\ loc \in [Requests -> {NoLocals(i) : i \in Isolates}]
    /\ out = {} /\ lost = {} /\ since = 0 /\ left = MaxReqs

----------------------------------------------------------------------------
(* Requests *)

Begin(r) == pc[r] = "idle" /\ left > 0 /\ left' = left - 1

At(r, label) == pc[r] = label /\ UNCHANGED left

Move(r, label, l) ==
    /\ pc' = [pc EXCEPT ![r] = label]
    /\ loc' = [loc EXCEPT ![r] = l]

Goto(r, label) == Move(r, label, loc[r])

Return(r) == \E i \in Isolates : Move(r, "idle", NoLocals(i))

\* A session that jwtAuth lets pass.
SignedIn == \E t \in Tokens : token[t] = "good" /\ (t \in revoked => Faults)

Fresh == {s \in Secrets : s # user.secret /\ s # user.pending /\ s \notin held \cup proven}

----------------------------------------------------------------------------
(* Signing in: login and loginWithMfa *)

\* With MFA, or where the organisation asks for it, the answer is a ticket.
Login(r) ==
    /\ Begin(r)
    /\ user.active /\ ~user.gone
    /\ \/ ticket' = TRUE /\ UNCHANGED <<pc, loc>>
       \/ ~user.mfa /\ Move(r, "sign", loc[r]) /\ UNCHANGED ticket
    /\ UNCHANGED <<user, held, token, proven, revoked, tenant, out, lost>>

\* Tickets of either kind are taken; the status is not looked at again.
LoginCode(r) ==
    /\ Begin(r)
    /\ ticket /\ ~user.gone /\ user.mfa /\ user.secret \in held
    /\ Move(r, "sign", loc[r])
    /\ UNCHANGED <<account, revoked, tenant, out, lost>>

Sign(r) ==
    /\ At(r, "sign")
    /\ \E t \in Tokens : token[t] = "none" /\ token' = [token EXCEPT ![t] = "good"]
    /\ Return(r)
    /\ UNCHANGED <<user, held, ticket, proven, revoked, tenant, out, lost>>

----------------------------------------------------------------------------
(* The second factor: setupMfa, verifySetupMfa, enableMfa and disableMfa *)

SetupWrite(r) ==
    /\ Begin(r)
    /\ SignedIn /\ ~user.gone
    /\ \E s \in Fresh : /\ user' = [user EXCEPT !.pending = s]
                        /\ Move(r, "show", [loc[r] EXCEPT !.secret = s])
    /\ UNCHANGED <<held, ticket, token, proven, revoked, tenant, out, lost>>

\* The answer reaches the device.
SetupShow(r) ==
    /\ At(r, "show")
    /\ held' = held \cup {loc[r].secret}
    /\ Return(r)
    /\ UNCHANGED <<user, ticket, token, proven, revoked, tenant, out, lost>>

VerifySetup(r) ==
    /\ Begin(r)
    /\ SignedIn /\ ~user.gone /\ user.pending \in held
    /\ proven' = proven \cup {user.pending}
    /\ Move(r, "enable", [loc[r] EXCEPT !.secret = user.pending])
    /\ UNCHANGED <<user, held, ticket, token, revoked, tenant, out, lost>>

\* Fault: the pending secret is moved over as it is now.
EnableWriteNow(r) ==
    /\ At(r, "enable")
    /\ user' = [user EXCEPT !.mfa = TRUE, !.strange = FALSE, !.secret = user.pending,
                            !.pending = None]
    /\ Return(r)
    /\ UNCHANGED <<held, ticket, token, proven, revoked, tenant, out, lost>>

\* The secret that the code was checked with.
EnableWrite(r) ==
    /\ At(r, "enable")
    /\ user' = [user EXCEPT !.mfa = TRUE, !.strange = FALSE, !.secret = loc[r].secret,
                            !.pending = None]
    /\ Return(r)
    /\ UNCHANGED <<held, ticket, token, proven, revoked, tenant, out, lost>>

EnableMfa(r) ==
    /\ Begin(r)
    /\ SignedIn
    /\ \E s \in Fresh : user' = [user EXCEPT !.mfa = TRUE, !.secret = s, !.strange = TRUE]
    /\ UNCHANGED <<held, ticket, token, proven, revoked, tenant, pc, loc, out, lost>>

DisableMfa(r) ==
    /\ Begin(r)
    /\ SignedIn
    /\ user' = [user EXCEPT !.mfa = FALSE, !.secret = None, !.pending = None, !.strange = FALSE]
    /\ UNCHANGED <<held, ticket, token, proven, revoked, tenant, pc, loc, out, lost>>

----------------------------------------------------------------------------
(* Signing out *)

\* The token is looked for in the header and in one cookie, and in neither
\* place where jwtAuth finds it as well: the query and the other cookie.
Logout(r, t) ==
    /\ Begin(r)
    /\ token[t] = "good"
    /\ Move(r, "revoke", [loc[r] EXCEPT !.t = {t}])
    /\ UNCHANGED <<account, revoked, tenant, out, lost>>

\* A logout that carries none there revokes nothing, and is answered alike.
LogoutBlind(r) ==
    /\ Begin(r)
    /\ SignedIn
    /\ Goto(r, "signed_out")
    /\ UNCHANGED <<account, revoked, tenant, out, lost>>

\* Fault: the answer does not wait for the row.
RevokeLate(r) ==
    \/ /\ At(r, "revoke")
       /\ out' = out \cup loc[r].t
       /\ Goto(r, "signed_out")
       /\ UNCHANGED <<account, revoked, tenant, lost>>
    \/ /\ At(r, "signed_out")
       /\ revoked' = revoked \cup loc[r].t
       /\ Return(r)
       /\ UNCHANGED <<account, tenant, out, lost>>

\* A failure is taken for a token that is in the table already.
Revoke(r) ==
    \/ /\ At(r, "revoke")
       /\ \/ revoked' = revoked \cup loc[r].t /\ UNCHANGED lost
          \/ Faults /\ lost' = lost \cup loc[r].t /\ UNCHANGED revoked
       /\ Goto(r, "signed_out")
       /\ UNCHANGED <<account, tenant, out>>
    \/ /\ At(r, "signed_out")
       /\ out' = out \cup loc[r].t
       /\ Return(r)
       /\ UNCHANGED <<account, revoked, tenant, lost>>

----------------------------------------------------------------------------
(* The checks of every request *)

\* A look-up that fails lets the token pass.
Unrevoked(t) ==
    /\ token[t] = "good"
    /\ \/ t \notin revoked /\ UNCHANGED lost
       \/ Faults /\ lost' = lost \cup {t}

\* jwtAuth, before enforceTenantActiveStatus.
Authenticate(r, t) ==
    /\ Begin(r)
    /\ Unrevoked(t)
    /\ Move(r, "tenant", [loc[r] EXCEPT !.t = {t}, !.was = t \in out])
    /\ UNCHANGED <<account, revoked, tenant, out>>

\* apiAuth, and jwtAuth where nothing follows it: the status is not looked at.
AuthenticateOpen(r, t) ==
    /\ Begin(r)
    /\ Unrevoked(t)
    /\ Move(r, "admitted", [loc[r] EXCEPT !.t = {t}, !.was = t \in out, !.open = TRUE])
    /\ UNCHANGED <<account, revoked, tenant, out>>

\* An answer that is still good decides at once.
Tenant(r) ==
    LET c == cache[loc[r].at]
    IN  /\ At(r, "tenant")
        /\ \/ c.st # "none" /\ c.until > clock
              /\ IF c.st = "suspended" THEN Return(r)
                 ELSE Move(r, "admitted", [loc[r] EXCEPT !.now = clock])
           \/ ~(c.st # "none" /\ c.until > clock)
              /\ Move(r, "org_read", [loc[r] EXCEPT !.now = clock])
        /\ UNCHANGED <<account, revoked, tenant, out, lost>>

\* A database that is away lets every organisation pass.
OrgRead(r) ==
    /\ At(r, "org_read")
    /\ \/ Move(r, "org_set", [loc[r] EXCEPT !.seen = org])
       \/ Faults /\ Move(r, "admitted", [loc[r] EXCEPT !.blind = TRUE])
    /\ UNCHANGED <<account, revoked, tenant, out, lost>>

\* Fault: the minute starts when the answer arrives.
OrgSetLate(r) ==
    /\ At(r, "org_set")
    /\ cache' = [cache EXCEPT ![loc[r].at] = [st |-> loc[r].seen, until |-> clock + TTL]]
    /\ IF loc[r].seen = "suspended" THEN Return(r) ELSE Goto(r, "admitted")
    /\ UNCHANGED <<account, revoked, org, clock, since, out, lost>>

\* The minute starts when the check began.
OrgSet(r) ==
    /\ At(r, "org_set")
    /\ cache' = [cache EXCEPT ![loc[r].at] = [st |-> loc[r].seen, until |-> loc[r].now + TTL]]
    /\ IF loc[r].seen = "suspended" THEN Return(r) ELSE Goto(r, "admitted")
    /\ UNCHANGED <<account, revoked, org, clock, since, out, lost>>

Done(r) ==
    /\ At(r, "admitted")
    /\ Return(r)
    /\ UNCHANGED <<account, revoked, tenant, out, lost>>

----------------------------------------------------------------------------
(* The world, and the specification *)

\* An administrator suspends or removes the user, or the user goes.
UserEnds ==
    /\ \/ user.active /\ user' = [user EXCEPT !.active = FALSE]
       \/ ~user.gone /\ user' = [user EXCEPT !.gone = TRUE, !.active = FALSE]
    /\ UNCHANGED <<held, ticket, token, proven, revoked, tenant, pc, loc, out, lost, left>>

\* suspendOrganisation and restoreOrganisation.
SetOrgStatus ==
    /\ \/ org = "active" /\ org' = "suspended" /\ since' = clock
       \/ org = "suspended" /\ org' = "active" /\ UNCHANGED since
    /\ UNCHANGED <<account, revoked, cache, clock, pc, loc, out, lost, left>>

Tick ==
    /\ clock < MaxTime /\ clock' = clock + 1
    /\ UNCHANGED <<account, revoked, org, cache, since, pc, loc, out, lost, left>>

TicketExpires ==
    /\ ticket /\ ticket' = FALSE
    /\ UNCHANGED <<user, held, token, proven, revoked, tenant, pc, loc, out, lost, left>>

\* The answer, or the rest of the request, is lost.
Abort(r) ==
    /\ Faults
    /\ At(r, "sign") \/ At(r, "show") \/ At(r, "enable") \/ At(r, "revoke")
    /\ Return(r)
    /\ UNCHANGED <<account, revoked, tenant, out, lost>>

SignInSteps(r) == Login(r) \/ LoginCode(r) \/ Sign(r)

FactorSteps(r) ==
    SetupWrite(r) \/ SetupShow(r) \/ VerifySetup(r) \/ EnableWrite(r) \/ EnableMfa(r) \/ DisableMfa(r)

CheckSteps(r) == Tenant(r) \/ OrgRead(r) \/ OrgSet(r) \/ Done(r)

Next ==
    \/ \E r \in Requests :
         \/ SignInSteps(r) \/ FactorSteps(r) \/ CheckSteps(r) \/ Revoke(r) \/ Abort(r)
         \/ LogoutBlind(r)
         \/ \E t \in Tokens : Logout(r, t) \/ Authenticate(r, t) \/ AuthenticateOpen(r, t)
    \/ UserEnds \/ SetOrgStatus \/ Tick \/ TicketExpires

Spec == Init /\ [][Next]_vars

----------------------------------------------------------------------------
(* Properties *)

\* The variables have the types of schema and code.
TypeOK ==
    /\ user \in User /\ held \subseteq Secrets /\ ticket \in BOOLEAN
    /\ token \in [Tokens -> {"none", "good"}]
    /\ revoked \subseteq Tokens /\ out \subseteq Tokens /\ lost \subseteq Tokens
    /\ proven \subseteq Secrets
    /\ org \in {"active", "suspended"} /\ cache \in [Isolates -> Cached]
    /\ clock \in 0 .. MaxTime /\ since \in 0 .. MaxTime
    /\ pc \in [Requests -> PCs] /\ loc \in [Requests -> Locals]
    /\ left \in 0 .. MaxReqs

\* A token that a logout has found, and answered as signed out, opens nothing any
\* more, in whichever isolate and on whichever route it is presented, unless the
\* revocation could not be written or looked up (logout answers after revokeToken
\* has written).  A logout that finds no token promises the same and does nothing.
SignedOutStaysOut ==
    \A r \in Requests : pc[r] = "admitted" /\ loc[r].was => loc[r].t \subseteq lost

\* On the routes that ask for the status, a suspended organisation is served for
\* no longer than the cached answer is kept, however long the look-ups took:
\* orgStatusCache dates an answer by the time before the read.  A look-up that
\* fails is not held against it; the other routes serve it without end.
BlockedInTime ==
    \A r \in Requests :
      pc[r] = "admitted" /\ ~loc[r].open /\ ~loc[r].blind /\ org = "suspended"
        => loc[r].now < since + TTL

\* A second factor that was set up is one whose codes the owner can produce, in
\* whatever order two set-ups are started, shown and confirmed; only enableMfa
\* locks its user out.
FactorHeld == user.mfa /\ ~user.strange => user.secret \in held \cap proven
=============================================================================
