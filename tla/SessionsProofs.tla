---------------------------- MODULE SessionsProofs ----------------------------
(***************************************************************************)
(* SignedOutStaysOut, BlockedInTime and FactorHeld of Sessions for any     *)
(* tokens, secrets, isolates, requests and cache time, with or without     *)
(* faults.  Each is made inductive by saying the same of a request that is *)
(* still on its way: what it carries was true when it read it, and the     *)
(* history only grows.                                                     *)
(***************************************************************************)
EXTENDS Sessions, TLAPS

\* A token whose holder was told so is in the table, or its loss is on record;
\* a request that presented it after that shows in lost.
OutInv ==
    /\ out \subseteq revoked \cup lost
    /\ \A r \in Requests :
         /\ pc[r] = "signed_out" => loc[r].t \subseteq revoked \cup lost
         /\ pc[r] = "idle" => loc[r].t = {}
         /\ pc[r] \in {"tenant", "org_read", "org_set", "admitted"} /\ loc[r].was
              => loc[r].t \subseteq lost

\* What a request found, or a memory keeps, is no older than its date says.
TimeInv ==
    /\ since <= clock
    /\ \A i \in Isolates : cache[i].st = "active" =>
         cache[i].until <= clock + TTL /\ (org = "suspended" => cache[i].until <= since + TTL)
    /\ \A r \in Requests :
         /\ pc[r] \in {"org_read", "org_set"} => loc[r].now <= clock
         /\ pc[r] = "admitted" /\ ~loc[r].open => loc[r].now <= clock
         /\ pc[r] = "org_set" => loc[r].seen # "none"
         /\ pc[r] = "org_set" /\ loc[r].seen = "active" /\ org = "suspended"
              => loc[r].now <= since
    /\ BlockedInTime

\* A request that shows a secret has drawn one, and the secret that a request
\* is about to store was confirmed from the device.
FactorInv ==
    /\ FactorHeld
    /\ \A r \in Requests : /\ pc[r] = "enable" => loc[r].secret \in held \cap proven
                           /\ pc[r] = "show" => loc[r].secret \in Secrets

IInv == TypeOK /\ OutInv /\ TimeInv /\ FactorInv

----------------------------------------------------------------------------
(* Types *)

LEMMA LocalsTyped == \A i \in Isolates : NoLocals(i) \in Locals
  BY BoundsAssumption DEF NoLocals, Locals

\* What any step may do to request r alone.
LEMMA MoveTyped ==
  ASSUME TypeOK, NEW r \in Requests, NEW l \in Locals, NEW label \in PCs,
         Move(r, label, l)
  PROVE  pc' \in [Requests -> PCs] /\ loc' \in [Requests -> Locals]
  BY DEF TypeOK, Move

LEMMA GotoTyped ==
  ASSUME TypeOK, NEW r \in Requests, NEW label \in PCs, Goto(r, label)
  PROVE  pc' \in [Requests -> PCs] /\ loc' \in [Requests -> Locals]
  BY DEF TypeOK, Goto, Move

LEMMA ReturnTyped ==
  ASSUME TypeOK, NEW r \in Requests, Return(r)
  PROVE  pc' \in [Requests -> PCs] /\ loc' \in [Requests -> Locals]
  BY LocalsTyped DEF TypeOK, Return, Move, PCs

LEMMA BeginTyped ==
  ASSUME TypeOK, NEW r \in Requests, Begin(r)
  PROVE  left' \in 0 .. MaxReqs
  BY BoundsAssumption DEF TypeOK, Begin

\* Requests other than r stay where they are.
Others(r) == \A q \in Requests \ {r} : pc'[q] = pc[q] /\ loc'[q] = loc[q]

LEMMA MoveFacts ==
  ASSUME TypeOK, NEW r \in Requests, NEW label, NEW l, Move(r, label, l)
  PROVE  Others(r) /\ pc'[r] = label /\ loc'[r] = l
  BY DEF TypeOK, Move, Others

LEMMA ReturnFacts ==
  ASSUME TypeOK, NEW r \in Requests, Return(r)
  PROVE  Others(r) /\ pc'[r] = "idle" /\ \E i \in Isolates : loc'[r] = NoLocals(i)
  BY DEF TypeOK, Return, Move, Others

LEMMA SignInTyped ==
  ASSUME TypeOK, NEW r \in Requests, SignInSteps(r)
  PROVE  TypeOK'
<1>1. loc[r] \in Locals
  BY DEF TypeOK
<1>2. CASE Login(r)
  <2>1. left' \in 0 .. MaxReqs
    BY <1>2, BeginTyped DEF Login
  <2>2. pc' \in [Requests -> PCs] /\ loc' \in [Requests -> Locals]
    <3>1. CASE UNCHANGED <<pc, loc>>
      BY <3>1 DEF TypeOK
    <3>2. CASE Move(r, "sign", loc[r])
      BY <1>1, <3>2, MoveTyped DEF PCs
    <3>3. QED
      BY <1>2, <3>1, <3>2 DEF Login
  <2>3. QED
    BY <1>2, <2>1, <2>2 DEF TypeOK, Login, tenant
<1>3. CASE LoginCode(r)
  <2>1. left' \in 0 .. MaxReqs
    BY <1>3, BeginTyped DEF LoginCode
  <2>2. pc' \in [Requests -> PCs] /\ loc' \in [Requests -> Locals]
    BY <1>1, <1>3, MoveTyped DEF LoginCode, PCs
  <2>3. QED
    BY <1>3, <2>1, <2>2 DEF TypeOK, LoginCode, account, tenant
<1>4. CASE Sign(r)
  <2>1. pc' \in [Requests -> PCs] /\ loc' \in [Requests -> Locals]
    BY <1>4, ReturnTyped DEF Sign
  <2>2. QED
    BY <1>4, <2>1 DEF TypeOK, Sign, At, tenant
<1>5. QED
  BY <1>2, <1>3, <1>4 DEF SignInSteps

LEMMA FactorTyped ==
  ASSUME TypeOK, FactorInv, NEW r \in Requests, FactorSteps(r)
  PROVE  TypeOK'
<1>1. loc[r] \in Locals /\ user \in User
  BY DEF TypeOK
<1>2. Fresh \subseteq Secrets
  BY DEF Fresh
<1>3. CASE SetupWrite(r)
  <2>1. left' \in 0 .. MaxReqs
    BY <1>3, BeginTyped DEF SetupWrite
  <2>2. PICK s \in Secrets : /\ user' = [user EXCEPT !.pending = s]
                             /\ Move(r, "show", [loc[r] EXCEPT !.secret = s])
    BY <1>2, <1>3 DEF SetupWrite
  <2>3. [loc[r] EXCEPT !.secret = s] \in Locals
    BY <1>1 DEF Locals
  <2>4. pc' \in [Requests -> PCs] /\ loc' \in [Requests -> Locals]
    BY <2>2, <2>3, MoveTyped DEF PCs
  <2>5. user' \in User
    BY <1>1, <2>2 DEF User
  <2>6. QED
    BY <1>3, <2>1, <2>4, <2>5 DEF TypeOK, SetupWrite, tenant
<1>4. CASE SetupShow(r)
  <2>1. pc' \in [Requests -> PCs] /\ loc' \in [Requests -> Locals]
    BY <1>4, ReturnTyped DEF SetupShow
  <2>2. held' \subseteq Secrets
    BY <1>4 DEF TypeOK, FactorInv, SetupShow, At
  <2>3. QED
    BY <1>4, <2>1, <2>2 DEF TypeOK, SetupShow, At, tenant
<1>5. CASE VerifySetup(r)
  <2>1. left' \in 0 .. MaxReqs
    BY <1>5, BeginTyped DEF VerifySetup
  <2>2. user.pending \in Secrets
    BY <1>5 DEF TypeOK, VerifySetup
  <2>3. [loc[r] EXCEPT !.secret = user.pending] \in Locals
    BY <1>1, <2>2 DEF Locals
  <2>4. pc' \in [Requests -> PCs] /\ loc' \in [Requests -> Locals]
    BY <1>5, <2>3, MoveTyped DEF VerifySetup, PCs
  <2>5. QED
    BY <1>5, <2>1, <2>2, <2>4 DEF TypeOK, VerifySetup, tenant
<1>6. CASE EnableWrite(r)
  <2>1. pc' \in [Requests -> PCs] /\ loc' \in [Requests -> Locals]
    BY <1>6, ReturnTyped DEF EnableWrite
  <2>2. user' \in User
    BY <1>1, <1>6 DEF EnableWrite, User, Locals
  <2>3. QED
    BY <1>6, <2>1, <2>2 DEF TypeOK, EnableWrite, At, tenant
<1>7. CASE EnableMfa(r)
  <2>1. left' \in 0 .. MaxReqs
    BY <1>7, BeginTyped DEF EnableMfa
  <2>2. user' \in User
    BY <1>1, <1>2, <1>7 DEF EnableMfa, User
  <2>3. QED
    BY <1>7, <2>1, <2>2 DEF TypeOK, EnableMfa, tenant
<1>8. CASE DisableMfa(r)
  <2>1. left' \in 0 .. MaxReqs
    BY <1>8, BeginTyped DEF DisableMfa
  <2>2. user' \in User
    BY <1>1, <1>8 DEF DisableMfa, User
  <2>3. QED
    BY <1>8, <2>1, <2>2 DEF TypeOK, DisableMfa, tenant
<1>9. QED
  BY <1>3, <1>4, <1>5, <1>6, <1>7, <1>8 DEF FactorSteps

LEMMA CheckTyped ==
  ASSUME TypeOK, NEW r \in Requests, CheckSteps(r)
  PROVE  TypeOK'
<1>1. loc[r] \in Locals /\ clock \in 0 .. MaxTime
  BY DEF TypeOK
<1>2. CASE Tenant(r)
  <2>1. [loc[r] EXCEPT !.now = clock] \in Locals
    BY <1>1 DEF Locals
  <2>2. pc' \in [Requests -> PCs] /\ loc' \in [Requests -> Locals]
    <3>1. CASE Return(r)
      BY <3>1, ReturnTyped
    <3>2. CASE Move(r, "admitted", [loc[r] EXCEPT !.now = clock])
      BY <2>1, <3>2, MoveTyped DEF PCs
    <3>3. CASE Move(r, "org_read", [loc[r] EXCEPT !.now = clock])
      BY <2>1, <3>3, MoveTyped DEF PCs
    <3>4. QED
      BY <1>2, <3>1, <3>2, <3>3 DEF Tenant
  <2>3. QED
    BY <1>2, <2>2 DEF TypeOK, Tenant, At, account, tenant
<1>3. CASE OrgRead(r)
  <2>1. /\ [loc[r] EXCEPT !.seen = org] \in Locals
        /\ [loc[r] EXCEPT !.blind = TRUE] \in Locals
    BY <1>1 DEF TypeOK, Locals
  <2>2. pc' \in [Requests -> PCs] /\ loc' \in [Requests -> Locals]
    <3>1. CASE Move(r, "org_set", [loc[r] EXCEPT !.seen = org])
      BY <2>1, <3>1, MoveTyped DEF PCs
    <3>2. CASE Move(r, "admitted", [loc[r] EXCEPT !.blind = TRUE])
      BY <2>1, <3>2, MoveTyped DEF PCs
    <3>3. QED
      BY <1>3, <3>1, <3>2 DEF OrgRead
  <2>3. QED
    BY <1>3, <2>2 DEF TypeOK, OrgRead, At, account, tenant
<1>4. CASE OrgSet(r)
  <2>1. [st |-> loc[r].seen, until |-> loc[r].now + TTL] \in Cached
    BY <1>1, TTLAssumption, BoundsAssumption DEF Cached, Locals
  <2>2. cache' \in [Isolates -> Cached]
    BY <1>4, <2>1 DEF TypeOK, OrgSet
  <2>3. pc' \in [Requests -> PCs] /\ loc' \in [Requests -> Locals]
    BY <1>4, ReturnTyped, GotoTyped DEF OrgSet, PCs
  <2>4. QED
    BY <1>4, <2>2, <2>3 DEF TypeOK, OrgSet, At, account
<1>5. CASE Done(r)
  <2>1. pc' \in [Requests -> PCs] /\ loc' \in [Requests -> Locals]
    BY <1>5, ReturnTyped DEF Done
  <2>2. QED
    BY <1>5, <2>1 DEF TypeOK, Done, At, account, tenant
<1>6. QED
  BY <1>2, <1>3, <1>4, <1>5 DEF CheckSteps

LEMMA TokenTyped ==
  ASSUME TypeOK, NEW r \in Requests, NEW t \in Tokens,
         Logout(r, t) \/ Authenticate(r, t) \/ AuthenticateOpen(r, t)
  PROVE  TypeOK'
<1>1. loc[r] \in Locals
  BY DEF TypeOK
<1>2. CASE Logout(r, t)
  <2>1. left' \in 0 .. MaxReqs
    BY <1>2, BeginTyped DEF Logout
  <2>2. [loc[r] EXCEPT !.t = {t}] \in Locals
    BY <1>1 DEF Locals
  <2>3. pc' \in [Requests -> PCs] /\ loc' \in [Requests -> Locals]
    BY <1>2, <2>2, MoveTyped DEF Logout, PCs
  <2>4. QED
    BY <1>2, <2>1, <2>3 DEF TypeOK, Logout, account, tenant
<1>3. CASE Authenticate(r, t)
  <2>1. left' \in 0 .. MaxReqs
    BY <1>3, BeginTyped DEF Authenticate
  <2> DEFINE told == t \in out
  <2>2. [loc[r] EXCEPT !.t = {t}, !.was = told] \in Locals
    <3>1. told \in BOOLEAN
      OBVIOUS
    <3> HIDE DEF told
    <3>2. QED
      BY <1>1, <3>1 DEF Locals
  <2>3. pc' \in [Requests -> PCs] /\ loc' \in [Requests -> Locals]
    BY <1>3, <2>2, MoveTyped DEF Authenticate, PCs
  <2>4. QED
    BY <1>3, <2>1, <2>3 DEF TypeOK, Authenticate, Unrevoked, account, tenant
<1>4. CASE AuthenticateOpen(r, t)
  <2>1. left' \in 0 .. MaxReqs
    BY <1>4, BeginTyped DEF AuthenticateOpen
  <2> DEFINE told == t \in out
  <2>2. [loc[r] EXCEPT !.t = {t}, !.was = told, !.open = TRUE] \in Locals
    <3>1. told \in BOOLEAN
      OBVIOUS
    <3> HIDE DEF told
    <3>2. QED
      BY <1>1, <3>1 DEF Locals
  <2>3. pc' \in [Requests -> PCs] /\ loc' \in [Requests -> Locals]
    BY <1>4, <2>2, MoveTyped DEF AuthenticateOpen, PCs
  <2>4. QED
    BY <1>4, <2>1, <2>3 DEF TypeOK, AuthenticateOpen, Unrevoked, account, tenant
<1>5. QED
  BY <1>2, <1>3, <1>4

LEMMA SignOutTyped ==
  ASSUME TypeOK, NEW r \in Requests, Revoke(r) \/ Abort(r) \/ LogoutBlind(r)
  PROVE  TypeOK'
<1>1. loc[r] \in Locals
  BY DEF TypeOK
<1>2. CASE Revoke(r)
  <2>1. loc[r].t \subseteq Tokens
    BY <1>1 DEF Locals
  <2>2. CASE At(r, "revoke") /\ Goto(r, "signed_out")
    <3>1. pc' \in [Requests -> PCs] /\ loc' \in [Requests -> Locals]
      BY <2>2, GotoTyped DEF PCs
    <3>2. QED
      BY <1>2, <2>1, <2>2, <3>1 DEF TypeOK, Revoke, At, account, tenant
  <2>3. CASE At(r, "signed_out") /\ Return(r)
    <3>1. pc' \in [Requests -> PCs] /\ loc' \in [Requests -> Locals]
      BY <2>3, ReturnTyped
    <3>2. QED
      BY <1>2, <2>1, <2>3, <3>1 DEF TypeOK, Revoke, At, account, tenant
  <2>4. QED
    BY <1>2, <2>2, <2>3 DEF Revoke
<1>3. CASE Abort(r)
  <2>1. pc' \in [Requests -> PCs] /\ loc' \in [Requests -> Locals]
    BY <1>3, ReturnTyped DEF Abort
  <2>2. QED
    BY <1>3, <2>1 DEF TypeOK, Abort, At, account, tenant
<1>4. CASE LogoutBlind(r)
  <2>1. left' \in 0 .. MaxReqs
    BY <1>4, BeginTyped DEF LogoutBlind
  <2>2. pc' \in [Requests -> PCs] /\ loc' \in [Requests -> Locals]
    BY <1>4, GotoTyped DEF LogoutBlind, PCs
  <2>3. QED
    BY <1>4, <2>1, <2>2 DEF TypeOK, LogoutBlind, account, tenant
<1>5. QED
  BY <1>2, <1>3, <1>4

\* What the world does of its own.
World == UserEnds \/ SetOrgStatus \/ Tick \/ TicketExpires

LEMMA WorldTyped ==
  ASSUME TypeOK, World
  PROVE  TypeOK'
<1>1. CASE UserEnds
  BY <1>1 DEF TypeOK, UserEnds, User, tenant
<1>2. CASE SetOrgStatus
  BY <1>2 DEF TypeOK, SetOrgStatus, account
<1>3. CASE Tick
  BY <1>3, BoundsAssumption DEF TypeOK, Tick, account
<1>4. CASE TicketExpires
  BY <1>4 DEF TypeOK, TicketExpires, tenant
<1>5. QED
  BY <1>1, <1>2, <1>3, <1>4 DEF World

----------------------------------------------------------------------------
(* The three parts of the invariant *)

LEMMA OutStep ==
  ASSUME TypeOK, OutInv, [Next]_vars
  PROVE  OutInv'
<1> USE DEF OutInv, TypeOK
<1>1. CASE UNCHANGED vars
  BY <1>1 DEF vars
<1>2. CASE World
  BY <1>2 DEF World, UserEnds, SetOrgStatus, Tick, TicketExpires
<1>3. ASSUME NEW r \in Requests, SignInSteps(r) PROVE OutInv'
  BY <1>3 DEF SignInSteps, Login, LoginCode, Sign, Begin, At, Move, Return, NoLocals
<1>4. ASSUME NEW r \in Requests, FactorSteps(r) PROVE OutInv'
  <2>1. CASE SetupWrite(r)
    BY <2>1 DEF SetupWrite, Begin, Move
  <2>2. CASE SetupShow(r) \/ EnableWrite(r)
    BY <2>2 DEF SetupShow, EnableWrite, At, Move, Return, NoLocals
  <2>3. CASE VerifySetup(r)
    BY <2>3 DEF VerifySetup, Begin, Move
  <2>4. CASE EnableMfa(r) \/ DisableMfa(r)
    BY <2>4 DEF EnableMfa, DisableMfa
  <2>5. QED
    BY <1>4, <2>1, <2>2, <2>3, <2>4 DEF FactorSteps
<1>5. ASSUME NEW r \in Requests, CheckSteps(r) PROVE OutInv'
  <2>1. UNCHANGED <<out, revoked, lost>>
    BY <1>5 DEF CheckSteps, Tenant, OrgRead, OrgSet, Done
  <2>2. Others(r)
    BY <1>5, MoveFacts, ReturnFacts DEF CheckSteps, Tenant, OrgRead, OrgSet, Done, Goto
  <2>3. \/ pc'[r] = "idle" /\ loc'[r].t = {}
        \/ /\ pc'[r] # "idle"
           /\ pc[r] \in {"tenant", "org_read", "org_set", "admitted"}
           /\ pc'[r] # "signed_out"
           /\ loc'[r].t = loc[r].t /\ loc'[r].was = loc[r].was
    <3>1. CASE Return(r)
      <4>1. PICK i \in Isolates : loc'[r] = NoLocals(i)
        BY <3>1, ReturnFacts
      <4>2. pc'[r] = "idle" /\ loc'[r].t = {}
        BY <3>1, <4>1, ReturnFacts DEF NoLocals
      <4>3. QED
        BY <4>2
    <3>2. ASSUME NEW label \in {"org_read", "org_set", "admitted"}, NEW l \in Locals,
                 l.t = loc[r].t, l.was = loc[r].was, Move(r, label, l)
          PROVE  pc'[r] = label /\ loc'[r].t = loc[r].t /\ loc'[r].was = loc[r].was
      BY <3>2, MoveFacts
    <3>3. /\ loc[r] \in Locals
          /\ [loc[r] EXCEPT !.now = clock] \in Locals
          /\ [loc[r] EXCEPT !.seen = org] \in Locals
          /\ [loc[r] EXCEPT !.blind = TRUE] \in Locals
      BY DEF Locals
    <3>4. CASE Tenant(r)
      BY <3>1, <3>2, <3>3, <3>4 DEF Tenant, At, Locals
    <3>5. CASE OrgRead(r)
      BY <3>2, <3>3, <3>5 DEF OrgRead, At, Locals
    <3>6. CASE OrgSet(r)
      BY <3>1, <3>2, <3>3, <3>6 DEF OrgSet, At, Goto
    <3>7. CASE Done(r)
      BY <3>1, <3>7 DEF Done
    <3>8. QED
      BY <1>5, <3>4, <3>5, <3>6, <3>7 DEF CheckSteps
  <2>4. QED
    BY <2>1, <2>2, <2>3 DEF Others
<1>6. ASSUME NEW r \in Requests, Revoke(r) \/ Abort(r) PROVE OutInv'
  BY <1>6 DEF Revoke, Abort, At, Goto, Move, Return, NoLocals
<1>7. ASSUME NEW r \in Requests, NEW t \in Tokens, Logout(r, t) PROVE OutInv'
  BY <1>7 DEF Logout, Begin, Move
<1>8. ASSUME NEW r \in Requests, NEW t \in Tokens,
             Authenticate(r, t) \/ AuthenticateOpen(r, t)
      PROVE  OutInv'
  <2> DEFINE told == t \in out
             l == [loc[r] EXCEPT !.t = {t}, !.was = told]
             o == [loc[r] EXCEPT !.t = {t}, !.was = told, !.open = TRUE]
  <2>1. /\ Others(r) /\ pc'[r] \in {"tenant", "admitted"}
        /\ loc'[r] = l \/ loc'[r] = o
    BY <1>8, MoveFacts DEF Authenticate, AuthenticateOpen
  <2>2. told => t \in lost'
    BY <1>8 DEF Authenticate, AuthenticateOpen, Unrevoked
  <2>3. l.t = {t} /\ (l.was <=> told) /\ o.t = {t} /\ (o.was <=> told)
    BY DEF Locals
  <2>4. out' = out /\ revoked' = revoked /\ lost \subseteq lost'
    BY <1>8 DEF Authenticate, AuthenticateOpen, Unrevoked
  <2> HIDE DEF told, l, o
  <2>5. loc'[r].t = {t} /\ (loc'[r].was <=> told)
    BY <2>1, <2>3
  <2>6. QED
    BY <2>1, <2>2, <2>4, <2>5 DEF Others
<1>9. ASSUME NEW r \in Requests, LogoutBlind(r) PROVE OutInv'
  <2>1. loc[r].t \subseteq revoked \cup lost
    BY <1>9 DEF LogoutBlind, Begin
  <2>2. QED
    BY <1>9, <2>1 DEF LogoutBlind, Begin, Goto, Move
<1>10. QED
  BY <1>1, <1>2, <1>3, <1>4, <1>5, <1>6, <1>7, <1>8, <1>9 DEF Next, World

\* The part of TimeInv that is about request q.
TimeOf(q) ==
    /\ pc[q] \in {"org_read", "org_set"} => loc[q].now <= clock
    /\ pc[q] = "admitted" /\ ~loc[q].open => loc[q].now <= clock
    /\ pc[q] = "org_set" => loc[q].seen # "none"
    /\ pc[q] = "org_set" /\ loc[q].seen = "active" /\ org = "suspended"
         => loc[q].now <= since
    /\ pc[q] = "admitted" /\ ~loc[q].open /\ ~loc[q].blind /\ org = "suspended"
         => loc[q].now < since + TTL

\* The part that is about the memory of isolate i.
TimeAt(i) == cache[i].st = "active" =>
    cache[i].until <= clock + TTL /\ (org = "suspended" => cache[i].until <= since + TTL)

LEMMA TimeParts ==
  TimeInv <=> /\ since <= clock
              /\ \A i \in Isolates : TimeAt(i)
              /\ \A q \in Requests : TimeOf(q)
  BY DEF TimeInv, TimeOf, TimeAt, BlockedInTime

LEMMA Numbers ==
  ASSUME TypeOK
  PROVE  /\ clock \in Nat /\ since \in Nat /\ TTL \in Nat \ {0}
         /\ \A i \in Isolates : cache[i].until \in Nat
         /\ \A q \in Requests : loc[q].now \in Nat
  BY TTLAssumption, BoundsAssumption DEF TypeOK, Cached, Locals

\* A step that leaves the organisation alone and whose request is not in the
\* check, or is let in by a route without it.
LEMMA TimeKept ==
  ASSUME TypeOK, TimeInv, UNCHANGED tenant, NEW r \in Requests, Others(r),
         \/ pc'[r] \notin {"org_read", "org_set", "admitted"}
         \/ pc'[r] = "admitted" /\ loc'[r].open
  PROVE  TimeInv'
<1>1. \A q \in Requests : TimeOf(q)'
  BY TimeParts DEF TimeOf, tenant, Others
<1>2. since' <= clock' /\ \A i \in Isolates : TimeAt(i)'
  BY TimeParts DEF TimeAt, tenant
<1>3. QED
  BY <1>1, <1>2 DEF TimeInv, TimeOf, TimeAt, BlockedInTime

LEMMA TimeStep ==
  ASSUME TypeOK, TimeInv, [Next]_vars
  PROVE  TimeInv'
<1>1. CASE UNCHANGED vars
  BY <1>1 DEF vars, TimeInv, BlockedInTime
<1>2. CASE World
  <2>1. CASE UserEnds \/ TicketExpires
    BY <2>1 DEF UserEnds, TicketExpires, tenant, TimeInv, BlockedInTime
  <2>2. CASE SetOrgStatus
    <3>1. \A q \in Requests : TimeOf(q)'
      BY <2>2, TimeParts, Numbers DEF SetOrgStatus, TimeOf
    <3>2. since' <= clock' /\ \A i \in Isolates : TimeAt(i)'
      BY <2>2, TimeParts, Numbers DEF SetOrgStatus, TimeAt
    <3>3. QED
      BY <3>1, <3>2 DEF TimeInv, TimeOf, TimeAt, BlockedInTime
  <2>3. CASE Tick
    <3>1. \A q \in Requests : TimeOf(q)'
      BY <2>3, TimeParts, Numbers DEF Tick, TimeOf
    <3>2. since' <= clock' /\ \A i \in Isolates : TimeAt(i)'
      BY <2>3, TimeParts, Numbers DEF Tick, TimeAt
    <3>3. QED
      BY <3>1, <3>2 DEF TimeInv, TimeOf, TimeAt, BlockedInTime
  <2>4. QED
    BY <1>2, <2>1, <2>2, <2>3 DEF World
<1>3. ASSUME NEW r \in Requests, SignInSteps(r) PROVE TimeInv'
  <2>1. CASE Login(r) /\ UNCHANGED <<pc, loc>>
    BY <2>1, TimeKept DEF Login, Begin, Others
  <2>2. CASE Login(r) /\ Move(r, "sign", loc[r])
    BY <2>2, TimeKept, MoveFacts DEF Login
  <2>3. CASE LoginCode(r)
    BY <2>3, TimeKept, MoveFacts DEF LoginCode
  <2>4. CASE Sign(r)
    BY <2>4, TimeKept, ReturnFacts DEF Sign
  <2>5. QED
    BY <1>3, <2>1, <2>2, <2>3, <2>4 DEF SignInSteps, Login
<1>4. ASSUME NEW r \in Requests, FactorSteps(r) PROVE TimeInv'
  <2>1. CASE SetupWrite(r)
    BY <2>1, TimeKept, MoveFacts DEF SetupWrite
  <2>2. CASE SetupShow(r) \/ EnableWrite(r)
    BY <2>2, TimeKept, ReturnFacts DEF SetupShow, EnableWrite
  <2>3. CASE VerifySetup(r)
    BY <2>3, TimeKept, MoveFacts DEF VerifySetup
  <2>4. CASE EnableMfa(r) \/ DisableMfa(r)
    BY <2>4, TimeKept DEF EnableMfa, DisableMfa, Begin, Others
  <2>5. QED
    BY <1>4, <2>1, <2>2, <2>3, <2>4 DEF FactorSteps
<1>5. ASSUME NEW r \in Requests, Tenant(r) PROVE TimeInv'
  <2>1. UNCHANGED tenant
    BY <1>5 DEF Tenant
  <2>2. CASE Return(r)
    BY <2>1, <2>2, TimeKept, ReturnFacts
  <2>3. ASSUME NEW label \in {"org_read", "admitted"},
               label = "admitted" => cache[loc[r].at].st = "active" /\ cache[loc[r].at].until > clock,
               Move(r, label, [loc[r] EXCEPT !.now = clock])
        PROVE  TimeInv'
    <3>1. loc[r] \in Locals /\ loc[r].at \in Isolates
      BY DEF TypeOK, Locals
    <3>2. Others(r) /\ pc'[r] = label /\ loc'[r].now = clock
      BY <2>3, <3>1, MoveFacts DEF Locals
    <3>3. TimeOf(r)'
      BY <2>1, <2>3, <3>1, <3>2, TimeParts, Numbers DEF TimeOf, TimeAt, tenant
    <3>4. \A q \in Requests : TimeOf(q)'
      BY <2>1, <3>2, <3>3, TimeParts DEF TimeOf, tenant, Others
    <3>5. since' <= clock' /\ \A i \in Isolates : TimeAt(i)'
      BY <2>1, TimeParts DEF TimeAt, tenant
    <3>6. QED
      BY <3>4, <3>5 DEF TimeInv, TimeOf, TimeAt, BlockedInTime
  <2>4. cache[loc[r].at].st \in {"none", "active", "suspended"}
    BY DEF TypeOK, Locals, Cached
  <2>5. QED
    BY <1>5, <2>2, <2>3, <2>4 DEF Tenant
<1>6. ASSUME NEW r \in Requests, OrgRead(r) PROVE TimeInv'
  <2>1. UNCHANGED tenant /\ pc[r] = "org_read"
    BY <1>6 DEF OrgRead, At
  <2>2. /\ loc[r] \in Locals /\ org \in {"active", "suspended"}
        /\ loc[r].now <= clock
    BY <2>1, TimeParts DEF TypeOK, TimeOf
  <2>3. TimeOf(r)'
    <3>1. CASE Move(r, "org_set", [loc[r] EXCEPT !.seen = org])
      <4>1. pc'[r] = "org_set" /\ loc'[r].now = loc[r].now /\ loc'[r].seen = org
        BY <2>2, <3>1, MoveFacts DEF Locals
      <4>2. QED
        BY <2>1, <2>2, <4>1 DEF TimeOf, tenant
    <3>2. CASE Move(r, "admitted", [loc[r] EXCEPT !.blind = TRUE])
      <4>1. pc'[r] = "admitted" /\ loc'[r].now = loc[r].now /\ loc'[r].blind
        BY <2>2, <3>2, MoveFacts DEF Locals
      <4>2. QED
        BY <2>1, <2>2, <4>1 DEF TimeOf, tenant
    <3>3. QED
      BY <1>6, <3>1, <3>2 DEF OrgRead
  <2>4. Others(r)
    BY <1>6, MoveFacts DEF OrgRead
  <2>5. \A q \in Requests : TimeOf(q)'
    BY <2>1, <2>3, <2>4, TimeParts DEF TimeOf, tenant, Others
  <2>6. since' <= clock' /\ \A i \in Isolates : TimeAt(i)'
    BY <2>1, TimeParts DEF TimeAt, tenant
  <2>7. QED
    BY <2>5, <2>6 DEF TimeInv, TimeOf, TimeAt, BlockedInTime
<1>7. ASSUME NEW r \in Requests, OrgSet(r) PROVE TimeInv'
  <2>0. PICK i \in Isolates : i = loc[r].at
    BY DEF TypeOK, Locals
  <2>1. /\ UNCHANGED <<org, clock, since>> /\ pc[r] = "org_set"
        /\ cache' = [cache EXCEPT ![i] = [st |-> loc[r].seen, until |-> loc[r].now + TTL]]
    BY <1>7, <2>0 DEF OrgSet, At
  <2>2. TimeOf(r)
    BY TimeParts
  <2>3. TimeOf(r)'
    <3>1. CASE Return(r)
      BY <3>1, ReturnFacts DEF TimeOf
    <3>2. CASE loc[r].seen # "suspended" /\ Move(r, "admitted", loc[r])
      <4>1. loc[r].seen = "active"
        BY <2>1, <2>2, <3>2 DEF TypeOK, Locals, TimeOf
      <4>2. pc'[r] = "admitted" /\ loc'[r] = loc[r]
        BY <3>2, MoveFacts
      <4>3. QED
        BY <2>1, <2>2, <4>1, <4>2, Numbers DEF TimeOf
    <3>3. QED
      BY <1>7, <3>1, <3>2 DEF OrgSet, Goto
  <2>4. Others(r)
    BY <1>7, MoveFacts, ReturnFacts DEF OrgSet, Goto
  <2>5. \A q \in Requests : TimeOf(q)'
    BY <2>1, <2>3, <2>4, TimeParts DEF TimeOf, Others
  <2>6. \A j \in Isolates : TimeAt(j)'
    <3>1. ASSUME NEW j \in Isolates, j # i PROVE TimeAt(j)'
      BY <2>1, <3>1, TimeParts DEF TypeOK, TimeAt
    <3>2. TimeAt(i)'
      <4>1. cache'[i].st = loc[r].seen /\ cache'[i].until = loc[r].now + TTL
        BY <2>1, <2>2 DEF TypeOK
      <4>2. QED
        BY <2>1, <2>2, <4>1, Numbers DEF TimeAt, TimeOf
    <3>3. QED
      BY <3>1, <3>2
  <2>7. since' <= clock'
    BY <2>1, TimeParts
  <2>8. QED
    BY <2>5, <2>6, <2>7 DEF TimeInv, TimeOf, TimeAt, BlockedInTime
<1>8. ASSUME NEW r \in Requests, Done(r) \/ Abort(r) PROVE TimeInv'
  BY <1>8, TimeKept, ReturnFacts DEF Done, Abort
<1>9. ASSUME NEW r \in Requests, Revoke(r) PROVE TimeInv'
  BY <1>9, TimeKept, ReturnFacts, MoveFacts DEF Revoke, Goto
<1>10. ASSUME NEW r \in Requests, NEW t \in Tokens, Logout(r, t) \/ Authenticate(r, t)
       PROVE  TimeInv'
  BY <1>10, TimeKept, MoveFacts DEF Logout, Authenticate
<1>11. ASSUME NEW r \in Requests, LogoutBlind(r) PROVE TimeInv'
  BY <1>11, TimeKept, MoveFacts DEF LogoutBlind, Goto
<1>12. ASSUME NEW r \in Requests, NEW t \in Tokens, AuthenticateOpen(r, t) PROVE TimeInv'
  <2> DEFINE o == [loc[r] EXCEPT !.t = {t}, !.was = t \in out, !.open = TRUE]
  <2>1. Others(r) /\ pc'[r] = "admitted" /\ loc'[r] = o
    BY <1>12, MoveFacts DEF AuthenticateOpen
  <2>2. o.open
    BY DEF TypeOK, Locals
  <2> HIDE DEF o
  <2>3. QED
    BY <1>12, <2>1, <2>2, TimeKept DEF AuthenticateOpen
<1>13. QED
  BY <1>1, <1>2, <1>3, <1>4, <1>5, <1>6, <1>7, <1>8, <1>9, <1>10, <1>11, <1>12
  DEF Next, World, CheckSteps

LEMMA FactorStep ==
  ASSUME TypeOK, FactorInv, [Next]_vars
  PROVE  FactorInv'
<1> USE NoneAssumption DEF FactorInv, TypeOK, FactorHeld
<1>1. CASE UNCHANGED vars
  BY <1>1 DEF vars
<1>2. CASE World
  BY <1>2 DEF World, UserEnds, SetOrgStatus, Tick, TicketExpires, account, User
<1>3. ASSUME NEW r \in Requests, SignInSteps(r) PROVE FactorInv'
  BY <1>3 DEF SignInSteps, Login, LoginCode, Sign, Begin, At, Move, Return, NoLocals, account
<1>4. ASSUME NEW r \in Requests, SetupWrite(r) PROVE FactorInv'
  BY <1>4 DEF SetupWrite, Begin, Move, Fresh, User, Locals
<1>5. ASSUME NEW r \in Requests, SetupShow(r) PROVE FactorInv'
  BY <1>5 DEF SetupShow, At, Move, Return, NoLocals
<1>6. ASSUME NEW r \in Requests, VerifySetup(r) PROVE FactorInv'
  BY <1>6 DEF VerifySetup, Begin, Move, Locals
<1>7. ASSUME NEW r \in Requests, EnableWrite(r) PROVE FactorInv'
  BY <1>7 DEF EnableWrite, At, Move, Return, NoLocals, User
<1>8. ASSUME NEW r \in Requests, EnableMfa(r) \/ DisableMfa(r) PROVE FactorInv'
  BY <1>8 DEF EnableMfa, DisableMfa, Begin, User
<1>9. ASSUME NEW r \in Requests, CheckSteps(r) PROVE FactorInv'
  BY <1>9 DEF CheckSteps, Tenant, OrgRead, OrgSet, Done, At, Goto, Move, Return, NoLocals, account
<1>10. ASSUME NEW r \in Requests, Revoke(r) \/ Abort(r) PROVE FactorInv'
  BY <1>10 DEF Revoke, Abort, At, Goto, Move, Return, NoLocals, account
<1>11. ASSUME NEW r \in Requests, NEW t \in Tokens,
              Logout(r, t) \/ Authenticate(r, t) \/ AuthenticateOpen(r, t)
       PROVE  FactorInv'
  BY <1>11 DEF Logout, Authenticate, AuthenticateOpen, Begin, Move, account
<1>12. ASSUME NEW r \in Requests, LogoutBlind(r) PROVE FactorInv'
  BY <1>12 DEF LogoutBlind, Begin, Goto, Move, account
<1>13. QED
  BY <1>1, <1>2, <1>3, <1>4, <1>5, <1>6, <1>7, <1>8, <1>9, <1>10, <1>11, <1>12
  DEF Next, World, FactorSteps

----------------------------------------------------------------------------
(* The theorems *)

LEMMA Initially == Init => IInv
<1> SUFFICES ASSUME Init PROVE IInv
  OBVIOUS
<1>1. /\ NotCached \in Cached /\ NoFactor \in User
      /\ \A s \in Secrets : [NoFactor EXCEPT !.mfa = TRUE, !.secret = s] \in User
  <2>1. NotCached \in Cached
    BY TTLAssumption, BoundsAssumption DEF NotCached, Cached
  <2>2. NoFactor \in User
    BY DEF NoFactor, User
  <2>3. ASSUME NEW s \in Secrets PROVE [NoFactor EXCEPT !.mfa = TRUE, !.secret = s] \in User
    BY <2>2 DEF User
  <2>4. QED
    BY <2>1, <2>2, <2>3
<1>2. user \in User /\ held \subseteq Secrets /\ (user.mfa => user.secret \in held)
  <2>1. CASE user = NoFactor /\ held = {}
    BY <1>1, <2>1 DEF NoFactor
  <2>2. ASSUME NEW s \in Secrets, user = [NoFactor EXCEPT !.mfa = TRUE, !.secret = s], held = {s}
        PROVE  user \in User /\ held \subseteq Secrets /\ user.secret \in held
    BY <1>1, <2>2 DEF NoFactor
  <2>3. QED
    BY <2>1, <2>2 DEF Init
<1>3. TypeOK
  <2>1. loc \in [Requests -> Locals]
    <3>1. {NoLocals(i) : i \in Isolates} \subseteq Locals
      BY LocalsTyped
    <3>2. loc \in [Requests -> {NoLocals(i) : i \in Isolates}]
      BY DEF Init
    <3>3. QED
      BY <3>1, <3>2
  <2>2. cache \in [Isolates -> Cached] /\ pc \in [Requests -> PCs]
    BY <1>1 DEF Init, PCs
  <2>3. clock \in 0 .. MaxTime /\ since \in 0 .. MaxTime /\ left \in 0 .. MaxReqs
    <3>1. clock = 0 /\ since = 0 /\ left = MaxReqs
      BY DEF Init
    <3>2. QED
      BY <3>1, BoundsAssumption
  <2>4. QED
    BY <1>2, <2>1, <2>2, <2>3 DEF Init, TypeOK
<1>4. OutInv /\ TimeInv
  <2>1. /\ clock = 0 /\ since = 0 /\ out = {}
        /\ \A i \in Isolates : cache[i].st = "none"
        /\ \A r \in Requests : pc[r] = "idle"
    BY DEF Init, NotCached
  <2>2. ASSUME NEW r \in Requests PROVE loc[r].t = {}
    <3>1. PICK i \in Isolates : loc[r] = NoLocals(i)
      BY DEF Init
    <3>2. QED
      BY <3>1 DEF NoLocals
  <2>3. QED
    BY <2>1, <2>2 DEF OutInv, TimeInv, BlockedInTime
<1>5. FactorInv
  BY <1>2 DEF Init, FactorInv, FactorHeld
<1>6. QED
  BY <1>3, <1>4, <1>5 DEF IInv

LEMMA Inductive == IInv /\ [Next]_vars => IInv'
<1> SUFFICES ASSUME IInv, [Next]_vars PROVE IInv'
  OBVIOUS
<1> USE DEF IInv
<1>1. TypeOK'
  <2>1. CASE UNCHANGED vars
    BY <2>1 DEF TypeOK, vars
  <2>2. CASE Next
    <3>1. ASSUME NEW r \in Requests, NEW t \in Tokens,
                 Logout(r, t) \/ Authenticate(r, t) \/ AuthenticateOpen(r, t)
          PROVE  TypeOK'
      BY <3>1, TokenTyped
    <3>2. ASSUME NEW r \in Requests,
                 \/ SignInSteps(r) \/ FactorSteps(r) \/ CheckSteps(r) \/ Revoke(r) \/ Abort(r)
                 \/ LogoutBlind(r)
          PROVE  TypeOK'
      BY <3>2, SignInTyped, FactorTyped, CheckTyped, SignOutTyped
    <3>3. QED
      BY <2>2, <3>1, <3>2, WorldTyped DEF Next, World
  <2>3. QED
    BY <2>1, <2>2
<1>2. OutInv' /\ TimeInv' /\ FactorInv'
  BY OutStep, TimeStep, FactorStep
<1>3. QED
  BY <1>1, <1>2

LEMMA AlwaysIInv == Spec => []IInv
  BY Initially, Inductive, PTL DEF Spec

\* Every variable keeps the type that schema and code give it.
THEOREM TypeCorrect == Spec => []TypeOK
<1>1. IInv => TypeOK
  BY DEF IInv
<1>2. QED
  BY <1>1, AlwaysIInv, PTL

\* No token that an answered logout has found is let in again, on any route and in
\* any number of isolates, unless the revocation was not written or not found.
THEOREM SignedOut == Spec => []SignedOutStaysOut
<1>1. IInv => SignedOutStaysOut
  BY DEF IInv, OutInv, SignedOutStaysOut
<1>2. QED
  BY <1>1, AlwaysIInv, PTL

\* Routes that ask for the status serve a suspended organisation no longer than one
\* cache time, whatever the isolates remember and however long the look-ups take.
THEOREM Blocked == Spec => []BlockedInTime
<1>1. IInv => BlockedInTime
  BY DEF IInv, TimeInv
<1>2. QED
  BY <1>1, AlwaysIInv, PTL

\* The secret stored for a second factor is on its owner's device and has been
\* confirmed, however many set-ups overlap.
THEOREM FactorIsHeld == Spec => []FactorHeld
<1>1. IInv => FactorHeld
  BY DEF IInv, FactorInv
<1>2. QED
  BY <1>1, AlwaysIInv, PTL
=============================================================================
