------------------------------ MODULE Membership ------------------------------
(***************************************************************************)
(* Who belongs to one Teams organisation and in which role: invitations,   *)
(* domain onboarding, role and status changes, removal and account         *)
(* deletion in OrganisationService, AuthService and RbacService.           *)
(*                                                                         *)
(* A person is in two tables.  users has one home organisation, one role   *)
(* and one status, and administrators and seats are counted there;         *)
(* user_organisations has a role and a status for each organisation joined.*)
(* No operation writes both in one transaction.                            *)
(*                                                                         *)
(* One action is a database write with the reads before it that no other   *)
(* write of the same request comes between, or such reads alone, where     *)
(* what they found is used later.  Callers are left out: the tokens of     *)
(* administrators outlive their role, and a super admin passes every gate. *)
(* So are teams, custom roles, settings and the suspension of the whole.   *)
(* One email is one account; a race that gives it two is left to Accounts.  *)
(***************************************************************************)
EXTENDS Naturals, FiniteSets

CONSTANTS
    Users,      \* emails, each of at most one account
    Founder,    \* the user who registered the organisation
    Requests,   \* requests in flight at once
    MaxSeats,   \* maxUsers: 50 by default in the code
    MaxInvites, \* bound: invitations
    MaxReqs,    \* bound: requests that change something
    Offered,    \* bound: roles that are given
    Ops,        \* operations that are requested
    Faults      \* TRUE: a database or mail call may throw

ASSUME FounderAssumption == Founder \in Users
ASSUME SeatsAssumption == MaxSeats \in Nat \ {0}
ASSUME BoundsAssumption == MaxInvites \in Nat /\ MaxReqs \in Nat
ASSUME FaultsAssumption == Faults \in BOOLEAN

VARIABLES
    org,        \* the organisation's row, with its domain
    user,       \* users
    member,     \* user_organisations, the rows of this organisation
    join,       \* organisation_join_requests, by user
    inv,        \* organisation_invitations
    pc, loc,    \* where each request is, and what it knows
    overlap,    \* history: concerns two requests of which have overlapped
    broken,     \* history: a review has died between its two writes
    unguarded,  \* history: the last administrator let go was a super admin
    assigned,   \* history: users assigned by a super admin
    left        \* bound: requests still to come

vars == <<org, user, member, join, inv, pc, loc, overlap, broken, unguarded, assigned, left>>

people  == <<user, member, join>>
history == <<overlap, broken, unguarded, assigned, left>>

----------------------------------------------------------------------------
(* Rows *)

\* admin: admin or org_admin; member: any other name.  Super admins of the
\* platform are counted as administrators and not guarded as such.
Roles == {"admin", "super_admin", "member"}

Counted == {"admin", "super_admin"}

ASSUME OfferedAssumption == Offered \subseteq Roles

\* st: closed is deleted or about to be; policy: of domain onboarding; proved:
\* verifiedDomain is set.
Organisation == [st : {"active", "closed"}, proved : BOOLEAN,
                 policy : {"admin_approval", "automatic", "disabled"}]

\* here: the home organisation is this one; gone: deletedAt is set.
User == [st : {"none", "pending_verification", "active", "suspended", "deleted"},
         role : Roles, here : BOOLEAN, gone : BOOLEAN]

Member == [is : BOOLEAN, role : Roles, st : {"active", "suspended", "pending_approval"}]

\* link: the current one has not been mailed yet, has reached the mailbox, or
\* has expired; by: the request that is to mail it.
Invitation == [st : {"none", "pending", "revoked", "expired", "accepted"}, to : Users,
               role : Roles, link : {"new", "mailed", "old"}, by : SUBSET Requests]

NoMember == [is |-> FALSE, role |-> "member", st |-> "active"]

Joined(role) == [is |-> TRUE, role |-> role, st |-> "active"]

NoUser == [st |-> "none", role |-> "member", here |-> FALSE, gone |-> FALSE]

NoInvitation == [st |-> "none", to |-> Founder, role |-> "member",
                 link |-> "new", by |-> {}]

Concerns == {"admins", "seats", "joins"}

\* about: the concern; x: the user; k: the invitation; role; say: the status,
\* decision or policy asked for.
Locals == [about : Concerns \cup {"none"}, x : Users, k : 0 .. MaxInvites,
           role : Roles, say : {"none", "active", "suspended", "approve", "reject"}]

NoLocals == [about |-> "none", x |-> Founder, k |-> 0, role |-> "member", say |-> "none"]

PCs == {"idle", "role_write", "role_member", "remove_member", "remove_user",
        "status_write", "status_member", "close_org", "delete_commit", "assign_member",
        "invite_revoke", "invite_create", "invite_mail", "create_user", "accept_join",
        "accept_close", "revoke_write", "enrol", "auto_join", "join_request",
        "join_member", "review_write", "review_member", "prove_write", "unlist_write"}

\* A user who is at home here, and one who is not.
Home(role) == [st |-> "active", role |-> role, here |-> TRUE, gone |-> FALSE]
Away       == [st |-> "active", role |-> "member", here |-> FALSE, gone |-> FALSE]

NoneInvited == [k \in 1 .. MaxInvites |-> NoInvitation]

\* Two have been invited while the founder is alone, the second in vain.
TwoInvited(x, y) ==
    LET sent(to, st) == [st |-> st, to |-> to, role |-> "member", link |-> "mailed", by |-> {}]
    IN  [NoneInvited EXCEPT ![1] = sent(x, "pending"), ![2] = sent(y, "revoked")]

Init ==
    /\ org \in {o \in Organisation : o.st = "active" /\ o.policy = "admin_approval"}
    /\ \E role \in Counted, u \in [Users -> {NoUser, Away} \cup {Home(o) : o \in Offered}] :
         user = [u EXCEPT ![Founder] = Home(role)]
    /\ Cardinality({x \in Users : user[x].here}) <= MaxSeats
    /\ member = [x \in Users |-> IF user[x].here THEN Joined(user[x].role) ELSE NoMember]
    /\ join = [x \in Users |-> "none"]
    /\ \/ inv = NoneInvited
       \/ /\ \A x \in Users \ {Founder} : user[x] = NoUser
          /\ MaxInvites > 1 /\ MaxSeats > 1
          /\ \E x, y \in Users \ {Founder} : x # y /\ inv = TwoInvited(x, y)
    /\ pc = [r \in Requests |-> "idle"]
    /\ loc = [r \in Requests |-> NoLocals]
    /\ overlap = {} /\ broken = FALSE /\ unguarded = FALSE /\ assigned = {} /\ left = MaxReqs

----------------------------------------------------------------------------
(* Requests *)

\* A request about a concern enters: others about the same one overlap it.
Enter(r, op, about) ==
    /\ pc[r] = "idle"
    /\ op \in Ops /\ left > 0
    /\ left' = left - 1
    /\ overlap' = IF \E q \in Requests \ {r} : pc[q] # "idle" /\ loc[q].about = about
                  THEN overlap \cup {about} ELSE overlap
    /\ UNCHANGED <<broken, assigned>>

Begin(r, op, about) == Enter(r, op, about) /\ UNCHANGED unguarded

\* One whose overlaps no property excuses: a single write, or a new account.
Alone(r, op) ==
    /\ pc[r] = "idle"
    /\ op \in Ops /\ left > 0
    /\ left' = left - 1
    /\ UNCHANGED <<overlap, broken, unguarded, assigned>>

Move(r, label, l) ==
    /\ pc' = [pc EXCEPT ![r] = label]
    /\ loc' = [loc EXCEPT ![r] = l]

Goto(r, label) == Move(r, label, loc[r])

Return(r) == Move(r, "idle", NoLocals)

At(r, label) == pc[r] = label /\ UNCHANGED history

\* A statement that violates a constraint, or a row that is not there, throws.
Throw(r) == Return(r) /\ UNCHANGED <<org, people, inv>>

About(about, x) == [NoLocals EXCEPT !.about = about, !.x = x]

Here(x) == user[x].here /\ ~user[x].gone /\ user[x].st # "none"

Active(x) == Here(x) /\ user[x].st = "active"

Admins == {x \in Users : Active(x) /\ user[x].role \in Counted}

Seated == {x \in Users : Here(x)}

Pending == {k \in 1 .. MaxInvites : inv[k].st = "pending"}

Exists == org.st # "closed"

----------------------------------------------------------------------------
(* Roles: updateMemberRole, assignUserRole and superAdminAssignAdmin *)

\* Fault: the last administrator is looked for among all members.
MayLoseAny(x) == Cardinality(Seated) > 1

\* Another active administrator remains, as the counts see it.
MayLose(x) == Cardinality(Admins) > 1

\* x is let go, or not, and nobody else is left: no count is made for a super
\* admin's row.
LetGo(x, goes) ==
    unguarded' = (unguarded \/ (goes /\ user[x].role = "super_admin" /\ Admins = {x}))

RoleRead(r, x, role) ==
    /\ Enter(r, "role", "admins")
    /\ Here(x)
    /\ user[x].role = "admin" /\ role # "admin" => MayLose(x)
    /\ LetGo(x, role = "member")
    /\ Move(r, "role_write", [About("admins", x) EXCEPT !.role = role])
    /\ UNCHANGED <<org, people, inv>>

RoleWrite(r) ==
    /\ At(r, "role_write")
    /\ user' = [user EXCEPT ![loc[r].x].role = loc[r].role]
    /\ Goto(r, "role_member")
    /\ UNCHANGED <<org, member, join, inv>>

RoleMember(r) ==
    LET x == loc[r].x
    IN  /\ At(r, "role_member")
        /\ member' = [member EXCEPT ![x] = IF @.is THEN [@ EXCEPT !.role = loc[r].role]
                                           ELSE Joined(loc[r].role)]
        /\ Return(r)
        /\ UNCHANGED <<org, user, join, inv>>

\* PUT /users/:id/role writes the membership alone, if there is one, and
\* counts nobody.
AssignUserRole(r, x, role) ==
    /\ Begin(r, "assignrole", "admins")
    /\ user[x].st # "none" /\ member[x].is
    /\ member' = [member EXCEPT ![x].role = role]
    /\ UNCHANGED <<org, user, join, inv, pc, loc>>

\* A super admin brings a user home as administrator, deleted or not.
Assign(r, x) ==
    /\ pc[r] = "idle" /\ "assign" \in Ops /\ left > 0
    /\ left' = left - 1
    /\ Exists /\ user[x].st # "none"
    /\ user' = [user EXCEPT ![x] = [@ EXCEPT !.role = "admin", !.here = TRUE, !.st = "active"]]
    /\ assigned' = assigned \cup {x}
    /\ Move(r, "assign_member", About("none", x))
    /\ UNCHANGED <<org, member, join, inv, overlap, broken, unguarded>>

AssignMember(r) ==
    /\ At(r, "assign_member")
    /\ member' = [member EXCEPT ![loc[r].x] = Joined("admin")]
    /\ Return(r)
    /\ UNCHANGED <<org, user, join, inv>>

----------------------------------------------------------------------------
(* Leaving: removeMember, updateMemberStatus and deleteAccount *)

RemoveRead(r, x) ==
    /\ Enter(r, "remove", "admins")
    /\ Exists /\ user[x].st # "none"
    /\ user[x].role = "admin" => MayLose(x)
    /\ LetGo(x, TRUE)
    /\ Move(r, "remove_member", About("admins", x))
    /\ UNCHANGED <<org, people, inv>>

\* The home organisation is the one read, but nothing moves it meanwhile
\* except Assign, after which both agree.
RemoveMember(r) ==
    LET x == loc[r].x
    IN  /\ At(r, "remove_member")
        /\ member' = [member EXCEPT ![x] = NoMember]
        /\ IF user[x].here THEN Goto(r, "remove_user") ELSE Return(r)
        /\ UNCHANGED <<org, user, join, inv>>

RemoveUser(r) ==
    /\ At(r, "remove_user")
    /\ user' = [user EXCEPT ![loc[r].x] = [@ EXCEPT !.st = "suspended", !.gone = TRUE]]
    /\ Return(r)
    /\ UNCHANGED <<org, member, join, inv>>

StatusRead(r, x, st) ==
    /\ Enter(r, "status", "admins")
    /\ Exists /\ user[x].here /\ user[x].st # "none"
    /\ user[x].role = "admin" /\ st = "suspended" => Admins \ {x} # {}
    /\ LetGo(x, st = "suspended")
    /\ Move(r, "status_write", [About("admins", x) EXCEPT !.say = st])
    /\ UNCHANGED <<org, people, inv>>

StatusWrite(r) ==
    /\ At(r, "status_write")
    /\ user' = [user EXCEPT ![loc[r].x].st = loc[r].say]
    /\ Goto(r, "status_member")
    /\ UNCHANGED <<org, member, join, inv>>

StatusMember(r) ==
    /\ At(r, "status_member")
    /\ member' = [member EXCEPT ![loc[r].x] = IF @.is THEN [@ EXCEPT !.st = loc[r].say] ELSE @]
    /\ Return(r)
    /\ UNCHANGED <<org, user, join, inv>>

\* deleteAccount counts where the user administers, by either table, and counts
\* no super admin.  The only administrator leaves last, and takes the
\* organisation along.
Administers(x) ==
    \/ user[x].role = "admin" /\ user[x].here
    \/ member[x].is /\ member[x].role = "admin" /\ member[x].st = "active"

DeleteRead(r, x) ==
    LET others == {y \in Admins \ {x} : user[y].role = "admin"}
        lone == Administers(x) /\ others = {}
    IN  /\ Enter(r, "delete", "admins")
        /\ user[x].st \in {"active", "suspended"} /\ ~user[x].gone
        /\ lone => Cardinality({y \in Users : Active(y)}) <= 1
        /\ LetGo(x, ~lone)
        /\ Move(r, IF lone THEN "close_org" ELSE "delete_commit", About("admins", x))
        /\ UNCHANGED <<org, people, inv>>

CloseOrg(r) ==
    /\ At(r, "close_org")
    /\ org' = [org EXCEPT !.st = "closed"]
    /\ Goto(r, "delete_commit")
    /\ UNCHANGED <<people, inv>>

DeleteCommit(r) ==
    LET x == loc[r].x
    IN  /\ At(r, "delete_commit")
        /\ user' = [user EXCEPT ![x] = [@ EXCEPT !.st = "deleted", !.gone = TRUE]]
        /\ member' = [member EXCEPT ![x] = IF @.is THEN [@ EXCEPT !.st = "suspended"] ELSE @]
        /\ Return(r)
        /\ UNCHANGED <<org, join, inv>>

----------------------------------------------------------------------------
(* Invitations *)

\* Fault: one seat too many.
SeatFreeOrFull == Cardinality(Seated) <= MaxSeats

\* acceptInvitation counts accounts alone.
SeatFreeNow == Cardinality(Seated) < MaxSeats

\* inviteMember counts accounts and pending invitations together.
SeatFree == Cardinality(Seated) + Cardinality(Pending) < MaxSeats

InviteRead(r, x, role) ==
    /\ Begin(r, "invite", "seats")
    /\ Exists /\ SeatFree
    /\ ~(member[x].is /\ ~user[x].gone)
    /\ \E k \in 1 .. MaxInvites : inv[k].st = "none"
    /\ Move(r, "invite_revoke", [About("seats", x) EXCEPT !.role = role])
    /\ UNCHANGED <<org, people, inv>>

InviteRevoke(r) ==
    /\ At(r, "invite_revoke")
    /\ inv' = [k \in 1 .. MaxInvites |->
                 IF k \in Pending /\ inv[k].to = loc[r].x
                 THEN [inv[k] EXCEPT !.st = "revoked"] ELSE inv[k]]
    /\ Goto(r, "invite_create")
    /\ UNCHANGED <<org, people>>

InviteCreate(r) ==
    /\ At(r, "invite_create")
    /\ \E k \in 1 .. MaxInvites :
         /\ inv[k].st = "none" /\ \A j \in 1 .. k - 1 : inv[j].st # "none"
         /\ inv' = [inv EXCEPT ![k] = [st |-> "pending", to |-> loc[r].x, role |-> loc[r].role,
                                       link |-> "new", by |-> {r}]]
         /\ Move(r, "invite_mail", [loc[r] EXCEPT !.k = k])
    /\ UNCHANGED <<org, people>>

\* A link that another has replaced opens nothing.
InviteMail(r) ==
    /\ At(r, "invite_mail")
    /\ inv' = [inv EXCEPT ![loc[r].k] =
                 IF r \in @.by THEN [@ EXCEPT !.link = "mailed", !.by = {}] ELSE @]
    /\ Return(r)
    /\ UNCHANGED <<org, people>>

\* A new link, and pending again whatever it was.
Resend(r, k) ==
    /\ Begin(r, "resend", "seats")
    /\ Exists /\ inv[k].st # "none"
    /\ inv' = [inv EXCEPT ![k] = [@ EXCEPT !.st = "pending", !.link = "new", !.by = {r}]]
    /\ Move(r, "invite_mail", [About("seats", inv[k].to) EXCEPT !.k = k])
    /\ UNCHANGED <<org, people>>

RevokeRead(r, k) ==
    /\ Begin(r, "revoke", "seats")
    /\ inv[k].st # "none"
    /\ Move(r, "revoke_write", [About("seats", inv[k].to) EXCEPT !.k = k])
    /\ UNCHANGED <<org, people, inv>>

RevokeWrite(r) ==
    /\ At(r, "revoke_write")
    /\ inv' = [inv EXCEPT ![loc[r].k].st = "revoked"]
    /\ Return(r)
    /\ UNCHANGED <<org, people>>

\* Fault: a link is good until it is used.
UsableOnce(k) == inv[k].st \in {"pending", "revoked"} /\ inv[k].link = "mailed"

Usable(k) == inv[k].st = "pending" /\ inv[k].link = "mailed"

\* Whoever opens an expired link closes the invitation.
OpenExpired(r, k) ==
    /\ Begin(r, "accept", "seats")
    /\ inv[k].st = "pending" /\ inv[k].link = "old"
    /\ inv' = [inv EXCEPT ![k].st = "expired"]
    /\ UNCHANGED <<org, people, pc, loc>>

\* An account with the email joins, home or away; without one, a seat must
\* be free.
AcceptRead(r, k) ==
    LET x == inv[k].to
        l == [About("seats", x) EXCEPT !.k = k, !.role = inv[k].role]
    IN  /\ Begin(r, "accept", "seats")
        /\ Usable(k)
        /\ \/ user[x].st # "none" /\ Move(r, "accept_join", l)
           \/ user[x].st = "none" /\ SeatFreeNow /\ Move(r, "create_user", l)
        /\ UNCHANGED <<org, people, inv>>

CreateUser(r) ==
    LET x == loc[r].x
    IN  /\ At(r, "create_user")
        /\ \/ /\ user[x].st = "none"
              /\ user' = [user EXCEPT ![x] = [st |-> "active", role |-> loc[r].role,
                                              here |-> TRUE, gone |-> FALSE]]
              /\ Goto(r, "accept_join")
              /\ UNCHANGED <<org, member, join, inv>>
           \/ user[x].st # "none" /\ Throw(r)

AcceptJoin(r) ==
    LET x == loc[r].x
    IN  /\ At(r, "accept_join")
        /\ member' = [member EXCEPT ![x] = IF @.is THEN [@ EXCEPT !.role = loc[r].role]
                                           ELSE Joined(loc[r].role)]
        /\ Goto(r, "accept_close")
        /\ UNCHANGED <<org, user, join, inv>>

AcceptClose(r) ==
    /\ At(r, "accept_close")
    /\ inv' = [inv EXCEPT ![loc[r].k].st = "accepted"]
    /\ Return(r)
    /\ UNCHANGED <<org, people>>

----------------------------------------------------------------------------
(* Domain onboarding: register, verifyEmail and reviewJoinRequest *)

\* An account of an individual organisation of its own.
Register(r, x) ==
    /\ Alone(r, "register")
    /\ user[x].st = "none"
    /\ \A q \in Requests : pc[q] = "create_user" => loc[q].x # x
    /\ user' = [user EXCEPT ![x].st = "pending_verification"]
    /\ UNCHANGED <<org, member, join, inv, pc, loc>>

VerifyEmail(r, x) ==
    /\ Begin(r, "register", "joins")
    /\ user[x].st = "pending_verification" /\ ~user[x].gone
    /\ user' = [user EXCEPT ![x].st = "active"]
    /\ Move(r, "enrol", About("joins", x))
    /\ UNCHANGED <<org, member, join, inv>>

\* The organisation with the verified domain of the address, if it is another.
Enrol(r) ==
    LET meant == org.st = "active" /\ org.proved /\ ~user[loc[r].x].here
    IN  /\ At(r, "enrol")
        /\ \/ meant /\ org.policy = "automatic" /\ Goto(r, "auto_join")
           \/ meant /\ org.policy = "admin_approval" /\ Goto(r, "join_request")
           \/ Return(r)     \* another domain's address, or onboarding disabled
        /\ UNCHANGED <<org, people, inv>>

AutoJoin(r) ==
    /\ At(r, "auto_join")
    /\ member' = [member EXCEPT ![loc[r].x] = Joined("member")]
    /\ Return(r)
    /\ UNCHANGED <<org, user, join, inv>>

\* Fault: the membership waits before there is a request to review.
JoinRequestLate(r) ==
    /\ At(r, "join_request")
    /\ member' = [member EXCEPT ![loc[r].x] =
                    IF @.is THEN @ ELSE [Joined("member") EXCEPT !.st = "pending_approval"]]
    /\ Goto(r, "join_member")
    /\ UNCHANGED <<org, user, join, inv>>

JoinRequest(r) ==
    /\ At(r, "join_request")
    /\ join' = [join EXCEPT ![loc[r].x] = "pending"]
    /\ Goto(r, "join_member")
    /\ UNCHANGED <<org, user, member, inv>>

JoinMember(r) ==
    /\ At(r, "join_member")
    /\ member' = [member EXCEPT ![loc[r].x] =
                    IF @.is THEN @ ELSE [Joined("member") EXCEPT !.st = "pending_approval"]]
    /\ Return(r)
    /\ UNCHANGED <<org, user, join, inv>>

ReviewRead(r, x, decision) ==
    /\ Begin(r, "review", "joins")
    /\ join[x] = "pending"
    /\ Move(r, "review_write", [About("joins", x) EXCEPT !.say = decision])
    /\ UNCHANGED <<org, people, inv>>

\* Fault: the decision is stored as it was asked for.
ReviewWriteRaw(r) ==
    /\ At(r, "review_write")
    /\ join' = [join EXCEPT ![loc[r].x] = loc[r].say]
    /\ Goto(r, "review_member")
    /\ UNCHANGED <<org, user, member, inv>>

ReviewWrite(r) ==
    /\ At(r, "review_write")
    /\ join' = [join EXCEPT ![loc[r].x] =
                  IF loc[r].say = "approve" THEN "approved" ELSE "rejected"]
    /\ Goto(r, "review_member")
    /\ UNCHANGED <<org, user, member, inv>>

ReviewMember(r) ==
    LET x == loc[r].x
    IN  /\ At(r, "review_member")
        /\ member' = [member EXCEPT ![x] =
                        CASE loc[r].say = "approve" -> Joined("member")
                          [] loc[r].say = "reject" /\ @.st = "pending_approval" -> NoMember
                          [] OTHER -> @]
        /\ Return(r)
        /\ UNCHANGED <<org, user, join, inv>>

----------------------------------------------------------------------------
(* The organisation *)

\* verifyDomain, once the TXT record is found; a verified domain stays.
VerifyDomain(r) ==
    /\ Alone(r, "domain")
    /\ Exists /\ ~org.proved
    /\ org' = [org EXCEPT !.proved = TRUE]
    /\ UNCHANGED <<people, inv, pc, loc>>

SetPolicy(r, policy) ==
    /\ Alone(r, "domain")
    /\ Exists /\ policy # org.policy
    /\ policy = "automatic" => org.proved
    /\ org' = [org EXCEPT !.policy = policy]
    /\ UNCHANGED <<people, inv, pc, loc>>

\* deleteOrganisation.
DeleteOrg(r) ==
    /\ Alone(r, "delete")
    /\ Exists
    /\ org' = [org EXCEPT !.st = "closed"]
    /\ UNCHANGED <<people, inv, pc, loc>>

----------------------------------------------------------------------------
(* The world, and the specification *)

Expire(k) ==
    /\ inv[k].link = "mailed"
    /\ inv' = [inv EXCEPT ![k].link = "old"]
    /\ UNCHANGED <<org, people, pc, loc, history>>

\* A statement or the mail throws, and what was written stays written.
Abort(r) ==
    /\ Faults
    /\ pc[r] # "idle"
    /\ broken' = (broken \/ pc[r] = "review_member")
    /\ Return(r)
    /\ UNCHANGED <<org, people, inv, overlap, unguarded, assigned, left>>

RoleSteps(r) ==
    \/ \E x \in Users, role \in Offered : RoleRead(r, x, role) \/ AssignUserRole(r, x, role)
    \/ RoleWrite(r) \/ RoleMember(r)
    \/ \E x \in Users : Assign(r, x)
    \/ AssignMember(r)

LeaveSteps(r) ==
    \/ \E x \in Users : RemoveRead(r, x) \/ DeleteRead(r, x)
    \/ \E x \in Users, st \in {"active", "suspended"} : StatusRead(r, x, st)
    \/ RemoveMember(r) \/ RemoveUser(r) \/ StatusWrite(r) \/ StatusMember(r)
    \/ CloseOrg(r) \/ DeleteCommit(r)

InviteSteps(r) ==
    \/ \E x \in Users, role \in Offered : InviteRead(r, x, role)
    \/ \E k \in 1 .. MaxInvites :
         Resend(r, k) \/ RevokeRead(r, k) \/ OpenExpired(r, k) \/ AcceptRead(r, k)
    \/ InviteRevoke(r) \/ InviteCreate(r) \/ InviteMail(r) \/ RevokeWrite(r)
    \/ CreateUser(r) \/ AcceptJoin(r) \/ AcceptClose(r)

JoinSteps(r) ==
    \/ \E x \in Users : Register(r, x) \/ VerifyEmail(r, x)
    \/ \E x \in Users, decision \in {"approve", "reject"} : ReviewRead(r, x, decision)
    \/ Enrol(r) \/ AutoJoin(r) \/ JoinRequest(r) \/ JoinMember(r)
    \/ ReviewWrite(r) \/ ReviewMember(r)

OrgSteps(r) ==
    \/ VerifyDomain(r) \/ DeleteOrg(r)
    \/ \E policy \in {"admin_approval", "automatic", "disabled"} : SetPolicy(r, policy)

Next ==
    \/ \E r \in Requests : RoleSteps(r) \/ LeaveSteps(r) \/ InviteSteps(r) \/ JoinSteps(r)
                           \/ OrgSteps(r) \/ Abort(r)
    \/ \E k \in 1 .. MaxInvites : Expire(k)

Spec == Init /\ [][Next]_vars

----------------------------------------------------------------------------
(* Properties *)

\* Rows, locals and history have the types of schema and code.
TypeOK ==
    /\ org \in Organisation
    /\ user \in [Users -> User] /\ member \in [Users -> Member]
    /\ join \in [Users -> {"none", "pending", "approved", "rejected"}]
    /\ inv \in [1 .. MaxInvites -> Invitation]
    /\ pc \in [Requests -> PCs] /\ loc \in [Requests -> Locals]
    /\ overlap \subseteq Concerns /\ broken \in BOOLEAN /\ unguarded \in BOOLEAN
    /\ assigned \subseteq Users /\ left \in 0 .. MaxReqs

\* "Every active organisation with active members MUST have at least one
\* active administrator."
HasAdmin == org.st = "active" /\ (\E x \in Users : Active(x)) => Admins # {}

\* It has one as long as no two demotions, removals, suspensions or deletions
\* overlap, whichever of them fail half-way (updateMemberRole, removeMember,
\* updateMemberStatus and deleteAccount each count before they write), and the
\* last one was not a super admin, whom they count but never guard.
AdminRemains == "admins" \notin overlap /\ ~unguarded => HasAdmin

\* Accounts stay within the quota, whatever is invited, revoked, resent and
\* accepted in whatever order, save the users a super admin brings in and
\* acceptances that overlap (inviteMember and acceptInvitation count apart).
SeatsKept ==
    "seats" \notin overlap => Cardinality(Seated \ assigned) <= MaxSeats

\* The membership that a verified address was promised waits for a review
\* that can still come: nobody is pending whose request is closed, unless two
\* requests about joining overlap or a review dies between its writes
\* (verifyEmail files the request first, reviewJoinRequest closes it first).
NobodyStuck ==
    \A x \in Users :
      /\ member[x].is /\ member[x].st = "pending_approval"
      /\ ~broken /\ "joins" \notin overlap
      /\ \A r \in Requests : loc[r].x # x \/ pc[r] = "idle"
      => join[x] = "pending"

\* A revoked invitation brings nobody in unless it is sent again or the
\* acceptance was under way when it was revoked.
RevokedStays ==
    [][\A k \in 1 .. MaxInvites :
         inv[k].st = "revoked" /\ inv'[k].st = "accepted" => "seats" \in overlap]_vars
=============================================================================
