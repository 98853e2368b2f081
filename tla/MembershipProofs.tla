--------------------------- MODULE MembershipProofs ---------------------------
(***************************************************************************)
(* What Membership keeps for any people, requests, seats, invitations and  *)
(* operations, with or without faults:                                     *)
(*                                                                         *)
(*   AdministratorRemains  AdminRemains, the invariant of the plan         *)
(*   SeatsAreKept          SeatsKept, for a finite set of people           *)
(*   NobodyIsStuck         NobodyStuck                                     *)
(*   RevokedIsRevoked      RevokedStays                                    *)
(*                                                                         *)
(* Each excepts requests that overlap.  The strengthenings say what this   *)
(* buys: while no two requests about a concern have overlapped, at most    *)
(* one is under way, so that what it has read is still so when it writes.  *)
(***************************************************************************)
EXTENDS Membership, FiniteSetTheorems, TLAPS

----------------------------------------------------------------------------
(* The strengthenings                                                      *)

AdminPlaces == {"role_write", "role_member", "remove_member", "remove_user", "status_write",
                "status_member", "close_org", "delete_commit"}

SeatPlaces == {"invite_revoke", "invite_create", "invite_mail", "create_user", "accept_join",
               "accept_close", "revoke_write"}

JoinPlaces == {"enrol", "auto_join", "join_request", "join_member", "review_write",
               "review_member"}

\* A request at a place is about its concern, and knows what was asked of it.
Fits(p, l) ==
    /\ p \in AdminPlaces => l.about = "admins"
    /\ p \in SeatPlaces => l.about = "seats"
    /\ p \in JoinPlaces => l.about = "joins"
    /\ p \in {"status_write", "status_member"} => l.say \in {"active", "suspended"}
    /\ p \in {"review_write", "review_member"} => l.say \in {"approve", "reject"}

Typed == TypeOK /\ \A r \in Requests : Fits(pc[r], loc[r])

Busy(r, about) == pc[r] # "idle" /\ loc[r].about = about

\* At most one request is under way about each concern that has seen no overlap.
Solo == \A about \in Concerns \ overlap : \A q, r \in Requests :
            Busy(q, about) /\ Busy(r, about) => q = r

\* The request is about to take an administrator's office, if its user has one.
Unseats(p, l) ==
    \/ p \in {"remove_member", "remove_user", "delete_commit"}
    \/ p = "role_write" /\ l.role = "member"
    \/ p = "status_write" /\ l.say = "suspended"

\* An active organisation has an administrator besides any who is to lose office,
\* unless it let the last one go as a super admin.
AdminInv ==
    "admins" \notin overlap /\ ~unguarded /\ org.st = "active"
      => /\ Admins # {}
         /\ \A r \in Requests : Unseats(pc[r], loc[r]) => Admins \ {loc[r].x} # {}

\* Nobody without an account is at home, and there is a seat for the account
\* that is about to be made.
SeatInv ==
    /\ \A x \in Users : user[x].st = "none" => ~user[x].here
    /\ SeatsKept
    /\ \A r \in Requests : pc[r] = "create_user" /\ "seats" \notin overlap
                             => Cardinality(Seated \ assigned) < MaxSeats

\* A member waits for a request that is pending, or just being closed.
JoinInv ==
    "joins" \notin overlap /\ ~broken
      => /\ \A r \in Requests : pc[r] = "join_member" => join[loc[r].x] = "pending"
         /\ \A x \in Users : member[x].is /\ member[x].st = "pending_approval"
              => \/ join[x] = "pending"
                 \/ \E r \in Requests : pc[r] = "review_member" /\ loc[r].x = x

\* The invitation that is being accepted has not been revoked.
AcceptInv ==
    "seats" \notin overlap
      => \A r \in Requests : pc[r] \in {"create_user", "accept_join", "accept_close"}
                               => loc[r].k \in 1 .. MaxInvites /\ inv[loc[r].k].st # "revoked"

----------------------------------------------------------------------------
(* Types and places                                                        *)

\* Requests other than r stay where they are.
Others(r) == \A q \in Requests \ {r} : pc'[q] = pc[q] /\ loc'[q] = loc[q]

LEMMA MoveTyped ==
  ASSUME Typed, NEW r \in Requests, NEW label \in PCs, NEW l \in Locals,
         Fits(label, l), Move(r, label, l)
  PROVE  /\ pc' \in [Requests -> PCs] /\ loc' \in [Requests -> Locals]
         /\ \A q \in Requests : Fits(pc'[q], loc'[q])
         /\ Others(r) /\ pc'[r] = label /\ loc'[r] = l
<1>1. /\ pc' \in [Requests -> PCs] /\ loc' \in [Requests -> Locals]
      /\ Others(r) /\ pc'[r] = label /\ loc'[r] = l
  BY DEF Typed, TypeOK, Move, Others
<1> QED  BY <1>1 DEF Typed, Others

LEMMA AboutTyped ==
  ASSUME NEW about \in Concerns \cup {"none"}, NEW x \in Users
  PROVE  /\ About(about, x) \in Locals /\ NoLocals \in Locals
         /\ About(about, x).about = about /\ About(about, x).x = x
<1>1. NoLocals \in Locals
  BY FounderAssumption, BoundsAssumption DEF NoLocals, Locals, Roles
<1> HIDE DEF NoLocals
<1>2. /\ About(about, x) \in Locals
      /\ About(about, x).about = about /\ About(about, x).x = x
  BY <1>1 DEF About, Locals
<1> QED  BY <1>1, <1>2

LEMMA ReturnTyped ==
  ASSUME Typed, NEW r \in Requests, Return(r)
  PROVE  /\ pc' \in [Requests -> PCs] /\ loc' \in [Requests -> Locals]
         /\ \A q \in Requests : Fits(pc'[q], loc'[q])
         /\ Others(r) /\ pc'[r] = "idle" /\ loc'[r] = NoLocals
<1>1. NoLocals \in Locals /\ "idle" \in PCs
  BY AboutTyped, FounderAssumption DEF PCs
<1>2. Fits("idle", NoLocals)
  BY DEF Fits, AdminPlaces, SeatPlaces, JoinPlaces
<1> QED  BY <1>1, <1>2, MoveTyped DEF Return

LEMMA GotoTyped ==
  ASSUME Typed, NEW r \in Requests, NEW label \in PCs, Fits(label, loc[r]), Goto(r, label)
  PROVE  /\ pc' \in [Requests -> PCs] /\ loc' \in [Requests -> Locals]
         /\ \A q \in Requests : Fits(pc'[q], loc'[q])
         /\ Others(r) /\ pc'[r] = label /\ loc'[r] = loc[r]
<1>1. loc[r] \in Locals
  BY DEF Typed, TypeOK
<1> QED  BY <1>1, MoveTyped DEF Goto

LEMMA EnterHistory ==
  ASSUME Typed, NEW r \in Requests, NEW op, NEW about \in Concerns, Enter(r, op, about)
  PROVE  /\ left' \in 0 .. MaxReqs /\ overlap' \subseteq Concerns
         /\ UNCHANGED <<broken, assigned>>
  BY BoundsAssumption DEF Typed, TypeOK, Enter

LEMMA BeginTyped ==
  ASSUME Typed, NEW r \in Requests, NEW op, NEW about \in Concerns,
         Begin(r, op, about) \/ Alone(r, op)
  PROVE  /\ left' \in 0 .. MaxReqs /\ overlap' \subseteq Concerns
         /\ UNCHANGED <<broken, unguarded, assigned>>
  BY EnterHistory, BoundsAssumption DEF Typed, TypeOK, Begin, Alone

\* What is typed when nothing but a request and the history move.
LEMMA RowsTyped ==
  ASSUME Typed, UNCHANGED <<org, people, inv>>,
         pc' \in [Requests -> PCs], loc' \in [Requests -> Locals],
         \A q \in Requests : Fits(pc'[q], loc'[q]),
         left' \in 0 .. MaxReqs, overlap' \subseteq Concerns,
         broken' \in BOOLEAN, unguarded' \in BOOLEAN, assigned' \subseteq Users
  PROVE  Typed'
  BY DEF Typed, TypeOK, people

\* A step of r moves nobody else; and where r is now under way about a concern
\* without an overlap, either it was before or nobody else is.
Quiet(r) ==
    /\ Others(r) /\ overlap \subseteq overlap'
    /\ \A about \in Concerns \ overlap' :
         pc'[r] # "idle" /\ loc'[r].about = about
           => Busy(r, about) \/ \A q \in Requests \ {r} : ~Busy(q, about)

\* A request that enters, and one that goes on.
LEMMA EnterQuiet ==
  ASSUME Typed, NEW r \in Requests, NEW op, NEW about \in Concerns, NEW l,
         Enter(r, op, about), NEW label, Others(r),
         pc'[r] = "idle" \/ (pc'[r] = label /\ loc'[r] = l /\ l.about = about)
  PROVE  Quiet(r)
  BY DEF Quiet, Enter, Busy

LEMMA GoOnQuiet ==
  ASSUME Typed, NEW r \in Requests, UNCHANGED overlap, Others(r),
         pc'[r] = "idle" \/ (pc[r] # "idle" /\ loc'[r].about = loc[r].about)
  PROVE  Quiet(r)
  BY DEF Quiet, Busy

LEMMA StillQuiet ==
  ASSUME Typed, NEW r \in Requests, pc[r] = "idle", UNCHANGED <<pc, loc>>, overlap \subseteq overlap'
  PROVE  Quiet(r) /\ \A q \in Requests : Fits(pc'[q], loc'[q])
  BY DEF Quiet, Busy, Others, Typed

\* Entering with what a request remembers.
LEMMA EnterTyped ==
  ASSUME Typed, NEW r \in Requests, NEW op, NEW about \in Concerns, Enter(r, op, about),
         unguarded' \in BOOLEAN, NEW l \in Locals, l.about = about, NEW label \in PCs, Fits(label, l),
         Move(r, label, l), UNCHANGED <<org, people, inv>>
  PROVE  Typed' /\ Quiet(r)
<1>1. /\ pc' \in [Requests -> PCs] /\ loc' \in [Requests -> Locals]
      /\ \A q \in Requests : Fits(pc'[q], loc'[q])
      /\ Others(r) /\ pc'[r] = label /\ loc'[r] = l
  BY MoveTyped
<1>2. /\ left' \in 0 .. MaxReqs /\ overlap' \subseteq Concerns
      /\ UNCHANGED <<broken, assigned>>
  BY EnterHistory
<1>3. broken \in BOOLEAN /\ assigned \subseteq Users
  BY DEF Typed, TypeOK
<1>4. Typed'
  BY <1>1, <1>2, <1>3, RowsTyped
<1> QED  BY <1>1, <1>4, EnterQuiet

\* The same where no administrator is let go.
LEMMA BeginKeepsTypes ==
  ASSUME Typed, NEW r \in Requests, NEW op, NEW about \in Concerns, Begin(r, op, about),
         NEW l \in Locals, l.about = about, NEW label \in PCs, Fits(label, l),
         Move(r, label, l), UNCHANGED <<org, people, inv>>
  PROVE  Typed' /\ Quiet(r)
<1>1. Enter(r, op, about) /\ unguarded' \in BOOLEAN
  BY DEF Begin, Typed, TypeOK
<1> QED  BY <1>1, EnterTyped

\* A statement under way, which then goes to label or returns; its writes are
\* typed by whoever cites this.
LEMMA StatementTyped ==
  ASSUME Typed, NEW r \in Requests, NEW label, At(r, label), label # "idle",
         Return(r) \/ \E next \in PCs : Goto(r, next) /\ Fits(next, loc[r])
  PROVE  /\ pc' \in [Requests -> PCs] /\ loc' \in [Requests -> Locals]
         /\ \A q \in Requests : Fits(pc'[q], loc'[q])
         /\ UNCHANGED <<overlap, broken, unguarded, assigned, left>>
         /\ Quiet(r)
<1>1. CASE Return(r)
  BY <1>1, ReturnTyped, GoOnQuiet DEF At, history
<1>2. ASSUME NEW next \in PCs, Goto(r, next), Fits(next, loc[r])
      PROVE  /\ pc' \in [Requests -> PCs] /\ loc' \in [Requests -> Locals]
             /\ \A q \in Requests : Fits(pc'[q], loc'[q])
             /\ UNCHANGED <<overlap, broken, unguarded, assigned, left>>
             /\ Quiet(r)
  BY <1>2, GotoTyped, GoOnQuiet DEF At, history
<1> QED  BY <1>1, <1>2

LEMMA RoleTyped ==
  ASSUME Typed, NEW r \in Requests, RoleSteps(r)
  PROVE  Typed' /\ Quiet(r)
<1> USE FounderAssumption
<1>1. loc[r] \in Locals /\ Fits(pc[r], loc[r]) /\ loc[r].x \in Users /\ loc[r].role \in Roles
  BY DEF Typed, TypeOK, Locals
<1>2. ASSUME NEW x \in Users, NEW role \in Roles, RoleRead(r, x, role)
      PROVE  Typed' /\ Quiet(r)
  <2> DEFINE l == [About("admins", x) EXCEPT !.role = role]
  <2>1. l \in Locals /\ l.about = "admins" /\ "role_write" \in PCs
    BY AboutTyped DEF Locals, Concerns, PCs
  <2>2. Fits("role_write", l)
    BY <2>1 DEF Fits, AdminPlaces, SeatPlaces, JoinPlaces
  <2>3. Enter(r, "role", "admins") /\ unguarded' \in BOOLEAN
        /\ Move(r, "role_write", l) /\ UNCHANGED <<org, people, inv>>
    BY <1>2 DEF RoleRead, LetGo
  <2> HIDE DEF l
  <2> QED  BY <2>1, <2>2, <2>3, EnterTyped DEF Concerns
<1>3. ASSUME NEW x \in Users, NEW role \in Offered, AssignUserRole(r, x, role)
      PROVE  Typed' /\ Quiet(r)
  <2>1. /\ left' \in 0 .. MaxReqs /\ overlap' \subseteq Concerns
        /\ UNCHANGED <<broken, unguarded, assigned>>
    BY <1>3, BeginTyped DEF AssignUserRole, Concerns
  <2>2. Quiet(r) /\ \A q \in Requests : Fits(pc'[q], loc'[q])
    BY <1>3, StillQuiet DEF AssignUserRole, Begin, Enter
  <2>3. member' \in [Users -> Member]
    BY <1>3, OfferedAssumption DEF AssignUserRole, Typed, TypeOK, Member
  <2> QED  BY <1>3, <2>1, <2>2, <2>3 DEF AssignUserRole, Typed, TypeOK
<1>4. CASE RoleWrite(r)
  <2>1. /\ pc' \in [Requests -> PCs] /\ loc' \in [Requests -> Locals]
        /\ \A q \in Requests : Fits(pc'[q], loc'[q])
        /\ UNCHANGED <<overlap, broken, unguarded, assigned, left>>
        /\ Quiet(r)
    <3>1. Fits("role_member", loc[r]) /\ "role_member" \in PCs
      BY <1>1, <1>4 DEF RoleWrite, At, Fits, AdminPlaces, SeatPlaces, JoinPlaces, PCs
    <3> QED  BY <1>4, <3>1, StatementTyped DEF RoleWrite
  <2>2. user' \in [Users -> User]
    BY <1>1, <1>4 DEF RoleWrite, Typed, TypeOK, User
  <2> QED  BY <1>4, <2>1, <2>2 DEF RoleWrite, Typed, TypeOK
<1>5. CASE RoleMember(r) \/ AssignMember(r)
  <2>1. /\ pc' \in [Requests -> PCs] /\ loc' \in [Requests -> Locals]
        /\ \A q \in Requests : Fits(pc'[q], loc'[q])
        /\ UNCHANGED <<overlap, broken, unguarded, assigned, left>>
        /\ Quiet(r)
    BY <1>5, StatementTyped DEF RoleMember, AssignMember
  <2>2. member' \in [Users -> Member]
    <3>1. CASE AssignMember(r)
      BY <1>1, <3>1 DEF AssignMember, Joined, Typed, TypeOK, Member, Roles
    <3>2. CASE RoleMember(r)
      <4>1. Joined(loc[r].role) \in Member
        BY <1>1 DEF Joined, Member
      <4>2. [member[loc[r].x] EXCEPT !.role = loc[r].role] \in Member
        BY <1>1 DEF Typed, TypeOK, Member
      <4> QED  BY <1>1, <3>2, <4>1, <4>2 DEF RoleMember, Typed, TypeOK
    <3> QED  BY <1>5, <3>1, <3>2
  <2> QED  BY <1>5, <2>1, <2>2 DEF RoleMember, AssignMember, Typed, TypeOK
<1>6. ASSUME NEW x \in Users, Assign(r, x)
      PROVE  Typed' /\ Quiet(r)
  <2> DEFINE l == About("none", x)
  <2>1. l \in Locals /\ l.about = "none" /\ "assign_member" \in PCs
    BY AboutTyped DEF PCs
  <2>2. Fits("assign_member", l)
    BY DEF Fits, AdminPlaces, SeatPlaces, JoinPlaces
  <2>3. Move(r, "assign_member", l) /\ UNCHANGED overlap
    BY <1>6 DEF Assign
  <2> HIDE DEF l
  <2>4. /\ pc' \in [Requests -> PCs] /\ loc' \in [Requests -> Locals]
        /\ \A q \in Requests : Fits(pc'[q], loc'[q])
        /\ Others(r) /\ pc'[r] = "assign_member" /\ loc'[r] = l
    BY <2>1, <2>2, <2>3, MoveTyped
  <2>5. Quiet(r)
    BY <2>1, <2>3, <2>4 DEF Quiet, Concerns
  <2>6. user' \in [Users -> User] /\ assigned' \subseteq Users /\ left' \in 0 .. MaxReqs
    <3>1. [user[x] EXCEPT !.role = "admin", !.here = TRUE, !.st = "active"] \in User
      BY DEF Typed, TypeOK, User, Roles
    <3> QED  BY <1>6, <3>1, BoundsAssumption DEF Assign, Typed, TypeOK
  <2> QED  BY <1>6, <2>4, <2>5, <2>6 DEF Assign, Typed, TypeOK
<1> QED  BY <1>2, <1>3, <1>4, <1>5, <1>6, OfferedAssumption DEF RoleSteps

LEMMA LeaveTyped ==
  ASSUME Typed, NEW r \in Requests, LeaveSteps(r)
  PROVE  Typed' /\ Quiet(r)
<1>1. loc[r] \in Locals /\ Fits(pc[r], loc[r]) /\ loc[r].x \in Users
  BY DEF Typed, TypeOK, Locals
<1>2. ASSUME NEW x \in Users, RemoveRead(r, x) \/ DeleteRead(r, x)
      PROVE  Typed' /\ Quiet(r)
  <2> DEFINE l == About("admins", x)
  <2>1. l \in Locals /\ l.about = "admins"
    BY AboutTyped DEF Concerns
  <2>2. \A label \in {"remove_member", "close_org", "delete_commit"} :
            label \in PCs /\ Fits(label, l)
    BY <2>1 DEF Fits, AdminPlaces, SeatPlaces, JoinPlaces, PCs
  <2>3. \E op, label \in {"remove", "delete", "remove_member", "close_org", "delete_commit"} :
            /\ label \in {"remove_member", "close_org", "delete_commit"}
            /\ Enter(r, op, "admins") /\ unguarded' \in BOOLEAN
            /\ Move(r, label, l) /\ UNCHANGED <<org, people, inv>>
    <3>1. CASE RemoveRead(r, x)
      BY <3>1 DEF RemoveRead, LetGo
    <3>2. CASE DeleteRead(r, x)
      BY <3>2 DEF DeleteRead, LetGo
    <3> QED  BY <1>2, <3>1, <3>2
  <2> HIDE DEF l
  <2> QED  BY <2>1, <2>2, <2>3, EnterTyped DEF Concerns
<1>3. ASSUME NEW x \in Users, NEW st \in {"active", "suspended"}, StatusRead(r, x, st)
      PROVE  Typed' /\ Quiet(r)
  <2> DEFINE l == [About("admins", x) EXCEPT !.say = st]
  <2>1. l \in Locals /\ l.about = "admins" /\ l.say = st /\ "status_write" \in PCs
    BY AboutTyped DEF Locals, Concerns, PCs
  <2>2. Fits("status_write", l)
    BY <2>1 DEF Fits, AdminPlaces, SeatPlaces, JoinPlaces
  <2>3. Enter(r, "status", "admins") /\ unguarded' \in BOOLEAN
        /\ Move(r, "status_write", l) /\ UNCHANGED <<org, people, inv>>
    BY <1>3 DEF StatusRead, LetGo
  <2> HIDE DEF l
  <2> QED  BY <2>1, <2>2, <2>3, EnterTyped DEF Concerns
<1>4. CASE RemoveMember(r)
  <2>1. Fits("remove_user", loc[r]) /\ "remove_user" \in PCs
    BY <1>1, <1>4 DEF RemoveMember, At, Fits, AdminPlaces, SeatPlaces, JoinPlaces, PCs
  <2>2. /\ pc' \in [Requests -> PCs] /\ loc' \in [Requests -> Locals]
        /\ \A q \in Requests : Fits(pc'[q], loc'[q])
        /\ UNCHANGED <<overlap, broken, unguarded, assigned, left>>
        /\ Quiet(r)
    BY <1>4, <2>1, StatementTyped DEF RemoveMember
  <2>3. member' \in [Users -> Member]
    BY <1>4 DEF RemoveMember, NoMember, Typed, TypeOK, Member, Roles
  <2> QED  BY <1>4, <2>2, <2>3 DEF RemoveMember, Typed, TypeOK
<1>5. CASE RemoveUser(r)
  <2>1. /\ pc' \in [Requests -> PCs] /\ loc' \in [Requests -> Locals]
        /\ \A q \in Requests : Fits(pc'[q], loc'[q])
        /\ UNCHANGED <<overlap, broken, unguarded, assigned, left>>
        /\ Quiet(r)
    BY <1>5, StatementTyped DEF RemoveUser
  <2>2. user' \in [Users -> User]
    <3>1. \A u \in User : [u EXCEPT !.st = "suspended", !.gone = TRUE] \in User
      BY DEF User
    <3>2. user[loc[r].x] \in User
      BY <1>1 DEF Typed, TypeOK
    <3> QED  BY <1>5, <3>1, <3>2 DEF RemoveUser, Typed, TypeOK
  <2> QED  BY <1>5, <2>1, <2>2 DEF RemoveUser, Typed, TypeOK
<1>6. CASE StatusWrite(r)
  <2>1. Fits("status_member", loc[r]) /\ "status_member" \in PCs
    BY <1>1, <1>6 DEF StatusWrite, At, Fits, AdminPlaces, SeatPlaces, JoinPlaces, PCs
  <2>2. /\ pc' \in [Requests -> PCs] /\ loc' \in [Requests -> Locals]
        /\ \A q \in Requests : Fits(pc'[q], loc'[q])
        /\ UNCHANGED <<overlap, broken, unguarded, assigned, left>>
        /\ Quiet(r)
    BY <1>6, <2>1, StatementTyped DEF StatusWrite
  <2>3. loc[r].say \in {"active", "suspended"}
    BY <1>1, <1>6 DEF StatusWrite, At, Fits
  <2>4. user' \in [Users -> User]
    BY <1>1, <1>6, <2>3 DEF StatusWrite, Typed, TypeOK, User
  <2> QED  BY <1>6, <2>2, <2>4 DEF StatusWrite, Typed, TypeOK
<1>7. CASE StatusMember(r)
  <2>1. /\ pc' \in [Requests -> PCs] /\ loc' \in [Requests -> Locals]
        /\ \A q \in Requests : Fits(pc'[q], loc'[q])
        /\ UNCHANGED <<overlap, broken, unguarded, assigned, left>>
        /\ Quiet(r)
    BY <1>7, StatementTyped DEF StatusMember
  <2>2. loc[r].say \in {"active", "suspended"}
    BY <1>1, <1>7 DEF StatusMember, At, Fits
  <2>3. [member[loc[r].x] EXCEPT !.st = loc[r].say] \in Member
    BY <1>1, <2>2 DEF Typed, TypeOK, Member
  <2>4. member' \in [Users -> Member]
    BY <1>1, <1>7, <2>3 DEF StatusMember, Typed, TypeOK
  <2> QED  BY <1>7, <2>1, <2>4 DEF StatusMember, Typed, TypeOK
<1>8. CASE CloseOrg(r)
  <2>1. Fits("delete_commit", loc[r]) /\ "delete_commit" \in PCs
    BY <1>1, <1>8 DEF CloseOrg, At, Fits, AdminPlaces, SeatPlaces, JoinPlaces, PCs
  <2>2. /\ pc' \in [Requests -> PCs] /\ loc' \in [Requests -> Locals]
        /\ \A q \in Requests : Fits(pc'[q], loc'[q])
        /\ UNCHANGED <<overlap, broken, unguarded, assigned, left>>
        /\ Quiet(r)
    BY <1>8, <2>1, StatementTyped DEF CloseOrg
  <2>3. org' \in Organisation
    BY <1>8 DEF CloseOrg, Typed, TypeOK, Organisation
  <2> QED  BY <1>8, <2>2, <2>3 DEF CloseOrg, people, Typed, TypeOK
<1>9. CASE DeleteCommit(r)
  <2>1. /\ pc' \in [Requests -> PCs] /\ loc' \in [Requests -> Locals]
        /\ \A q \in Requests : Fits(pc'[q], loc'[q])
        /\ UNCHANGED <<overlap, broken, unguarded, assigned, left>>
        /\ Quiet(r)
    BY <1>9, StatementTyped DEF DeleteCommit
  <2>2. user' \in [Users -> User]
    <3>1. \A u \in User : [u EXCEPT !.st = "deleted", !.gone = TRUE] \in User
      BY DEF User
    <3>2. user[loc[r].x] \in User
      BY <1>1 DEF Typed, TypeOK
    <3> QED  BY <1>9, <3>1, <3>2 DEF DeleteCommit, Typed, TypeOK
  <2>3. member' \in [Users -> Member]
    <3>1. [member[loc[r].x] EXCEPT !.st = "suspended"] \in Member
      BY <1>1 DEF Typed, TypeOK, Member
    <3> QED  BY <1>1, <1>9, <3>1 DEF DeleteCommit, Typed, TypeOK
  <2> QED  BY <1>9, <2>1, <2>2, <2>3 DEF DeleteCommit, Typed, TypeOK
<1> QED  BY <1>2, <1>3, <1>4, <1>5, <1>6, <1>7, <1>8, <1>9 DEF LeaveSteps

LEMMA InviteTyped ==
  ASSUME Typed, NEW r \in Requests, InviteSteps(r)
  PROVE  Typed' /\ Quiet(r)
<1> USE FounderAssumption
<1>1. /\ loc[r] \in Locals /\ Fits(pc[r], loc[r])
      /\ loc[r].x \in Users /\ loc[r].role \in Roles /\ loc[r].k \in 0 .. MaxInvites
  BY DEF Typed, TypeOK, Locals
<1>2. /\ inv \in [1 .. MaxInvites -> Invitation]
      /\ \A k \in 1 .. MaxInvites : inv[k].to \in Users /\ inv[k].role \in Roles
      /\ \A k \in 1 .. MaxInvites : k \in 0 .. MaxInvites
  BY BoundsAssumption DEF Typed, TypeOK, Invitation
<1>3. \A v \in Invitation :
        /\ \A st \in {"pending", "revoked", "expired", "accepted"} : [v EXCEPT !.st = st] \in Invitation
        /\ [v EXCEPT !.link = "mailed", !.by = {}] \in Invitation
        /\ [v EXCEPT !.st = "pending", !.link = "new", !.by = {r}] \in Invitation
  BY DEF Invitation
<1>4. ASSUME NEW x \in Users, NEW role \in Offered, InviteRead(r, x, role)
      PROVE  Typed' /\ Quiet(r)
  <2> DEFINE l == [About("seats", x) EXCEPT !.role = role]
  <2>1. l \in Locals /\ l.about = "seats" /\ "invite_revoke" \in PCs
    BY AboutTyped, OfferedAssumption DEF Locals, Concerns, PCs
  <2>2. Fits("invite_revoke", l)
    BY <2>1 DEF Fits, AdminPlaces, SeatPlaces, JoinPlaces
  <2>3. Begin(r, "invite", "seats") /\ Move(r, "invite_revoke", l) /\ UNCHANGED <<org, people, inv>>
    BY <1>4 DEF InviteRead
  <2> HIDE DEF l
  <2> QED  BY <2>1, <2>2, <2>3, BeginKeepsTypes DEF Concerns
<1>5. ASSUME NEW k \in 1 .. MaxInvites, RevokeRead(r, k)
      PROVE  Typed' /\ Quiet(r)
  <2> DEFINE l == [About("seats", inv[k].to) EXCEPT !.k = k]
  <2>1. l \in Locals /\ l.about = "seats" /\ "revoke_write" \in PCs
    BY <1>2, AboutTyped DEF Locals, Concerns, PCs
  <2>2. Fits("revoke_write", l)
    BY <2>1 DEF Fits, AdminPlaces, SeatPlaces, JoinPlaces
  <2>3. Begin(r, "revoke", "seats") /\ Move(r, "revoke_write", l) /\ UNCHANGED <<org, people, inv>>
    BY <1>5 DEF RevokeRead
  <2> HIDE DEF l
  <2> QED  BY <2>1, <2>2, <2>3, BeginKeepsTypes DEF Concerns
<1>6. ASSUME NEW k \in 1 .. MaxInvites, AcceptRead(r, k)
      PROVE  Typed' /\ Quiet(r)
  <2> DEFINE l == [About("seats", inv[k].to) EXCEPT !.k = k, !.role = inv[k].role]
  <2>1. l \in Locals /\ l.about = "seats"
    <3>1. \A m \in Locals : LET n == [m EXCEPT !.k = k, !.role = inv[k].role]
                           IN  n \in Locals /\ n.about = m.about
      BY <1>2 DEF Locals
    <3> QED  BY <1>2, <3>1, AboutTyped DEF Concerns
  <2>2. \A label \in {"accept_join", "create_user"} : label \in PCs /\ Fits(label, l)
    BY <2>1 DEF Fits, AdminPlaces, SeatPlaces, JoinPlaces, PCs
  <2>3. \E label \in {"accept_join", "create_user"} :
            Begin(r, "accept", "seats") /\ Move(r, label, l) /\ UNCHANGED <<org, people, inv>>
    BY <1>6 DEF AcceptRead
  <2> HIDE DEF l
  <2> QED  BY <2>1, <2>2, <2>3, BeginKeepsTypes DEF Concerns
<1>7. ASSUME NEW k \in 1 .. MaxInvites, Resend(r, k)
      PROVE  Typed' /\ Quiet(r)
  <2> DEFINE l == [About("seats", inv[k].to) EXCEPT !.k = k]
  <2>1. l \in Locals /\ l.about = "seats" /\ "invite_mail" \in PCs
    BY <1>2, AboutTyped DEF Locals, Concerns, PCs
  <2>2. Fits("invite_mail", l)
    BY <2>1 DEF Fits, AdminPlaces, SeatPlaces, JoinPlaces
  <2>3. Begin(r, "resend", "seats") /\ Move(r, "invite_mail", l) /\ UNCHANGED <<org, people>>
    BY <1>7 DEF Resend
  <2>4. inv' \in [1 .. MaxInvites -> Invitation]
    BY <1>2, <1>3, <1>7 DEF Resend
  <2> HIDE DEF l
  <2>5. /\ pc' \in [Requests -> PCs] /\ loc' \in [Requests -> Locals]
        /\ \A q \in Requests : Fits(pc'[q], loc'[q])
        /\ Others(r) /\ pc'[r] = "invite_mail" /\ loc'[r] = l
    BY <2>1, <2>2, <2>3, MoveTyped
  <2>6. /\ left' \in 0 .. MaxReqs /\ overlap' \subseteq Concerns
        /\ UNCHANGED <<broken, unguarded, assigned>>
    BY <2>3, BeginTyped DEF Concerns
  <2>7. Quiet(r)
    BY <2>1, <2>3, <2>5, EnterQuiet DEF Begin, Concerns
  <2> QED  BY <2>3, <2>4, <2>5, <2>6, <2>7 DEF people, Typed, TypeOK
<1>8. ASSUME NEW k \in 1 .. MaxInvites, OpenExpired(r, k)
      PROVE  Typed' /\ Quiet(r)
  <2>1. /\ left' \in 0 .. MaxReqs /\ overlap' \subseteq Concerns
        /\ UNCHANGED <<broken, unguarded, assigned>>
    BY <1>8, BeginTyped DEF OpenExpired, Concerns
  <2>2. Quiet(r) /\ \A q \in Requests : Fits(pc'[q], loc'[q])
    BY <1>8, StillQuiet DEF OpenExpired, Begin, Enter
  <2>3. inv' \in [1 .. MaxInvites -> Invitation]
    BY <1>2, <1>3, <1>8 DEF OpenExpired
  <2> QED  BY <1>8, <2>1, <2>2, <2>3 DEF OpenExpired, people, Typed, TypeOK
<1>9. CASE InviteRevoke(r)
  <2>1. Fits("invite_create", loc[r]) /\ "invite_create" \in PCs
    BY <1>1, <1>9 DEF InviteRevoke, At, Fits, AdminPlaces, SeatPlaces, JoinPlaces, PCs
  <2>2. /\ pc' \in [Requests -> PCs] /\ loc' \in [Requests -> Locals]
        /\ \A q \in Requests : Fits(pc'[q], loc'[q])
        /\ UNCHANGED <<overlap, broken, unguarded, assigned, left>>
        /\ Quiet(r)
    BY <1>9, <2>1, StatementTyped DEF InviteRevoke
  <2>3. inv' \in [1 .. MaxInvites -> Invitation]
    BY <1>2, <1>3, <1>9 DEF InviteRevoke
  <2> QED  BY <1>9, <2>2, <2>3 DEF InviteRevoke, people, Typed, TypeOK
<1>10. CASE InviteMail(r) \/ RevokeWrite(r) \/ AcceptClose(r)
  <2>1. /\ pc' \in [Requests -> PCs] /\ loc' \in [Requests -> Locals]
        /\ \A q \in Requests : Fits(pc'[q], loc'[q])
        /\ UNCHANGED <<overlap, broken, unguarded, assigned, left>>
        /\ Quiet(r)
    BY <1>10, StatementTyped DEF InviteMail, RevokeWrite, AcceptClose
  <2>2. inv' \in [1 .. MaxInvites -> Invitation]
    <3>1. CASE InviteMail(r)
      BY <1>2, <1>3, <3>1 DEF InviteMail
    <3>2. CASE RevokeWrite(r)
      BY <1>2, <1>3, <3>2 DEF RevokeWrite
    <3>3. CASE AcceptClose(r)
      BY <1>2, <1>3, <3>3 DEF AcceptClose
    <3> QED  BY <1>10, <3>1, <3>2, <3>3
  <2> QED  BY <1>10, <2>1, <2>2 DEF InviteMail, RevokeWrite, AcceptClose, people, Typed, TypeOK
<1>11. CASE InviteCreate(r)
  <2>1. PICK k \in 1 .. MaxInvites :
          /\ inv' = [inv EXCEPT ![k] = [st |-> "pending", to |-> loc[r].x, role |-> loc[r].role,
                                        link |-> "new", by |-> {r}]]
          /\ Move(r, "invite_mail", [loc[r] EXCEPT !.k = k])
    BY <1>11 DEF InviteCreate
  <2> DEFINE l == [loc[r] EXCEPT !.k = k]
  <2>2. l \in Locals /\ l.about = "seats" /\ loc[r].about = "seats" /\ "invite_mail" \in PCs
    BY <1>1, <1>2, <1>11 DEF Locals, PCs, InviteCreate, At, Fits, SeatPlaces
  <2>3. Fits("invite_mail", l)
    BY <2>2 DEF Fits, AdminPlaces, SeatPlaces, JoinPlaces
  <2>4. Move(r, "invite_mail", l)
    BY <2>1
  <2> HIDE DEF l
  <2>5. /\ pc' \in [Requests -> PCs] /\ loc' \in [Requests -> Locals]
        /\ \A q \in Requests : Fits(pc'[q], loc'[q])
        /\ Others(r) /\ pc'[r] = "invite_mail" /\ loc'[r] = l
    BY <2>2, <2>3, <2>4, MoveTyped
  <2>6. pc[r] # "idle" /\ UNCHANGED <<overlap, broken, unguarded, assigned, left>>
    BY <1>11 DEF InviteCreate, At, history
  <2>7. Quiet(r)
    BY <2>2, <2>5, <2>6, GoOnQuiet
  <2>8. inv' \in [1 .. MaxInvites -> Invitation]
    BY <1>1, <1>2, <2>1 DEF Invitation
  <2> QED  BY <1>11, <2>5, <2>6, <2>7, <2>8 DEF InviteCreate, people, Typed, TypeOK
<1>12. CASE CreateUser(r)
  <2>1. Fits("accept_join", loc[r]) /\ "accept_join" \in PCs
    BY <1>1, <1>12 DEF CreateUser, At, Fits, AdminPlaces, SeatPlaces, JoinPlaces, PCs
  <2>2. /\ pc' \in [Requests -> PCs] /\ loc' \in [Requests -> Locals]
        /\ \A q \in Requests : Fits(pc'[q], loc'[q])
        /\ UNCHANGED <<overlap, broken, unguarded, assigned, left>>
        /\ Quiet(r)
    BY <1>12, <2>1, StatementTyped DEF CreateUser, Throw
  <2>3. user' \in [Users -> User]
    <3>1. [st |-> "active", role |-> loc[r].role, here |-> TRUE, gone |-> FALSE] \in User
      BY <1>1 DEF User
    <3> QED  BY <1>12, <3>1 DEF CreateUser, Throw, people, Typed, TypeOK
  <2> QED  BY <1>12, <2>2, <2>3 DEF CreateUser, Throw, people, Typed, TypeOK
<1>13. CASE AcceptJoin(r)
  <2>1. Fits("accept_close", loc[r]) /\ "accept_close" \in PCs
    BY <1>1, <1>13 DEF AcceptJoin, At, Fits, AdminPlaces, SeatPlaces, JoinPlaces, PCs
  <2>2. /\ pc' \in [Requests -> PCs] /\ loc' \in [Requests -> Locals]
        /\ \A q \in Requests : Fits(pc'[q], loc'[q])
        /\ UNCHANGED <<overlap, broken, unguarded, assigned, left>>
        /\ Quiet(r)
    BY <1>13, <2>1, StatementTyped DEF AcceptJoin
  <2>3. Joined(loc[r].role) \in Member /\ [member[loc[r].x] EXCEPT !.role = loc[r].role] \in Member
    BY <1>1 DEF Joined, Typed, TypeOK, Member
  <2>4. member' \in [Users -> Member]
    BY <1>1, <1>13, <2>3 DEF AcceptJoin, Typed, TypeOK
  <2> QED  BY <1>13, <2>2, <2>4 DEF AcceptJoin, people, Typed, TypeOK
<1> QED
  BY <1>4, <1>5, <1>6, <1>7, <1>8, <1>9, <1>10, <1>11, <1>12, <1>13 DEF InviteSteps

LEMMA JoinTyped ==
  ASSUME Typed, NEW r \in Requests, JoinSteps(r)
  PROVE  Typed' /\ Quiet(r)
<1>1. loc[r] \in Locals /\ Fits(pc[r], loc[r]) /\ loc[r].x \in Users
  BY DEF Typed, TypeOK, Locals
<1>2. \A role \in Roles : /\ Joined(role) \in Member /\ NoMember \in Member
                          /\ [Joined(role) EXCEPT !.st = "pending_approval"] \in Member
  BY DEF Joined, NoMember, Member, Roles
<1>3. ASSUME NEW x \in Users, Register(r, x)
      PROVE  Typed' /\ Quiet(r)
  <2>1. /\ left' \in 0 .. MaxReqs /\ overlap' \subseteq Concerns
        /\ UNCHANGED <<broken, unguarded, assigned>> /\ UNCHANGED overlap
    BY <1>3, BeginTyped DEF Register, Concerns, Alone
  <2>2. Quiet(r) /\ \A q \in Requests : Fits(pc'[q], loc'[q])
    BY <1>3, <2>1, StillQuiet DEF Register, Alone
  <2>3. user' \in [Users -> User]
    BY <1>3 DEF Register, Typed, TypeOK, User
  <2> QED  BY <1>3, <2>1, <2>2, <2>3 DEF Register, Typed, TypeOK
<1>4. ASSUME NEW x \in Users, VerifyEmail(r, x)
      PROVE  Typed' /\ Quiet(r)
  <2> DEFINE l == About("joins", x)
  <2>1. l \in Locals /\ l.about = "joins" /\ "enrol" \in PCs
    BY AboutTyped DEF Concerns, PCs
  <2>2. Fits("enrol", l)
    BY <2>1 DEF Fits, AdminPlaces, SeatPlaces, JoinPlaces
  <2>3. Begin(r, "register", "joins") /\ Move(r, "enrol", l)
    BY <1>4 DEF VerifyEmail
  <2>4. user' \in [Users -> User]
    BY <1>4 DEF VerifyEmail, Typed, TypeOK, User
  <2> HIDE DEF l
  <2>5. /\ pc' \in [Requests -> PCs] /\ loc' \in [Requests -> Locals]
        /\ \A q \in Requests : Fits(pc'[q], loc'[q])
        /\ Others(r) /\ pc'[r] = "enrol" /\ loc'[r] = l
    BY <2>1, <2>2, <2>3, MoveTyped
  <2>6. /\ left' \in 0 .. MaxReqs /\ overlap' \subseteq Concerns
        /\ UNCHANGED <<broken, unguarded, assigned>>
    BY <2>3, BeginTyped DEF Concerns
  <2>7. Quiet(r)
    BY <2>1, <2>3, <2>5, EnterQuiet DEF Begin, Concerns
  <2> QED  BY <1>4, <2>4, <2>5, <2>6, <2>7 DEF VerifyEmail, Typed, TypeOK
<1>5. ASSUME NEW x \in Users, NEW decision \in {"approve", "reject"}, ReviewRead(r, x, decision)
      PROVE  Typed' /\ Quiet(r)
  <2> DEFINE l == [About("joins", x) EXCEPT !.say = decision]
  <2>1. l \in Locals /\ l.about = "joins" /\ l.say = decision /\ "review_write" \in PCs
    BY AboutTyped DEF Locals, Concerns, PCs
  <2>2. Fits("review_write", l)
    BY <2>1 DEF Fits, AdminPlaces, SeatPlaces, JoinPlaces
  <2>3. Begin(r, "review", "joins") /\ Move(r, "review_write", l) /\ UNCHANGED <<org, people, inv>>
    BY <1>5 DEF ReviewRead
  <2> HIDE DEF l
  <2> QED  BY <2>1, <2>2, <2>3, BeginKeepsTypes DEF Concerns
<1>6. CASE Enrol(r) \/ JoinRequest(r) \/ ReviewWrite(r)
  <2>1. \A label \in {"auto_join", "join_request", "join_member"} :
            label \in PCs /\ Fits(label, loc[r])
    BY <1>1, <1>6 DEF Enrol, JoinRequest, ReviewWrite, At, Fits, AdminPlaces, SeatPlaces,
       JoinPlaces, PCs
  <2>2. ReviewWrite(r) => "review_member" \in PCs /\ Fits("review_member", loc[r])
    BY <1>1 DEF ReviewWrite, At, Fits, AdminPlaces, SeatPlaces, JoinPlaces, PCs
  <2>3. /\ pc' \in [Requests -> PCs] /\ loc' \in [Requests -> Locals]
        /\ \A q \in Requests : Fits(pc'[q], loc'[q])
        /\ UNCHANGED <<overlap, broken, unguarded, assigned, left>>
        /\ Quiet(r)
    BY <1>6, <2>1, <2>2, StatementTyped DEF Enrol, JoinRequest, ReviewWrite
  <2>4. join' \in [Users -> {"none", "pending", "approved", "rejected"}]
    BY <1>6 DEF Enrol, JoinRequest, ReviewWrite, people, Typed, TypeOK
  <2> QED  BY <1>6, <2>3, <2>4 DEF Enrol, JoinRequest, ReviewWrite, people, Typed, TypeOK
<1>7. CASE AutoJoin(r) \/ JoinMember(r) \/ ReviewMember(r)
  <2>1. /\ pc' \in [Requests -> PCs] /\ loc' \in [Requests -> Locals]
        /\ \A q \in Requests : Fits(pc'[q], loc'[q])
        /\ UNCHANGED <<overlap, broken, unguarded, assigned, left>>
        /\ Quiet(r)
    BY <1>7, StatementTyped DEF AutoJoin, JoinMember, ReviewMember
  <2>2. "member" \in Roles /\ member \in [Users -> Member]
    BY DEF Roles, Typed, TypeOK
  <2>3. member' \in [Users -> Member]
    BY <1>2, <1>7, <2>2 DEF AutoJoin, JoinMember, ReviewMember
  <2> QED  BY <1>7, <2>1, <2>3 DEF AutoJoin, JoinMember, ReviewMember, Typed, TypeOK
<1> QED  BY <1>3, <1>4, <1>5, <1>6, <1>7 DEF JoinSteps

LEMMA OrgTyped ==
  ASSUME Typed, NEW r \in Requests, OrgSteps(r)
  PROVE  Typed' /\ Quiet(r)
<1>1. /\ pc[r] = "idle" /\ left' \in 0 .. MaxReqs /\ UNCHANGED <<people, inv, pc, loc>>
      /\ UNCHANGED <<overlap, broken, unguarded, assigned>>
  BY BoundsAssumption DEF OrgSteps, VerifyDomain, SetPolicy, DeleteOrg, Alone, Typed, TypeOK
<1>2. org' \in Organisation
  BY DEF OrgSteps, VerifyDomain, SetPolicy, DeleteOrg, Typed, TypeOK, Organisation
<1>3. Quiet(r) /\ \A q \in Requests : Fits(pc'[q], loc'[q])
  BY <1>1, StillQuiet
<1> QED  BY <1>1, <1>2, <1>3 DEF people, Typed, TypeOK

LEMMA AbortTyped ==
  ASSUME Typed, NEW r \in Requests, Abort(r)
  PROVE  Typed' /\ Quiet(r) /\ pc'[r] = "idle"
<1>1. /\ pc' \in [Requests -> PCs] /\ loc' \in [Requests -> Locals]
      /\ \A q \in Requests : Fits(pc'[q], loc'[q])
      /\ Others(r) /\ pc'[r] = "idle" /\ loc'[r] = NoLocals
  BY ReturnTyped DEF Abort
<1>2. broken' \in BOOLEAN
  BY DEF Abort, Typed, TypeOK
<1>3. Quiet(r)
  BY <1>1, GoOnQuiet DEF Abort
<1> QED  BY <1>1, <1>2, <1>3 DEF Abort, people, Typed, TypeOK

LEMMA ExpireTyped ==
  ASSUME Typed, NEW k \in 1 .. MaxInvites, Expire(k)
  PROVE  Typed'
<1>1. inv' \in [1 .. MaxInvites -> Invitation]
  BY DEF Expire, Typed, TypeOK, Invitation
<1> QED  BY <1>1 DEF Expire, people, history, Typed, TypeOK

Steps(r) == RoleSteps(r) \/ LeaveSteps(r) \/ InviteSteps(r) \/ JoinSteps(r) \/ OrgSteps(r) \/ Abort(r)

LEMMA StepTyped ==
  ASSUME Typed, NEW r \in Requests, Steps(r)
  PROVE  Typed' /\ Quiet(r)
  BY RoleTyped, LeaveTyped, InviteTyped, JoinTyped, OrgTyped, AbortTyped DEF Steps

\* One request under way about a concern stays the only one.
LEMMA SoloKept ==
  ASSUME Solo, NEW r \in Requests, Quiet(r)
  PROVE  Solo'
  BY DEF Solo, Quiet, Others, Busy

----------------------------------------------------------------------------
(* An administrator remains                                                *)

LEMMA LoserIsNotTheLast ==
  ASSUME NEW x \in Users, MayLose(x)
  PROVE  Admins \ {x} # {}
<1>1. SUFFICES ASSUME Admins \ {x} = {} PROVE FALSE
  OBVIOUS
<1>2. Admins = {} \/ Admins = {x}
  BY <1>1
<1>3. Cardinality({}) = 0 /\ Cardinality({x}) = 1
  BY FS_EmptySet, FS_Singleton
<1> QED  BY <1>2, <1>3 DEF MayLose

\* Whoever is let go is not the last one either.
LEMMA LetGoIsNotTheLast ==
  ASSUME NEW x \in Users, NEW goes \in BOOLEAN, LetGo(x, goes), ~unguarded', goes,
         user[x].role = "admin" => Admins \ {x} # {}, Admins # {}
  PROVE  Admins \ {x} # {}
<1>1. CASE user[x].role = "super_admin"
  <2>1. Admins # {x}
    BY <1>1 DEF LetGo
  <2> QED  BY <2>1
<1>2. CASE user[x].role = "admin"
  BY <1>2
<1>3. CASE user[x].role \notin Counted
  <2>1. x \notin Admins
    BY <1>3 DEF Admins
  <2> QED  BY <2>1
<1> QED  BY <1>1, <1>2, <1>3 DEF Counted

\* A step of r that takes no administrator's office.
LEMMA OfficesKept ==
  ASSUME Typed, AdminInv, NEW r \in Requests, Quiet(r), unguarded => unguarded',
         org'.st = "active" => org.st = "active", Admins \subseteq Admins',
         /\ "admins" \notin overlap /\ ~unguarded' /\ org'.st = "active" /\ Admins # {}
            /\ Unseats(pc'[r], loc'[r])
         => \/ Admins \ {loc'[r].x} # {}
            \/ Unseats(pc[r], loc[r]) /\ loc'[r].x = loc[r].x
  PROVE  AdminInv'
<1>1. SUFFICES ASSUME "admins" \notin overlap, ~unguarded', org.st = "active", org'.st = "active",
                      Admins # {},
                      \A q \in Requests : Unseats(pc[q], loc[q]) => Admins \ {loc[q].x} # {}
               PROVE  /\ Admins' # {}
                      /\ \A q \in Requests : Unseats(pc'[q], loc'[q]) => Admins' \ {loc'[q].x} # {}
  BY DEF AdminInv, Quiet
<1>2. ASSUME NEW q \in Requests, Unseats(pc'[q], loc'[q])
      PROVE  Admins' \ {loc'[q].x} # {}
  <2>1. Admins \ {loc'[q].x} # {}
    BY <1>1, <1>2 DEF Quiet, Others
  <2> QED  BY <2>1
<1> QED  BY <1>1, <1>2

\* A step of r that takes one.
LEMMA OfficeTaken ==
  ASSUME Typed, Solo, AdminInv, NEW r \in Requests, Quiet(r), org' = org, UNCHANGED unguarded,
         pc[r] \in AdminPlaces, Unseats(pc[r], loc[r]), ~Unseats(pc'[r], loc'[r]),
         Admins \ {loc[r].x} \subseteq Admins'
  PROVE  AdminInv'
<1>1. SUFFICES ASSUME "admins" \notin overlap, org.st = "active", Admins # {},
                      \A q \in Requests : Unseats(pc[q], loc[q]) => Admins \ {loc[q].x} # {}
               PROVE  /\ Admins' # {}
                      /\ \A q \in Requests : ~Unseats(pc'[q], loc'[q])
  BY DEF AdminInv, Quiet
<1>2. \A q \in Requests : Unseats(pc[q], loc[q]) => Busy(q, "admins")
  BY DEF Typed, Fits, Unseats, AdminPlaces, Busy
<1>3. \A q \in Requests \ {r} : ~Unseats(pc[q], loc[q])
  BY <1>1, <1>2 DEF Solo, Concerns
<1> QED  BY <1>1, <1>3 DEF Quiet, Others

LEMMA RoleAdmin ==
  ASSUME Typed, Solo, AdminInv, NEW r \in Requests, RoleSteps(r)
  PROVE  AdminInv'
<1>1. Quiet(r) /\ pc \in [Requests -> PCs] /\ loc \in [Requests -> Locals] /\ user \in [Users -> User]
  BY RoleTyped DEF Typed, TypeOK
<1>2. ASSUME NEW x \in Users, NEW role \in Roles, RoleRead(r, x, role)
      PROVE  AdminInv'
  <2>1. UNCHANGED <<org, user>> /\ Admins' = Admins
    BY <1>2 DEF RoleRead, people, Admins, Active, Here
  <2>2. pc'[r] = "role_write" /\ loc'[r] = [About("admins", x) EXCEPT !.role = role]
    BY <1>1, <1>2 DEF RoleRead, Move
  <2>3. loc'[r].role = role /\ loc'[r].x = x
    BY <2>2, AboutTyped DEF Locals, Concerns
  <2>4. role = "member" /\ Admins # {} /\ ~unguarded' => Admins \ {x} # {}
    <3>1. role = "member" /\ user[x].role = "admin" => Admins \ {x} # {}
      BY <1>2, LoserIsNotTheLast DEF RoleRead
    <3> QED  BY <1>2, <3>1, LetGoIsNotTheLast DEF RoleRead
  <2>5. unguarded => unguarded'
    BY <1>2 DEF RoleRead, LetGo
  <2> QED  BY <1>1, <2>1, <2>2, <2>3, <2>4, <2>5, OfficesKept DEF Unseats
<1>3. ASSUME NEW x \in Users, NEW role \in Offered, AssignUserRole(r, x, role)
      PROVE  AdminInv'
  <2>1. UNCHANGED <<org, user, pc, loc, unguarded>> /\ Admins' = Admins
    BY <1>3 DEF AssignUserRole, Begin, Admins, Active, Here
  <2> QED  BY <1>1, <2>1, OfficesKept
<1>4. CASE RoleWrite(r)
  <2>1. pc[r] = "role_write" /\ pc'[r] = "role_member" /\ UNCHANGED <<org, unguarded>>
    BY <1>1, <1>4 DEF RoleWrite, At, Goto, Move, history
  <2>2. \A y \in Users \ {loc[r].x} : user'[y] = user[y]
    BY <1>1, <1>4 DEF RoleWrite
  <2>3. Admins \ {loc[r].x} \subseteq Admins'
    BY <2>2 DEF Admins, Active, Here
  <2>4. CASE loc[r].role = "member"
    BY <1>1, <2>1, <2>3, <2>4, OfficeTaken DEF Unseats, AdminPlaces
  <2>5. CASE loc[r].role # "member"
    <3>1. loc[r].role \in Counted
      BY <1>1, <2>5 DEF Locals, Roles, Counted
    <3>2. Admins \subseteq Admins'
      BY <1>1, <1>4, <2>3, <3>1 DEF RoleWrite, Admins, Active, Here, User
    <3> QED  BY <1>1, <2>1, <3>2, OfficesKept DEF Unseats
  <2> QED  BY <2>4, <2>5
<1>5. CASE RoleMember(r) \/ AssignMember(r)
  <2>1. UNCHANGED <<org, user, unguarded>> /\ pc'[r] = "idle" /\ Admins' = Admins
    BY <1>1, <1>5 DEF RoleMember, AssignMember, At, history, Return, Move, Admins, Active, Here
  <2> QED  BY <1>1, <2>1, OfficesKept DEF Unseats
<1>6. ASSUME NEW x \in Users, Assign(r, x)
      PROVE  AdminInv'
  <2>1. UNCHANGED <<org, unguarded>> /\ pc'[r] = "assign_member"
    BY <1>1, <1>6 DEF Assign, Move
  <2>2. /\ \A y \in Users \ {x} : user'[y] = user[y]
        /\ user'[x].role = "admin" /\ user'[x].here /\ user'[x].st = "active"
        /\ user'[x].gone = user[x].gone
    BY <1>1, <1>6 DEF Assign, User
  <2>3. Admins \subseteq Admins'
    BY <2>2 DEF Admins, Counted, Active, Here
  <2> QED  BY <1>1, <2>1, <2>3, OfficesKept DEF Unseats
<1> QED  BY <1>2, <1>3, <1>4, <1>5, <1>6, OfferedAssumption DEF RoleSteps

LEMMA LeaveAdmin ==
  ASSUME Typed, Solo, AdminInv, NEW r \in Requests, LeaveSteps(r)
  PROVE  AdminInv'
<1>1. Quiet(r) /\ pc \in [Requests -> PCs] /\ loc \in [Requests -> Locals] /\ user \in [Users -> User]
  BY LeaveTyped DEF Typed, TypeOK
<1>3. ASSUME NEW x \in Users, RemoveRead(r, x)
      PROVE  AdminInv'
  <2>1. UNCHANGED <<org, user>> /\ Admins' = Admins
    BY <1>3 DEF RemoveRead, people, Admins, Active, Here
  <2>2. pc'[r] = "remove_member" /\ loc'[r].x = x
    BY <1>1, <1>3, AboutTyped DEF RemoveRead, Move, Concerns
  <2>3. Admins # {} /\ ~unguarded' => Admins \ {x} # {}
    BY <1>3, LoserIsNotTheLast, LetGoIsNotTheLast DEF RemoveRead
  <2>4. unguarded => unguarded'
    BY <1>3 DEF RemoveRead, LetGo
  <2> QED  BY <1>1, <2>1, <2>2, <2>3, <2>4, OfficesKept
<1>4. ASSUME NEW x \in Users, DeleteRead(r, x)
      PROVE  AdminInv'
  <2>1. UNCHANGED <<org, user>> /\ Admins' = Admins
    BY <1>4 DEF DeleteRead, people, Admins, Active, Here
  <2> DEFINE lone == Administers(x) /\ {y \in Admins \ {x} : user[y].role = "admin"} = {}
  <2>2. /\ loc'[r].x = x /\ LetGo(x, ~lone)
        /\ pc'[r] = "close_org" \/ (pc'[r] = "delete_commit" /\ ~lone)
    BY <1>1, <1>4, AboutTyped DEF DeleteRead, Move, Concerns
  <2>3. x \in Admins /\ user[x].role = "admin" => Administers(x)
    BY DEF Admins, Active, Here, Administers
  <2>4. ~lone /\ user[x].role = "admin" /\ Admins # {} => Admins \ {x} # {}
    BY <2>3
  <2> HIDE DEF lone
  <2>5. pc'[r] = "delete_commit" /\ Admins # {} /\ ~unguarded' => Admins \ {x} # {}
    BY <2>2, <2>4, LetGoIsNotTheLast
  <2>6. unguarded => unguarded'
    BY <2>2 DEF LetGo
  <2> QED  BY <1>1, <2>1, <2>2, <2>5, <2>6, OfficesKept DEF Unseats
<1>5. ASSUME NEW x \in Users, NEW st \in {"active", "suspended"}, StatusRead(r, x, st)
      PROVE  AdminInv'
  <2>1. UNCHANGED <<org, user>> /\ Admins' = Admins
    BY <1>5 DEF StatusRead, people, Admins, Active, Here
  <2>2. pc'[r] = "status_write" /\ loc'[r] = [About("admins", x) EXCEPT !.say = st]
    BY <1>1, <1>5 DEF StatusRead, Move
  <2>3. loc'[r].say = st /\ loc'[r].x = x
    BY <2>2, AboutTyped DEF Locals, Concerns
  <2>4. st = "suspended" /\ Admins # {} /\ ~unguarded' => Admins \ {x} # {}
    BY <1>5, LetGoIsNotTheLast DEF StatusRead
  <2>5. unguarded => unguarded'
    BY <1>5 DEF StatusRead, LetGo
  <2> QED  BY <1>1, <2>1, <2>2, <2>3, <2>4, <2>5, OfficesKept DEF Unseats
<1>6. CASE RemoveMember(r)
  <2>1. UNCHANGED <<org, user, unguarded>> /\ Admins' = Admins
    BY <1>6 DEF RemoveMember, At, history, Admins, Active, Here
  <2>2. \/ pc'[r] = "idle"
        \/ Unseats(pc[r], loc[r]) /\ loc'[r].x = loc[r].x
    BY <1>1, <1>6 DEF RemoveMember, At, Goto, Return, Move, Unseats
  <2> QED  BY <1>1, <2>1, <2>2, OfficesKept DEF Unseats
<1>7. CASE RemoveUser(r) \/ DeleteCommit(r)
  <2>1. /\ pc[r] \in AdminPlaces /\ Unseats(pc[r], loc[r])
        /\ pc'[r] = "idle" /\ UNCHANGED <<org, unguarded>>
    BY <1>1, <1>7 DEF RemoveUser, DeleteCommit, At, history, Return, Move, Unseats, AdminPlaces
  <2>2. \A y \in Users \ {loc[r].x} : user'[y] = user[y]
    BY <1>1, <1>7 DEF RemoveUser, DeleteCommit
  <2>3. Admins \ {loc[r].x} \subseteq Admins'
    BY <2>2 DEF Admins, Active, Here
  <2> QED  BY <1>1, <2>1, <2>3, OfficeTaken DEF Unseats
<1>8. CASE StatusWrite(r)
  <2>1. pc[r] = "status_write" /\ pc'[r] = "status_member" /\ UNCHANGED <<org, unguarded>>
    BY <1>1, <1>8 DEF StatusWrite, At, history, Goto, Move
  <2>2. \A y \in Users \ {loc[r].x} : user'[y] = user[y]
    BY <1>1, <1>8 DEF StatusWrite
  <2>3. Admins \ {loc[r].x} \subseteq Admins'
    BY <2>2 DEF Admins, Active, Here
  <2>4. CASE loc[r].say = "suspended"
    BY <1>1, <2>1, <2>3, <2>4, OfficeTaken DEF Unseats, AdminPlaces
  <2>5. CASE loc[r].say # "suspended"
    <3>1. loc[r].say = "active"
      BY <2>1, <2>5 DEF Typed, Fits
    <3>2. Admins \subseteq Admins'
      BY <1>1, <1>8, <2>3, <3>1 DEF StatusWrite, Admins, Active, Here, User
    <3> QED  BY <1>1, <2>1, <3>2, OfficesKept DEF Unseats
  <2> QED  BY <2>4, <2>5
<1>9. CASE StatusMember(r)
  <2>1. UNCHANGED <<org, user, unguarded>> /\ pc'[r] = "idle" /\ Admins' = Admins
    BY <1>1, <1>9 DEF StatusMember, At, history, Return, Move, Admins, Active, Here
  <2> QED  BY <1>1, <2>1, OfficesKept DEF Unseats
<1>10. CASE CloseOrg(r)
  <2>1. org'.st = "closed" /\ Admins' = Admins /\ UNCHANGED unguarded
    BY <1>10 DEF CloseOrg, At, history, people, Typed, TypeOK, Organisation, Admins, Active, Here
  <2> QED  BY <1>1, <2>1, OfficesKept
<1> QED  BY <1>3, <1>4, <1>5, <1>6, <1>7, <1>8, <1>9, <1>10 DEF LeaveSteps

\* Nobody else's steps cost an administrator the office.
LEMMA OtherAdmin ==
  ASSUME Typed, AdminInv, NEW r \in Requests,
         InviteSteps(r) \/ JoinSteps(r) \/ OrgSteps(r) \/ Abort(r)
  PROVE  AdminInv'
<1>1. Quiet(r) /\ pc \in [Requests -> PCs] /\ loc \in [Requests -> Locals] /\ user \in [Users -> User]
  BY InviteTyped, JoinTyped, OrgTyped, AbortTyped DEF Typed, TypeOK
<1>2. CASE InviteSteps(r)
  <2>1. UNCHANGED <<org, unguarded>> /\ ~Unseats(pc'[r], loc'[r])
    BY <1>1, <1>2 DEF At, history, InviteSteps, InviteRead, Resend, RevokeRead, OpenExpired, AcceptRead,
       InviteRevoke, InviteCreate, InviteMail, RevokeWrite, CreateUser, AcceptJoin, AcceptClose,
       Throw, Return, Goto, Move, Begin, Enter, Unseats
  <2>2. user' = user \/ \E x \in Users : user[x].st = "none" /\ \A y \in Users \ {x} : user'[y] = user[y]
    <3>1. CASE CreateUser(r)
      BY <1>1, <3>1 DEF CreateUser, Throw, people, Locals
    <3> QED  BY <1>2, <3>1 DEF InviteSteps, InviteRead, Resend, RevokeRead, OpenExpired, AcceptRead,
       InviteRevoke, InviteCreate, InviteMail, RevokeWrite, AcceptJoin, AcceptClose, people
  <2>3. Admins \subseteq Admins'
    BY <2>2 DEF Admins, Active, Here
  <2> QED  BY <1>1, <2>1, <2>3, OfficesKept
<1>3. CASE JoinSteps(r)
  <2>1. UNCHANGED <<org, unguarded>> /\ ~Unseats(pc'[r], loc'[r])
    BY <1>1, <1>3 DEF At, history, JoinSteps, Register, VerifyEmail, ReviewRead, Enrol, AutoJoin, JoinRequest,
       JoinMember, ReviewWrite, ReviewMember, Return, Goto, Move, Begin, Enter, Alone, Unseats
  <2>2. user' = user \/ \E x \in Users : /\ user[x].st \in {"none", "pending_verification"}
                                         /\ \A y \in Users \ {x} : user'[y] = user[y]
    BY <1>1, <1>3 DEF JoinSteps, Register, VerifyEmail, ReviewRead, Enrol, AutoJoin, JoinRequest,
       JoinMember, ReviewWrite, ReviewMember, people
  <2>3. Admins \subseteq Admins'
    BY <2>2 DEF Admins, Active, Here
  <2> QED  BY <1>1, <2>1, <2>3, OfficesKept
<1>4. CASE OrgSteps(r) \/ Abort(r)
  <2>1. /\ user' = user /\ (org'.st = "active" => org.st = "active")
        /\ pc'[r] = "idle" /\ UNCHANGED unguarded
    BY <1>1, <1>4 DEF OrgSteps, VerifyDomain, SetPolicy, DeleteOrg, Alone, Abort, Return, Move,
       people, Typed, TypeOK, Organisation
  <2>2. Admins' = Admins
    BY <2>1 DEF Admins, Active, Here
  <2> QED  BY <1>1, <2>1, <2>2, OfficesKept DEF Unseats
<1> QED  BY <1>2, <1>3, <1>4

----------------------------------------------------------------------------
(* Seats                                                                   *)

Homeless == \A x \in Users : user[x].st = "none" => ~user[x].here

\* A step that seats nobody and promises no seat.
LEMMA SeatsHeld ==
  ASSUME IsFiniteSet(Users), Typed, SeatInv, NEW r \in Requests, Quiet(r), Typed',
         Homeless', Seated' \ assigned' \subseteq Seated \ assigned,
         pc'[r] = "create_user" => Cardinality(Seated \ assigned) < MaxSeats
  PROVE  SeatInv'
<1>1. IsFiniteSet(Seated \ assigned) /\ Cardinality(Seated \ assigned) \in Nat
  BY FS_Subset, FS_CardinalityType DEF Seated
<1>2. /\ Cardinality(Seated' \ assigned') <= Cardinality(Seated \ assigned)
      /\ Cardinality(Seated' \ assigned') \in Nat
  BY <1>1, FS_Subset, FS_CardinalityType
<1>3. SeatsKept'
  BY <1>1, <1>2, SeatsAssumption DEF SeatsKept, SeatInv, Quiet
<1>4. ASSUME NEW q \in Requests, pc'[q] = "create_user", "seats" \notin overlap'
      PROVE  Cardinality(Seated' \ assigned') < MaxSeats
  <2>1. Cardinality(Seated \ assigned) < MaxSeats
    BY <1>4 DEF SeatInv, Quiet, Others
  <2> QED  BY <1>1, <1>2, <2>1, SeatsAssumption
<1> QED  BY <1>3, <1>4 DEF SeatInv, Homeless

\* What the rows must keep for that.
LEMMA NobodySeated ==
  ASSUME Typed, Homeless, assigned \subseteq assigned',
         \A x \in Users :
           \/ /\ user'[x].here = user[x].here
              /\ user'[x].gone = user[x].gone \/ user'[x].gone
              /\ user'[x].st = "none" => user[x].st = "none"
           \/ user'[x].st # "none" /\ x \in assigned'
  PROVE  Homeless' /\ Seated' \ assigned' \subseteq Seated \ assigned
  BY DEF Homeless, Seated, Here

LEMMA RoleSeats ==
  ASSUME IsFiniteSet(Users), Typed, SeatInv, NEW r \in Requests, RoleSteps(r)
  PROVE  SeatInv'
<1>1. /\ Quiet(r) /\ Typed' /\ pc \in [Requests -> PCs] /\ loc \in [Requests -> Locals]
      /\ user \in [Users -> User] /\ Homeless
  BY RoleTyped DEF Typed, TypeOK, SeatInv, Homeless
<1>2. pc'[r] # "create_user"
  BY <1>1 DEF RoleSteps, RoleRead, AssignUserRole, RoleWrite, RoleMember, Assign, AssignMember,
     Return, Goto, Move, Begin, Enter
<1>3. assigned \subseteq assigned'
  BY DEF RoleSteps, RoleRead, AssignUserRole, RoleWrite, RoleMember, Assign, AssignMember, Begin, Enter,
     At, history
<1>4. \A x \in Users :
        \/ /\ user'[x].here = user[x].here
           /\ user'[x].gone = user[x].gone
           /\ user'[x].st = user[x].st
        \/ user'[x].st # "none" /\ x \in assigned'
  <2>1. ASSUME NEW x \in Users, Assign(r, x)
        PROVE  /\ \A y \in Users \ {x} : user'[y] = user[y]
               /\ user'[x].st = "active" /\ x \in assigned'
    BY <1>1, <2>1 DEF Assign, User
  <2>2. CASE RoleWrite(r)
    BY <1>1, <2>2 DEF RoleWrite, User
  <2> QED  BY <2>1, <2>2 DEF RoleSteps, RoleRead, AssignUserRole, RoleMember, AssignMember, people
<1> QED  BY <1>1, <1>2, <1>3, <1>4, NobodySeated, SeatsHeld

LEMMA LeaveSeats ==
  ASSUME IsFiniteSet(Users), Typed, SeatInv, NEW r \in Requests, LeaveSteps(r)
  PROVE  SeatInv'
<1>1. /\ Quiet(r) /\ Typed' /\ pc \in [Requests -> PCs] /\ loc \in [Requests -> Locals]
      /\ user \in [Users -> User] /\ Homeless
  BY LeaveTyped DEF Typed, TypeOK, SeatInv, Homeless
<1>2. pc'[r] # "create_user" /\ assigned' = assigned
  BY <1>1 DEF LeaveSteps, RemoveRead, DeleteRead, StatusRead, RemoveMember, RemoveUser, StatusWrite,
     StatusMember, CloseOrg, DeleteCommit, Return, Goto, Move, Begin, Enter, At, history
<1>3. \A x \in Users : /\ user'[x].here = user[x].here
                       /\ user'[x].gone = user[x].gone \/ user'[x].gone
                       /\ user'[x].st = "none" => user[x].st = "none"
  <2>1. CASE RemoveUser(r)
    BY <1>1, <2>1 DEF RemoveUser, User
  <2>2. CASE DeleteCommit(r)
    BY <1>1, <2>2 DEF DeleteCommit, User
  <2>3. CASE StatusWrite(r)
    <3>1. loc[r].say \in {"active", "suspended"}
      BY <2>3 DEF StatusWrite, At, Typed, Fits
    <3> QED  BY <1>1, <2>3, <3>1 DEF StatusWrite, User
  <2> QED  BY <2>1, <2>2, <2>3 DEF LeaveSteps, RemoveRead, DeleteRead, StatusRead, RemoveMember,
     StatusMember, CloseOrg, people
<1> QED  BY <1>1, <1>2, <1>3, NobodySeated, SeatsHeld

LEMMA InviteSeats ==
  ASSUME IsFiniteSet(Users), Typed, Solo, SeatInv, NEW r \in Requests, InviteSteps(r)
  PROVE  SeatInv'
<1>1. /\ Quiet(r) /\ Typed' /\ pc \in [Requests -> PCs] /\ loc \in [Requests -> Locals]
      /\ user \in [Users -> User] /\ Homeless
  BY InviteTyped DEF Typed, TypeOK, SeatInv, Homeless
<1>2. assigned' = assigned
  BY DEF InviteSteps, InviteRead, Resend, RevokeRead, OpenExpired, AcceptRead, InviteRevoke,
     InviteCreate, InviteMail, RevokeWrite, CreateUser, AcceptJoin, AcceptClose, Begin, Enter, At, history
<1>3. ASSUME NEW k \in 1 .. MaxInvites, AcceptRead(r, k)
      PROVE  SeatInv'
  <2>1. user' = user
    BY <1>3 DEF AcceptRead, people
  <2>2. Homeless' /\ Seated' \ assigned' \subseteq Seated \ assigned
    BY <1>1, <1>2, <2>1, NobodySeated
  <2>3. pc'[r] = "create_user" => SeatFreeNow
    BY <1>1, <1>3 DEF AcceptRead, Move
  <2>4. /\ IsFiniteSet(Seated)
        /\ Cardinality(Seated \ assigned) <= Cardinality(Seated)
        /\ Cardinality(Seated) \in Nat /\ Cardinality(Seated \ assigned) \in Nat
    BY FS_Subset, FS_CardinalityType DEF Seated
  <2>5. pc'[r] = "create_user" => Cardinality(Seated \ assigned) < MaxSeats
    BY <2>3, <2>4, SeatsAssumption DEF SeatFreeNow
  <2> QED  BY <1>1, <2>2, <2>5, SeatsHeld
<1>4. CASE CreateUser(r) /\ user[loc[r].x].st = "none"
  <2>1. /\ pc[r] = "create_user" /\ pc'[r] = "accept_join" /\ loc[r].x \in Users
        /\ UNCHANGED overlap
        /\ user' = [user EXCEPT ![loc[r].x] = [st |-> "active", role |-> loc[r].role,
                                              here |-> TRUE, gone |-> FALSE]]
    BY <1>1, <1>4 DEF CreateUser, Throw, Goto, Move, At, history, Locals
  <2>2. Homeless' /\ Seated' \ assigned' \subseteq (Seated \ assigned) \cup {loc[r].x}
    BY <1>1, <1>2, <2>1 DEF Homeless, Seated, Here, User
  <2>3. /\ IsFiniteSet(Seated \ assigned) /\ Cardinality(Seated \ assigned) \in Nat
        /\ IsFiniteSet((Seated \ assigned) \cup {loc[r].x})
        /\ Cardinality((Seated \ assigned) \cup {loc[r].x}) <= Cardinality(Seated \ assigned) + 1
        /\ Cardinality((Seated \ assigned) \cup {loc[r].x}) \in Nat
    BY FS_Subset, FS_CardinalityType, FS_AddElement DEF Seated
  <2>4. /\ Cardinality(Seated' \ assigned') <= Cardinality(Seated \ assigned) + 1
        /\ Cardinality(Seated' \ assigned') \in Nat
    BY <2>2, <2>3, FS_Subset, FS_CardinalityType
  <2>5. SeatsKept'
    <3>1. SUFFICES ASSUME "seats" \notin overlap
                   PROVE  Cardinality(Seated' \ assigned') <= MaxSeats
      BY <2>1 DEF SeatsKept
    <3>2. Cardinality(Seated \ assigned) < MaxSeats
      BY <2>1, <3>1 DEF SeatInv
    <3> QED  BY <2>3, <2>4, <3>2, SeatsAssumption
  <2>6. ASSUME NEW q \in Requests, pc'[q] = "create_user"
        PROVE  "seats" \in overlap'
    <3>1. q # r /\ pc[q] = "create_user"
      BY <1>1, <2>1, <2>6 DEF Quiet, Others
    <3>2. Busy(q, "seats") /\ Busy(r, "seats")
      BY <2>1, <3>1 DEF Busy, Typed, Fits, SeatPlaces
    <3> QED  BY <2>1, <3>1, <3>2 DEF Solo, Concerns
  <2> QED  BY <2>2, <2>5, <2>6 DEF SeatInv, Homeless
<1>5. CASE /\ ~\E k \in 1 .. MaxInvites : AcceptRead(r, k)
           /\ ~(CreateUser(r) /\ user[loc[r].x].st = "none")
  <2>1. user' = user /\ pc'[r] # "create_user"
    <3>1. CASE CreateUser(r)
      BY <1>1, <1>5, <3>1 DEF CreateUser, Throw, Return, Move, people
    <3> QED  BY <1>1, <1>5, <3>1 DEF InviteSteps, InviteRead, Resend, RevokeRead, OpenExpired,
       InviteRevoke, InviteCreate, InviteMail, RevokeWrite, AcceptJoin, AcceptClose, Return, Goto,
       Move, Begin, Enter, people
  <2>2. Homeless' /\ Seated' \ assigned' \subseteq Seated \ assigned
    BY <1>1, <1>2, <2>1, NobodySeated
  <2> QED  BY <1>1, <2>1, <2>2, SeatsHeld
<1> QED  BY <1>3, <1>4, <1>5

LEMMA OtherSeats ==
  ASSUME IsFiniteSet(Users), Typed, SeatInv, NEW r \in Requests,
         JoinSteps(r) \/ OrgSteps(r) \/ Abort(r)
  PROVE  SeatInv'
<1>1. /\ Quiet(r) /\ Typed' /\ pc \in [Requests -> PCs] /\ loc \in [Requests -> Locals]
      /\ user \in [Users -> User] /\ Homeless
  BY JoinTyped, OrgTyped, AbortTyped DEF Typed, TypeOK, SeatInv, Homeless
<1>2. pc'[r] # "create_user" /\ assigned' = assigned
  BY <1>1 DEF JoinSteps, Register, VerifyEmail, ReviewRead, Enrol, AutoJoin, JoinRequest, JoinMember,
     ReviewWrite, ReviewMember, OrgSteps, VerifyDomain, SetPolicy, DeleteOrg, Abort,
     Return, Goto, Move, Begin, Enter, Alone, At, history
<1>3. \A x \in Users : /\ user'[x].here = user[x].here
                       /\ user'[x].gone = user[x].gone
                       /\ user'[x].st = "none" => user[x].st = "none"
  <2>1. ASSUME NEW x \in Users, Register(r, x) \/ VerifyEmail(r, x)
        PROVE  \A y \in Users : /\ user'[y].here = user[y].here
                                /\ user'[y].gone = user[y].gone
                                /\ user'[y].st = "none" => user[y].st = "none"
    BY <1>1, <2>1 DEF Register, VerifyEmail, User
  <2> QED  BY <2>1 DEF JoinSteps, ReviewRead, Enrol, AutoJoin, JoinRequest, JoinMember,
     ReviewWrite, ReviewMember, OrgSteps, VerifyDomain, SetPolicy, DeleteOrg, Abort, people
<1> QED  BY <1>1, <1>2, <1>3, NobodySeated, SeatsHeld

----------------------------------------------------------------------------
(* Those who wait to join                                                  *)

\* A step that makes nobody wait and closes no request.
LEMMA JoinsHeld ==
  ASSUME Typed, JoinInv, NEW r \in Requests, Quiet(r), broken => broken', join' = join,
         \A x \in Users : member'[x].is /\ member'[x].st = "pending_approval"
                            => member[x].is /\ member[x].st = "pending_approval",
         pc'[r] # "join_member", pc[r] # "review_member"
  PROVE  JoinInv'
<1>1. SUFFICES ASSUME "joins" \notin overlap, ~broken, JoinInv
               PROVE  JoinInv'
  BY DEF JoinInv, Quiet
<1>2. ASSUME NEW q \in Requests, pc'[q] = "join_member"
      PROVE  join'[loc'[q].x] = "pending"
  BY <1>1, <1>2 DEF JoinInv, Quiet, Others
<1>3. ASSUME NEW x \in Users, member'[x].is /\ member'[x].st = "pending_approval"
      PROVE  join'[x] = "pending" \/ \E q \in Requests : pc'[q] = "review_member" /\ loc'[q].x = x
  BY <1>1, <1>3 DEF JoinInv, Quiet, Others
<1> QED  BY <1>2, <1>3 DEF JoinInv

LEMMA RoleJoins ==
  ASSUME Typed, JoinInv, NEW r \in Requests, RoleSteps(r) \/ LeaveSteps(r)
  PROVE  JoinInv'
<1>1. Quiet(r) /\ pc \in [Requests -> PCs] /\ loc \in [Requests -> Locals] /\ member \in [Users -> Member]
  BY RoleTyped, LeaveTyped DEF Typed, TypeOK
<1>2. pc'[r] # "join_member" /\ pc[r] # "review_member"
  BY <1>1 DEF RoleSteps, RoleRead, AssignUserRole, RoleWrite, RoleMember, Assign, AssignMember,
     LeaveSteps, RemoveRead, DeleteRead, StatusRead, RemoveMember, RemoveUser, StatusWrite,
     StatusMember, CloseOrg, DeleteCommit, Return, Goto, Move, Begin, Enter, At
<1>3. join' = join /\ broken' = broken
  BY DEF RoleSteps, RoleRead, AssignUserRole, RoleWrite, RoleMember, Assign, AssignMember,
     LeaveSteps, RemoveRead, DeleteRead, StatusRead, RemoveMember, RemoveUser, StatusWrite,
     StatusMember, CloseOrg, DeleteCommit, Begin, Enter, At, history, people
<1>4. \A x \in Users : member'[x].is /\ member'[x].st = "pending_approval"
                         => member[x].is /\ member[x].st = "pending_approval"
  <2>1. ASSUME NEW x \in Users, NEW role \in Offered, AssignUserRole(r, x, role)
        PROVE  \A y \in Users : member'[y].is = member[y].is /\ member'[y].st = member[y].st
    BY <1>1, <2>1 DEF AssignUserRole, Member
  <2>2. CASE RoleMember(r) \/ AssignMember(r) \/ RemoveMember(r)
    BY <1>1, <2>2 DEF RoleMember, AssignMember, RemoveMember, Joined, NoMember, Member
  <2>3. CASE StatusMember(r)
    <3>1. loc[r].say \in {"active", "suspended"}
      BY <2>3 DEF StatusMember, At, Typed, Fits
    <3> QED  BY <1>1, <2>3, <3>1 DEF StatusMember, Member
  <2>4. CASE DeleteCommit(r)
    BY <1>1, <2>4 DEF DeleteCommit, Member
  <2> QED  BY <2>1, <2>2, <2>3, <2>4 DEF RoleSteps, RoleRead, RoleWrite, Assign, LeaveSteps,
     RemoveRead, DeleteRead, StatusRead, RemoveUser, StatusWrite, CloseOrg, people
<1> QED  BY <1>1, <1>2, <1>3, <1>4, JoinsHeld

LEMMA OtherJoins ==
  ASSUME Typed, JoinInv, NEW r \in Requests, InviteSteps(r) \/ OrgSteps(r) \/ Abort(r)
  PROVE  JoinInv'
<1>1. Quiet(r) /\ pc \in [Requests -> PCs] /\ loc \in [Requests -> Locals] /\ member \in [Users -> Member]
  BY InviteTyped, OrgTyped, AbortTyped DEF Typed, TypeOK
<1>2. CASE InviteSteps(r) \/ OrgSteps(r)
  <2>1. pc'[r] # "join_member" /\ pc[r] # "review_member"
    BY <1>1, <1>2 DEF InviteSteps, InviteRead, Resend, RevokeRead, OpenExpired, AcceptRead,
       InviteRevoke, InviteCreate, InviteMail, RevokeWrite, CreateUser, AcceptJoin, AcceptClose,
       OrgSteps, VerifyDomain, SetPolicy, DeleteOrg, Throw, Return, Goto, Move, Begin, Enter, Alone, At
  <2>2. join' = join /\ broken' = broken
    BY <1>2 DEF InviteSteps, InviteRead, Resend, RevokeRead, OpenExpired, AcceptRead,
       InviteRevoke, InviteCreate, InviteMail, RevokeWrite, CreateUser, AcceptJoin, AcceptClose,
       OrgSteps, VerifyDomain, SetPolicy, DeleteOrg, Throw, Begin, Enter, Alone, At, history, people
  <2>3. \A x \in Users : member'[x].is /\ member'[x].st = "pending_approval"
                           => member[x].is /\ member[x].st = "pending_approval"
    <3>1. CASE AcceptJoin(r)
      BY <1>1, <3>1 DEF AcceptJoin, Joined, Member
    <3> QED  BY <1>2, <3>1 DEF InviteSteps, InviteRead, Resend, RevokeRead, OpenExpired, AcceptRead,
       InviteRevoke, InviteCreate, InviteMail, RevokeWrite, CreateUser, AcceptClose,
       OrgSteps, VerifyDomain, SetPolicy, DeleteOrg, Throw, people
  <2> QED  BY <1>1, <2>1, <2>2, <2>3, JoinsHeld
<1>3. CASE Abort(r) /\ pc[r] = "review_member"
  BY <1>3 DEF Abort, JoinInv
<1>4. CASE Abort(r) /\ pc[r] # "review_member"
  <2>1. pc'[r] = "idle"
    BY <1>4, AbortTyped
  <2> QED  BY <1>1, <1>4, <2>1, JoinsHeld DEF Abort, people
<1> QED  BY <1>2, <1>3, <1>4

LEMMA JoinJoins ==
  ASSUME Typed, Solo, JoinInv, NEW r \in Requests, JoinSteps(r)
  PROVE  JoinInv'
<1>1. /\ Quiet(r) /\ pc \in [Requests -> PCs] /\ loc \in [Requests -> Locals]
      /\ member \in [Users -> Member]
      /\ join \in [Users -> {"none", "pending", "approved", "rejected"}]
      /\ loc[r].x \in Users
  BY JoinTyped DEF Typed, TypeOK, Locals
<1>2. CASE \/ \E x \in Users : Register(r, x) \/ VerifyEmail(r, x)
           \/ \E x \in Users, decision \in {"approve", "reject"} : ReviewRead(r, x, decision)
           \/ Enrol(r) \/ AutoJoin(r)
  <2>1. pc'[r] # "join_member" /\ pc[r] # "review_member" /\ join' = join /\ broken' = broken
    BY <1>1, <1>2 DEF Register, VerifyEmail, ReviewRead, Enrol, AutoJoin, Return, Goto, Move, Begin, Enter,
       Alone, At, history, people
  <2>2. \A x \in Users : member'[x].is /\ member'[x].st = "pending_approval"
                           => member[x].is /\ member[x].st = "pending_approval"
    <3>1. CASE AutoJoin(r)
      <4>1. \A x \in Users : member'[x] = member[x] \/ member'[x] = Joined("member")
        BY <1>1, <3>1 DEF AutoJoin
      <4> QED  BY <4>1 DEF Joined
    <3> QED  BY <1>2, <3>1 DEF Register, VerifyEmail, ReviewRead, Enrol, people
  <2> QED  BY <1>1, <2>1, <2>2, JoinsHeld
<1>3. CASE JoinRequest(r)
  <2>1. /\ pc'[r] = "join_member" /\ loc'[r] = loc[r] /\ UNCHANGED <<member, overlap, broken>>
        /\ pc[r] = "join_request" /\ join' = [join EXCEPT ![loc[r].x] = "pending"]
    BY <1>1, <1>3 DEF JoinRequest, Goto, Move, At, history
  <2>2. \A q \in Requests \ {r} : pc'[q] = pc[q] /\ loc'[q] = loc[q]
    BY <1>1 DEF Quiet, Others
  <2>3. \A q \in Requests : loc[q].x \in Users
    BY <1>1 DEF Locals
  <2> QED  BY <1>1, <2>1, <2>2, <2>3 DEF JoinInv
<1>4. CASE JoinMember(r)
  <2>1. /\ pc'[r] = "idle" /\ UNCHANGED <<join, overlap, broken>> /\ pc[r] = "join_member"
        /\ \A x \in Users \ {loc[r].x} : member'[x] = member[x]
    BY <1>1, <1>4 DEF JoinMember, Return, Move, At, history
  <2>2. \A q \in Requests \ {r} : pc'[q] = pc[q] /\ loc'[q] = loc[q]
    BY <1>1 DEF Quiet, Others
  <2> QED  BY <1>1, <2>1, <2>2 DEF JoinInv
<1>5. CASE ReviewWrite(r)
  <2>1. /\ pc'[r] = "review_member" /\ loc'[r] = loc[r] /\ UNCHANGED <<member, overlap, broken>>
        /\ pc[r] = "review_write" /\ \A x \in Users \ {loc[r].x} : join'[x] = join[x]
    BY <1>1, <1>5 DEF ReviewWrite, Goto, Move, At, history
  <2>2. \A q \in Requests \ {r} : pc'[q] = pc[q] /\ loc'[q] = loc[q]
    BY <1>1 DEF Quiet, Others
  <2>3. ASSUME "joins" \notin overlap, NEW q \in Requests, pc[q] = "join_member"
        PROVE  FALSE
    <3>1. Busy(q, "joins") /\ Busy(r, "joins")
      BY <2>1, <2>3 DEF Busy, Typed, Fits, JoinPlaces
    <3> QED  BY <2>1, <2>3, <3>1 DEF Solo, Concerns
  <2> QED  BY <1>1, <2>1, <2>2, <2>3 DEF JoinInv
<1>6. CASE ReviewMember(r)
  <2>1. /\ pc'[r] = "idle" /\ UNCHANGED <<join, overlap, broken>> /\ pc[r] = "review_member"
        /\ \A x \in Users \ {loc[r].x} : member'[x] = member[x]
    BY <1>1, <1>6 DEF ReviewMember, Return, Move, At, history
  <2>2. \A q \in Requests \ {r} : pc'[q] = pc[q] /\ loc'[q] = loc[q]
    BY <1>1 DEF Quiet, Others
  <2>3. ~(member'[loc[r].x].is /\ member'[loc[r].x].st = "pending_approval")
    <3>1. loc[r].say \in {"approve", "reject"}
      BY <2>1 DEF Typed, Fits
    <3>2. \/ member'[loc[r].x] = Joined("member")
          \/ member'[loc[r].x] = NoMember
          \/ member'[loc[r].x] = member[loc[r].x] /\ member[loc[r].x].st # "pending_approval"
      <4>1. CASE loc[r].say = "approve"
        BY <1>1, <1>6, <4>1 DEF ReviewMember
      <4>2. CASE loc[r].say = "reject" /\ member[loc[r].x].st = "pending_approval"
        BY <1>1, <1>6, <4>2 DEF ReviewMember
      <4>3. CASE loc[r].say = "reject" /\ member[loc[r].x].st # "pending_approval"
        BY <1>1, <1>6, <4>3 DEF ReviewMember
      <4> QED  BY <3>1, <4>1, <4>2, <4>3
    <3> QED  BY <3>2 DEF Joined, NoMember
  <2> QED  BY <1>1, <2>1, <2>2, <2>3 DEF JoinInv
<1> QED  BY <1>2, <1>3, <1>4, <1>5, <1>6 DEF JoinSteps

----------------------------------------------------------------------------
(* Invitations that are being accepted                                     *)

Accepting == {"create_user", "accept_join", "accept_close"}

\* A step that revokes nothing and goes on with the same invitation, if any.
LEMMA AcceptsHeld ==
  ASSUME Typed, AcceptInv, NEW r \in Requests, Quiet(r),
         \A k \in 1 .. MaxInvites : inv'[k].st = "revoked" => inv[k].st = "revoked",
         pc'[r] \in Accepting
           => \/ pc[r] \in Accepting /\ loc'[r] = loc[r]
              \/ loc'[r].k \in 1 .. MaxInvites /\ inv[loc'[r].k].st # "revoked"
  PROVE  AcceptInv'
<1>1. SUFFICES ASSUME "seats" \notin overlap, NEW q \in Requests, pc'[q] \in Accepting
               PROVE  loc'[q].k \in 1 .. MaxInvites /\ inv'[loc'[q].k].st # "revoked"
  BY DEF AcceptInv, Quiet, Accepting
<1>2. loc'[q].k \in 1 .. MaxInvites /\ inv[loc'[q].k].st # "revoked"
  BY <1>1 DEF AcceptInv, Quiet, Others, Accepting
<1> QED  BY <1>2

LEMMA InviteAccepts ==
  ASSUME Typed, Solo, AcceptInv, NEW r \in Requests, InviteSteps(r)
  PROVE  AcceptInv'
<1>1. /\ Quiet(r) /\ pc \in [Requests -> PCs] /\ loc \in [Requests -> Locals]
      /\ inv \in [1 .. MaxInvites -> Invitation]
  BY InviteTyped DEF Typed, TypeOK
<1>2. ASSUME NEW k \in 1 .. MaxInvites, AcceptRead(r, k)
      PROVE  AcceptInv'
  <2> DEFINE l == [About("seats", inv[k].to) EXCEPT !.k = k, !.role = inv[k].role]
  <2>1. inv' = inv /\ loc'[r] = l /\ inv[k].st = "pending"
    BY <1>1, <1>2 DEF AcceptRead, Move, Usable
  <2>2. inv[k].to \in Users /\ inv[k].role \in Roles /\ k \in 0 .. MaxInvites
    BY <1>1, BoundsAssumption DEF Invitation
  <2>3. \A m \in Locals : [m EXCEPT !.k = k, !.role = inv[k].role].k = k
    BY DEF Locals
  <2>4. l.k = k
    BY <2>2, <2>3, AboutTyped DEF Concerns
  <2> HIDE DEF l
  <2> QED  BY <1>1, <2>1, <2>4, AcceptsHeld
<1>3. CASE InviteRevoke(r) \/ RevokeWrite(r)
  <2>1. /\ pc[r] \in SeatPlaces /\ pc[r] # "idle" /\ pc[r] \notin Accepting /\ pc'[r] \notin Accepting
        /\ overlap' = overlap
    BY <1>1, <1>3 DEF InviteRevoke, RevokeWrite, Goto, Return, Move, At, history, SeatPlaces, Accepting
  <2>2. ASSUME "seats" \notin overlap, NEW q \in Requests, pc'[q] \in Accepting
        PROVE  FALSE
    <3>1. q # r /\ pc[q] \in Accepting
      BY <1>1, <2>1, <2>2 DEF Quiet, Others
    <3>2. Busy(q, "seats") /\ Busy(r, "seats")
      BY <2>1, <3>1 DEF Busy, Typed, Fits, SeatPlaces, Accepting
    <3> QED  BY <2>2, <3>1, <3>2 DEF Solo, Concerns
  <2> QED  BY <2>1, <2>2 DEF AcceptInv, Accepting
<1>4. CASE CreateUser(r) \/ AcceptJoin(r)
  <2>1. inv' = inv /\ pc[r] \in Accepting /\ (pc'[r] = "idle" \/ loc'[r] = loc[r])
    BY <1>1, <1>4 DEF CreateUser, AcceptJoin, Throw, Return, Goto, Move, At, Accepting
  <2> QED  BY <1>1, <2>1, AcceptsHeld DEF Accepting
<1>5. CASE \/ \E x \in Users, role \in Offered : InviteRead(r, x, role)
           \/ \E k \in 1 .. MaxInvites : RevokeRead(r, k) \/ Resend(r, k) \/ OpenExpired(r, k)
           \/ InviteCreate(r) \/ InviteMail(r) \/ AcceptClose(r)
  <2>1. pc'[r] \notin Accepting
    BY <1>1, <1>5 DEF InviteRead, RevokeRead, Resend, OpenExpired, InviteCreate, InviteMail,
       AcceptClose, Return, Goto, Move, Begin, Enter, Accepting
  <2>2. \A k \in 1 .. MaxInvites : inv'[k].st = "revoked" => inv[k].st = "revoked"
    <3>1. ASSUME NEW k \in 1 .. MaxInvites, Resend(r, k) \/ OpenExpired(r, k)
          PROVE  \A j \in 1 .. MaxInvites : inv'[j].st = "revoked" => inv[j].st = "revoked"
      BY <1>1, <3>1 DEF Resend, OpenExpired, Invitation
    <3>2. CASE InviteCreate(r)
      BY <1>1, <3>2 DEF InviteCreate
    <3>3. CASE InviteMail(r)
      BY <1>1, <3>3 DEF InviteMail, Invitation
    <3>4. CASE AcceptClose(r)
      BY <1>1, <3>4 DEF AcceptClose, Invitation
    <3> QED  BY <1>5, <3>1, <3>2, <3>3, <3>4 DEF InviteRead, RevokeRead
  <2> QED  BY <1>1, <2>1, <2>2, AcceptsHeld
<1> QED  BY <1>2, <1>3, <1>4, <1>5 DEF InviteSteps

LEMMA OtherAccepts ==
  ASSUME Typed, AcceptInv, NEW r \in Requests,
         RoleSteps(r) \/ LeaveSteps(r) \/ JoinSteps(r) \/ OrgSteps(r) \/ Abort(r)
  PROVE  AcceptInv'
<1>1. Quiet(r) /\ pc \in [Requests -> PCs] /\ loc \in [Requests -> Locals]
  BY RoleTyped, LeaveTyped, JoinTyped, OrgTyped, AbortTyped DEF Typed, TypeOK
<1>2. inv' = inv
  BY DEF RoleSteps, RoleRead, AssignUserRole, RoleWrite, RoleMember, Assign, AssignMember,
     LeaveSteps, RemoveRead, DeleteRead, StatusRead, RemoveMember, RemoveUser, StatusWrite,
     StatusMember, CloseOrg, DeleteCommit, JoinSteps, Register, VerifyEmail, ReviewRead, Enrol,
     AutoJoin, JoinRequest, JoinMember, ReviewWrite, ReviewMember, OrgSteps, VerifyDomain,
     SetPolicy, DeleteOrg, Abort
<1>3. pc'[r] \notin Accepting
  <2>1. CASE RoleSteps(r) \/ LeaveSteps(r)
    BY <1>1, <2>1 DEF RoleSteps, RoleRead, AssignUserRole, RoleWrite, RoleMember, Assign, AssignMember,
       LeaveSteps, RemoveRead, DeleteRead, StatusRead, RemoveMember, RemoveUser, StatusWrite,
       StatusMember, CloseOrg, DeleteCommit, Return, Goto, Move, Begin, Enter, Accepting
  <2>2. CASE JoinSteps(r) \/ OrgSteps(r) \/ Abort(r)
    BY <1>1, <2>2 DEF JoinSteps, Register, VerifyEmail, ReviewRead, Enrol, AutoJoin, JoinRequest,
       JoinMember, ReviewWrite, ReviewMember, OrgSteps, VerifyDomain, SetPolicy, DeleteOrg, Abort,
       Return, Goto, Move, Begin, Enter, Alone, Accepting
  <2> QED  BY <2>1, <2>2
<1> QED  BY <1>1, <1>2, <1>3, AcceptsHeld

----------------------------------------------------------------------------
(* The theorems                                                            *)

LEMMA InitTyped == Init => Typed /\ Solo
<1> SUFFICES ASSUME Init PROVE Typed /\ Solo
  OBVIOUS
<1> USE FounderAssumption, BoundsAssumption
<1>1. NoLocals \in Locals /\ Fits("idle", NoLocals) /\ "idle" \in PCs
  BY AboutTyped DEF Fits, AdminPlaces, SeatPlaces, JoinPlaces, PCs
<1>2. user \in [Users -> User] /\ \A x \in Users : user[x].role \in Roles
  <2>1. {NoUser, Away} \cup {Home(role) : role \in Roles} \subseteq User
    <3>1. NoUser \in User /\ Away \in User
      BY DEF NoUser, Away, User, Roles
    <3>2. \A role \in Roles : Home(role) \in User
      BY DEF Home, User
    <3> QED  BY <3>1, <3>2
  <2>2. user \in [Users -> {NoUser, Away} \cup {Home(role) : role \in Roles}]
    BY OfferedAssumption DEF Init, Counted, Roles
  <2>3. \A u \in User : u.role \in Roles
    BY DEF User
  <2> QED  BY <2>1, <2>2, <2>3
<1>3. member \in [Users -> Member]
  BY <1>2 DEF Init, Joined, NoMember, Member, Roles
<1>4. inv \in [1 .. MaxInvites -> Invitation]
  <2>1. NoneInvited \in [1 .. MaxInvites -> Invitation]
    BY DEF NoneInvited, NoInvitation, Invitation, Roles
  <2>2. ASSUME NEW x \in Users, NEW y \in Users
        PROVE  TwoInvited(x, y) \in [1 .. MaxInvites -> Invitation]
    <3>1. \A st \in {"pending", "revoked"}, to \in Users :
            [st |-> st, to |-> to, role |-> "member", link |-> "mailed", by |-> {}] \in Invitation
      BY DEF Invitation, Roles
    <3> QED  BY <2>1, <3>1 DEF TwoInvited
  <2> QED  BY <2>1, <2>2 DEF Init
<1>5. TypeOK
  <2>1. pc \in [Requests -> PCs] /\ loc \in [Requests -> Locals]
    BY <1>1 DEF Init
  <2>2. /\ org \in Organisation
        /\ join \in [Users -> {"none", "pending", "approved", "rejected"}]
    BY DEF Init
  <2>3. left \in 0 .. MaxReqs
    BY DEF Init
  <2>4. /\ overlap \subseteq Concerns /\ broken \in BOOLEAN /\ unguarded \in BOOLEAN
        /\ assigned \subseteq Users
    BY DEF Init
  <2> QED  BY <1>2, <1>3, <1>4, <2>1, <2>2, <2>3, <2>4 DEF TypeOK
<1> QED  BY <1>1, <1>5 DEF Init, Typed, Solo, Busy

LEMMA InitInvariants == Init => AdminInv /\ JoinInv /\ AcceptInv
<1> SUFFICES ASSUME Init PROVE AdminInv /\ JoinInv /\ AcceptInv
  OBVIOUS
<1>1. \A r \in Requests : pc[r] = "idle"
  BY DEF Init
<1>2. Founder \in Admins
  <2>1. PICK role \in Counted : user[Founder] = Home(role)
    BY FounderAssumption DEF Init
  <2> QED  BY <2>1, FounderAssumption DEF Home, Admins, Active, Here
<1>3. \A x \in Users : ~(member[x].is /\ member[x].st = "pending_approval")
  BY DEF Init, Joined, NoMember
<1> QED  BY <1>1, <1>2, <1>3 DEF AdminInv, JoinInv, AcceptInv, Unseats

LEMMA InitSeats ==
  ASSUME IsFiniteSet(Users), Init
  PROVE  SeatInv
<1>1. \A x \in Users : user[x].st = "none" => ~user[x].here
  BY DEF Init, NoUser, Away, Home
<1>2. Seated \ assigned \subseteq {x \in Users : user[x].here}
  BY DEF Seated, Here
<1>3. /\ IsFiniteSet({x \in Users : user[x].here})
      /\ Cardinality({x \in Users : user[x].here}) \in Nat
      /\ Cardinality({x \in Users : user[x].here}) <= MaxSeats
  BY FS_Subset, FS_CardinalityType DEF Init
<1>4. Cardinality(Seated \ assigned) <= Cardinality({x \in Users : user[x].here})
      /\ Cardinality(Seated \ assigned) \in Nat
  BY <1>2, <1>3, FS_Subset, FS_CardinalityType
<1>5. SeatsKept
  BY <1>3, <1>4, SeatsAssumption DEF SeatsKept
<1> QED  BY <1>1, <1>5 DEF Init, SeatInv

\* What moves no request, no row of a person and not the organisation.
LEMMA ExpireKeeps ==
  ASSUME Typed, Solo, NEW k \in 1 .. MaxInvites, Expire(k)
  PROVE  /\ Typed' /\ Solo'
         /\ AdminInv => AdminInv'
         /\ SeatInv => SeatInv'
         /\ JoinInv => JoinInv'
         /\ AcceptInv => AcceptInv'
<1>1. UNCHANGED <<org, user, member, join, pc, loc, overlap, broken, unguarded, assigned>>
  BY DEF Expire, people, history
<1>2. \A j \in 1 .. MaxInvites : inv'[j].st = inv[j].st
  BY DEF Expire, Typed, TypeOK, Invitation
<1> QED  BY <1>1, <1>2, ExpireTyped DEF Solo, Busy, AdminInv, Admins, Active, Here, SeatInv,
         SeatsKept, Seated, JoinInv, AcceptInv

LEMMA StutterKeeps ==
  ASSUME UNCHANGED vars
  PROVE  /\ Typed => Typed'
         /\ Solo => Solo'
         /\ AdminInv => AdminInv'
         /\ SeatInv => SeatInv'
         /\ JoinInv => JoinInv'
         /\ AcceptInv => AcceptInv'
  BY DEF vars, Typed, TypeOK, Solo, Busy, AdminInv, Admins, Active, Here, SeatInv, SeatsKept, Seated,
     JoinInv, AcceptInv

LEMMA NextSteps == Next => (\E r \in Requests : Steps(r)) \/ \E k \in 1 .. MaxInvites : Expire(k)
  BY DEF Next, Steps

LEMMA AlwaysTyped == Spec => [](Typed /\ Solo)
<1>1. Typed /\ Solo /\ [Next]_vars => (Typed /\ Solo)'
  <2> SUFFICES ASSUME Typed, Solo, [Next]_vars PROVE Typed' /\ Solo'
    OBVIOUS
  <2>1. CASE Next
    BY <2>1, NextSteps, StepTyped, SoloKept, ExpireKeeps
  <2> QED  BY <2>1, StutterKeeps
<1> QED  BY <1>1, InitTyped, PTL DEF Spec

\* Rows, locals and history have the types of schema and code.
THEOREM TypeCorrect == Spec => []TypeOK
<1>1. Typed => TypeOK
  BY DEF Typed
<1> QED  BY <1>1, AlwaysTyped, PTL

\* An active organisation with active members has an active administrator, however
\* many people demote, remove, suspend and delete one another, as long as no two
\* such requests overlap and the last one is not a super admin: OrganisationService
\* counts before each of its writes, super admins among the rest, but not before it
\* lets a super admin go.
THEOREM AdministratorRemains == Spec => []AdminRemains
<1>1. Init => AdminInv
  BY InitInvariants
<1>2. Typed /\ Solo /\ AdminInv /\ [Next]_vars => AdminInv'
  <2> SUFFICES ASSUME Typed, Solo, AdminInv, [Next]_vars PROVE AdminInv'
    OBVIOUS
  <2>1. CASE Next
    BY <2>1, NextSteps, RoleAdmin, LeaveAdmin, OtherAdmin, ExpireKeeps DEF Steps
  <2> QED  BY <2>1, StutterKeeps
<1>3. AdminInv => AdminRemains
  BY DEF AdminInv, AdminRemains, HasAdmin
<1> QED  BY <1>1, <1>2, <1>3, AlwaysTyped, PTL DEF Spec

\* Accounts stay within the seats of the organisation, save those that a super
\* admin brings in, unless requests about seats overlap (acceptInvitation counts
\* before it creates the account).
THEOREM SeatsAreKept ==
  ASSUME IsFiniteSet(Users)
  PROVE  Spec => []SeatsKept
<1>1. Init => SeatInv
  BY InitSeats
<1>2. Typed /\ Solo /\ SeatInv /\ [Next]_vars => SeatInv'
  <2> SUFFICES ASSUME Typed, Solo, SeatInv, [Next]_vars PROVE SeatInv'
    OBVIOUS
  <2>1. CASE Next
    BY <2>1, NextSteps, RoleSeats, LeaveSeats, InviteSeats, OtherSeats, ExpireKeeps DEF Steps
  <2> QED  BY <2>1, StutterKeeps
<1>3. SeatInv => SeatsKept
  BY DEF SeatInv
<1> QED  BY <1>1, <1>2, <1>3, AlwaysTyped, PTL DEF Spec

\* Nobody waits for a review that cannot come (verifyEmail files the request
\* before the membership, reviewJoinRequest closes it before).
THEOREM NobodyIsStuck == Spec => []NobodyStuck
<1>1. Init => JoinInv
  BY InitInvariants
<1>2. Typed /\ Solo /\ JoinInv /\ [Next]_vars => JoinInv'
  <2> SUFFICES ASSUME Typed, Solo, JoinInv, [Next]_vars PROVE JoinInv'
    OBVIOUS
  <2>1. CASE Next
    BY <2>1, NextSteps, RoleJoins, OtherJoins, JoinJoins, ExpireKeeps DEF Steps
  <2> QED  BY <2>1, StutterKeeps
<1>3. JoinInv => NobodyStuck
  <2> SUFFICES ASSUME JoinInv, ~broken, "joins" \notin overlap, NEW x \in Users,
                      member[x].is /\ member[x].st = "pending_approval",
                      \A r \in Requests : loc[r].x # x \/ pc[r] = "idle"
               PROVE  join[x] = "pending"
    BY DEF NobodyStuck
  <2> QED  BY DEF JoinInv
<1> QED  BY <1>1, <1>2, <1>3, AlwaysTyped, PTL DEF Spec

\* A revoked invitation is never accepted, unless requests about seats overlap
\* (acceptInvitation refuses what is not pending).
THEOREM RevokedIsRevoked == Spec => RevokedStays
<1>1. Init => AcceptInv
  BY InitInvariants
<1>2. Typed /\ Solo /\ AcceptInv /\ [Next]_vars => AcceptInv'
  <2> SUFFICES ASSUME Typed, Solo, AcceptInv, [Next]_vars PROVE AcceptInv'
    OBVIOUS
  <2>1. CASE Next
    BY <2>1, NextSteps, InviteAccepts, OtherAccepts, ExpireKeeps DEF Steps
  <2> QED  BY <2>1, StutterKeeps
<1>3. Typed /\ AcceptInv /\ [Next]_vars
        => [\A k \in 1 .. MaxInvites :
              inv[k].st = "revoked" /\ inv'[k].st = "accepted" => "seats" \in overlap]_vars
  <2> SUFFICES ASSUME Typed, AcceptInv, Next, NEW k \in 1 .. MaxInvites,
                      inv[k].st = "revoked", inv'[k].st = "accepted"
               PROVE  "seats" \in overlap
    OBVIOUS
  <2>1. inv \in [1 .. MaxInvites -> Invitation]
    BY DEF Typed, TypeOK
  <2>2. PICK r \in Requests : AcceptClose(r)
    <3>1. ASSUME NEW j \in 1 .. MaxInvites, Expire(j)
          PROVE  FALSE
      BY <2>1, <3>1 DEF Expire, Invitation
    <3>2. ASSUME NEW r \in Requests, NEW j \in 1 .. MaxInvites, Resend(r, j) \/ OpenExpired(r, j)
          PROVE  FALSE
      BY <2>1, <3>2 DEF Resend, OpenExpired, Invitation
    <3>3. ASSUME NEW r \in Requests, InviteRevoke(r) \/ InviteCreate(r) \/ InviteMail(r) \/ RevokeWrite(r)
          PROVE  FALSE
      <4>1. CASE InviteRevoke(r)
        BY <2>1, <4>1 DEF InviteRevoke, Invitation
      <4>4. CASE InviteCreate(r)
        BY <2>1, <4>4 DEF InviteCreate
      <4>2. CASE InviteMail(r)
        BY <2>1, <4>2 DEF InviteMail, Invitation
      <4>3. CASE RevokeWrite(r)
        BY <2>1, <4>3 DEF RevokeWrite, Invitation
      <4> QED  BY <3>3, <4>1, <4>2, <4>3, <4>4
    <3>4. ASSUME NEW r \in Requests, RoleSteps(r) \/ LeaveSteps(r) \/ JoinSteps(r) \/ OrgSteps(r) \/ Abort(r)
          PROVE  FALSE
      BY <3>4 DEF RoleSteps, RoleRead, AssignUserRole, RoleWrite, RoleMember, Assign, AssignMember,
         LeaveSteps, RemoveRead, DeleteRead, StatusRead, RemoveMember, RemoveUser, StatusWrite,
         StatusMember, CloseOrg, DeleteCommit, JoinSteps, Register, VerifyEmail, ReviewRead, Enrol,
         AutoJoin, JoinRequest, JoinMember, ReviewWrite, ReviewMember, OrgSteps, VerifyDomain,
         SetPolicy, DeleteOrg, Abort
    <3>5. PICK r \in Requests : InviteSteps(r)
      BY <3>1, <3>4, NextSteps DEF Steps
    <3>6. \/ \E x \in Users, role \in Offered : InviteRead(r, x, role)
          \/ \E j \in 1 .. MaxInvites : RevokeRead(r, j) \/ AcceptRead(r, j)
          \/ CreateUser(r) \/ AcceptJoin(r) \/ AcceptClose(r)
      BY <3>2, <3>3, <3>5 DEF InviteSteps
    <3> QED  BY <3>6 DEF InviteRead, RevokeRead, AcceptRead, CreateUser, AcceptJoin, Throw
  <2>3. pc[r] = "accept_close" /\ loc[r].k = k
    BY <2>1, <2>2 DEF AcceptClose, At, Invitation
  <2> QED  BY <2>3 DEF AcceptInv
<1> QED  BY <1>1, <1>2, <1>3, AlwaysTyped, PTL DEF Spec, RevokedStays
=============================================================================
