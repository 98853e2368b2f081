---------------------------- MODULE AccountsProofs ----------------------------
(***************************************************************************)
(* Theorems about Accounts, for any rows, emails, requests and bounds, and *)
(* with any mail or statement failing.                                     *)
(*                                                                         *)
(*   TypeCorrect       every row, link and request keeps its type          *)
(*   AddressIsProven   a verified address has been read by its owner       *)
(*   EndedIsUntouched  its links do not touch an account that has ended    *)
(*   OneForEach        a live account has its address to itself            *)
(*   NewestWorks       the link mailed last is the one that works          *)
(***************************************************************************)
EXTENDS Accounts, TLAPS

----------------------------------------------------------------------------
(* The strengthening: what a row's tokens and a request's memory say of    *)
(* the links they name, and links are never taken back.                    *)

\* A link of each kind is to the address that it will prove.
LinksInv ==
    /\ \A k \in DOMAIN link : account[link[k].row].st # "none"
    /\ \A x \in Rows : ~account[x].verified =>
         \A k \in DOMAIN link : link[k].row = x =>
           /\ link[k].kind # "change"
           /\ link[k].kind = "verify" => link[k].to = account[x].email
    /\ \A x \in Rows : account[x].token["change"] <= Len(link)
    /\ \A k \in DOMAIN link :
         link[k].kind = "change" /\ account[link[k].row].token["change"] = k
           => account[link[k].row].pending \subseteq {link[k].to}

\* The request l has made or looked up link l.k, for the row and the new
\* address it remembers.
Names(l) ==
    /\ l.k \in DOMAIN link
    /\ l.row = {link[l.k].row} /\ l.kind = link[l.k].kind
    /\ l.kind = "change" => l.email \subseteq {link[l.k].to} /\ account[link[l.k].row].verified

\* The request l has found the row by the address it remembers.
HasFound(l) ==
    \A x \in l.row : /\ account[x].st # "none"
                     /\ ~account[x].verified => l.email \subseteq {account[x].email}

\* What a request at p that remembers l relies on; an account that ends under
\* a request is on record.
Relies(p, l) ==
    /\ p = "mail" => l.k \in DOMAIN link
    /\ p \in {"mail_first", "open"} \/ (p = "write" /\ l.kind = "change") => Names(l)
    /\ p = "mail_first" => l.kind = "change"
    /\ p = "write" /\ l.kind # "change" => HasFound(l)
    /\ p = "open" => \A x \in l.row : account[x].gone => x \in overlap

RequestsInv == \A r \in Requests : Relies(pc[r], loc[r])

Inv ==
    /\ TypeOK /\ LinksInv /\ RequestsInv /\ AddressProven
    /\ \A x \in Rows : account[x].st = "none" => ~account[x].gone

----------------------------------------------------------------------------
(* Links.                                                                  *)

\* The links are numbered from 1, and each is one.
LEMMA LinkFacts ==
    ASSUME TypeOK
    PROVE  /\ DOMAIN link = 1 .. Len(link) /\ Len(link) \in 0 .. MaxLinks
           /\ \A k \in DOMAIN link : link[k] \in Link
BY BoundsAssumption DEF TypeOK

\* A new link is numbered next.
LEMMA LinkAdded ==
    ASSUME TypeOK, NEW e \in Link, Len(link) < MaxLinks, link' = Append(link, e)
    PROVE  /\ link' \in Seq(Link) /\ Len(link') = Len(link) + 1 /\ Len(link') <= MaxLinks
           /\ DOMAIN link' = 1 .. Len(link')
           /\ \A k \in DOMAIN link : k \in DOMAIN link' /\ link'[k] = link[k]
           /\ link'[Len(link')] = e
           /\ \A k \in DOMAIN link' : k \in DOMAIN link \/ k = Len(link')
BY BoundsAssumption DEF TypeOK

\* A link that is rewritten keeps its number.
LEMMA LinkWritten ==
    ASSUME TypeOK, NEW k \in DOMAIN link, NEW e \in Link, link' = [link EXCEPT ![k] = e]
    PROVE  /\ link' \in Seq(Link) /\ Len(link') = Len(link) /\ DOMAIN link' = DOMAIN link
           /\ link'[k] = e /\ \A j \in DOMAIN link \ {k} : link'[j] = link[j]
BY DEF TypeOK

LEMMA NewLinkTyped ==
    ASSUME NEW kind \in Kinds, NEW x \in Rows, NEW e \in Emails
    PROVE  /\ NewLink(kind, x, e) \in Link
           /\ [NewLink(kind, x, e) EXCEPT !.opened = TRUE] \in Link
           /\ NewLink(kind, x, e).row = x /\ NewLink(kind, x, e).kind = kind
           /\ NewLink(kind, x, e).to = e
BY DEF NewLink, Link

LEMMA OpenedTyped ==
    ASSUME NEW old \in Link
    PROVE  /\ [old EXCEPT !.opened = TRUE] \in Link /\ [old EXCEPT !.old = TRUE] \in Link
           /\ [old EXCEPT !.st = "mailed"] \in Link /\ [old EXCEPT !.st = "lost"] \in Link
BY DEF Link

----------------------------------------------------------------------------
(* What no step takes back.                                                *)

\* Links keep what they say and that they were opened; accounts stay made and
\* verified, and keep their email until they are.
Keeps ==
    /\ Len(link) <= Len(link')
    /\ \A k \in DOMAIN link :
         /\ link'[k].row = link[k].row /\ link'[k].kind = link[k].kind
         /\ link'[k].to = link[k].to /\ (link[k].opened => link'[k].opened)
    /\ \A x \in Rows : account[x].st # "none" =>
         /\ account'[x].st # "none"
         /\ account[x].verified => account'[x].verified
         /\ ~account'[x].verified => account'[x].email = account[x].email
    /\ overlap \subseteq overlap'
    /\ \A x \in Rows : account'[x].gone /\ ~account[x].gone =>
         \A q \in Requests : x \in loc[q].row => x \in overlap'

\* A request that does not move relies on no more than it did.
LEMMA ReliesKept ==
    ASSUME Inv, TypeOK', Keeps, NEW q \in Requests, pc'[q] = pc[q], loc'[q] = loc[q]
    PROVE  Relies(pc[q], loc[q])'
<1>1. Relies(pc[q], loc[q]) /\ loc[q] \in Locals /\ loc[q].row \subseteq Rows
  BY DEF Inv, RequestsInv, TypeOK, Locals
<1>2. /\ DOMAIN link = 1 .. Len(link) /\ Len(link) \in Nat
      /\ DOMAIN link' = 1 .. Len(link') /\ Len(link') \in Nat
      /\ DOMAIN link \subseteq DOMAIN link'
  BY DEF TypeOK, Inv, Keeps
<1>3. \A k \in DOMAIN link : link[k].row \in Rows /\ account[link[k].row].st # "none"
  BY LinkFacts DEF Inv, Link, LinksInv
<1>4. Names(loc[q]) => Names(loc[q])'
  BY <1>2, <1>3 DEF Keeps, Names
<1>5. HasFound(loc[q]) => HasFound(loc[q])'
  BY <1>1 DEF Keeps, HasFound
<1>6. (\A x \in loc[q].row : account[x].gone => x \in overlap)
        => \A x \in loc'[q].row : account'[x].gone => x \in overlap'
  BY <1>1 DEF Keeps
<1>7. loc[q].k \in DOMAIN link => loc'[q].k \in DOMAIN link'
  BY <1>2
<1> QED  BY <1>1, <1>4, <1>5, <1>6, <1>7 DEF Relies

\* One request moves, to a place whose demands are met.
LEMMA RequestsMove ==
    ASSUME Inv, TypeOK', Keeps, NEW r \in Requests, NEW p, NEW l, Move(r, p, l),
           Relies(pc[r], loc[r])'
    PROVE  RequestsInv'
<1>1. \A q \in Requests \ {r} : pc'[q] = pc[q] /\ loc'[q] = loc[q]
  BY DEF Move, Inv, TypeOK
<1> QED  BY <1>1, ReliesKept DEF RequestsInv

LEMMA RequestsStay ==
    ASSUME Inv, TypeOK', Keeps, UNCHANGED <<pc, loc>>
    PROVE  RequestsInv'
BY ReliesKept DEF RequestsInv

LEMMA MoveSets ==
    ASSUME TypeOK, NEW r \in Requests, NEW p, NEW l, Move(r, p, l)
    PROVE  pc'[r] = p /\ loc'[r] = l
BY DEF Move, TypeOK

LEMMA MoveTyped ==
    ASSUME TypeOK, NEW r \in Requests, NEW p \in PCs, NEW l \in Locals, Move(r, p, l)
    PROVE  pc' \in [Requests -> PCs] /\ loc' \in [Requests -> Locals]
BY DEF Move, TypeOK

\* Nothing is asked of an idle request.
LEMMA ReturnRelies ==
    ASSUME TypeOK, NEW r \in Requests, Return(r)
    PROVE  /\ Relies(pc[r], loc[r])' /\ pc' \in [Requests -> PCs]
           /\ loc' \in [Requests -> Locals]
<1>1. pc'[r] = "idle"
  BY MoveSets DEF Return
<1>2. NoLocals \in Locals /\ "idle" \in PCs
  BY BoundsAssumption DEF NoLocals, Locals, Kinds, PCs
<1> QED  BY <1>1, <1>2, MoveTyped DEF Relies, Return

\* A step that leaves accounts alone, and of links what they say.
LEMMA ProofsKept ==
    ASSUME Inv, TypeOK', Keeps, UNCHANGED account, Len(link') = Len(link)
    PROVE  LinksInv' /\ AddressProven'
<1>1. DOMAIN link' = DOMAIN link
  BY DEF TypeOK, Inv
<1>2. \A k \in DOMAIN link : link[k].row \in Rows
  BY LinkFacts DEF Inv, Link
<1>3. LinksInv'
  BY <1>1, <1>2 DEF Inv, LinksInv, Keeps
<1>4. AddressProven'
  BY <1>1, <1>2 DEF Inv, AddressProven, Keeps
<1> QED  BY <1>3, <1>4

\* What a request that begins counts as overlapping is typed, and grows.
LEMMA BeginFacts ==
    ASSUME TypeOK, NEW r \in Requests, NEW p \in PCs, NEW l \in Locals, Begin(r, p, l)
    PROVE  /\ overlap \subseteq overlap' /\ overlap' \subseteq Rows \cup Emails
           /\ left' \in 0 .. MaxReqs /\ UNCHANGED <<failed, moved>>
           /\ pc' \in [Requests -> PCs] /\ loc' \in [Requests -> Locals]
           /\ pc'[r] = p /\ loc'[r] = l
<1>1. Move(r, p, l)
  BY DEF Begin
<1>2. l.row \subseteq Rows /\ l.email \subseteq Emails
  BY DEF Locals
<1>3. overlap' \subseteq Rows \cup Emails
  BY <1>2 DEF Begin, TypeOK
<1>4. left' \in 0 .. MaxReqs
  BY BoundsAssumption DEF Begin, TypeOK
<1> QED  BY <1>1, <1>3, <1>4, MoveSets, MoveTyped DEF Begin

----------------------------------------------------------------------------
(* Requests begin.                                                         *)

\* A request that only reads, and remembers what it may rely on.
LEMMA ReadStep ==
    ASSUME Inv, NEW r \in Requests, NEW p \in PCs, NEW l \in Locals, Begin(r, p, l),
           UNCHANGED tables, Relies(p, l)
    PROVE  Inv'
<1>1. TypeOK /\ UNCHANGED <<account, link, last>>
  BY DEF Inv, tables
<1>2. /\ overlap \subseteq overlap' /\ overlap' \subseteq Rows \cup Emails
      /\ left' \in 0 .. MaxReqs /\ UNCHANGED <<failed, moved>>
      /\ pc' \in [Requests -> PCs] /\ loc' \in [Requests -> Locals]
      /\ pc'[r] = p /\ loc'[r] = l
  BY <1>1, BeginFacts
<1>3. TypeOK'
  BY <1>1, <1>2 DEF TypeOK
<1>4. Keeps
  BY <1>1, <1>2 DEF Keeps, TypeOK
<1>5. Relies(pc[r], loc[r])'
  BY <1>1, <1>2 DEF Relies, Names, HasFound
<1>6. RequestsInv'
  BY <1>3, <1>4, <1>5, RequestsMove DEF Begin
<1>7. LinksInv' /\ AddressProven'
  BY <1>1, <1>3, <1>4, ProofsKept
<1> QED  BY <1>1, <1>3, <1>6, <1>7 DEF Inv

LEMMA NoLocalsTyped == NoLocals \in Locals
BY BoundsAssumption DEF NoLocals, Locals, Kinds

LEMMA LocalsTyped ==
    ASSUME NEW e \in Emails, NEW x \in Rows, NEW kind \in Kinds
    PROVE  /\ [NoLocals EXCEPT !.email = {e}] \in Locals
           /\ [NoLocals EXCEPT !.email = {e}, !.row = {x}] \in Locals
           /\ [NoLocals EXCEPT !.row = {x}, !.email = {e}, !.kind = kind] \in Locals
<1>1. {x} \in SUBSET Rows /\ {e} \in SUBSET Emails /\ 0 \in 0 .. MaxLinks
  BY BoundsAssumption
<1>2. [NoLocals EXCEPT !.email = {e}] \in Locals
  BY <1>1, NoLocalsTyped DEF Locals
<1>3. [NoLocals EXCEPT !.email = {e}, !.row = {x}] \in Locals
  BY <1>1, NoLocalsTyped DEF Locals
<1>4. [NoLocals EXCEPT !.row = {x}, !.email = {e}, !.kind = kind] \in Locals
  BY <1>1, NoLocalsTyped DEF Locals
<1> QED  BY <1>2, <1>3, <1>4

LEMMA ReadSteps ==
    ASSUME Inv, NEW r \in Requests,
           \/ \E e \in Emails : RegisterRead(r, e)
           \/ \E e \in Emails, x \in Rows : AcceptRead(r, x, e)
           \/ \E e \in Emails, kind \in Kinds : AskRead(r, e, kind)
           \/ \E k \in DOMAIN link : OpenRead(r, k)
    PROVE  Inv'
<1> USE DEF PCs
<1>1. ASSUME NEW e \in Emails, RegisterRead(r, e) PROVE Inv'
  <2>0. [NoLocals EXCEPT !.email = {e}] \in Locals
    BY NoLocalsTyped DEF Locals
  <2>1. Relies("create", [NoLocals EXCEPT !.email = {e}])
    BY DEF Relies
  <2> QED  BY <1>1, <2>0, <2>1, ReadStep DEF RegisterRead
<1>2. ASSUME NEW e \in Emails, NEW x \in Rows, AcceptRead(r, x, e) PROVE Inv'
  <2>0. "verify" \in Kinds
    BY DEF Kinds
  <2>1. Relies("join", [NoLocals EXCEPT !.email = {e}, !.row = {x}])
    BY DEF Relies
  <2> QED  BY <1>2, <2>0, <2>1, LocalsTyped, ReadStep DEF AcceptRead
<1>3. ASSUME NEW e \in Emails, NEW kind \in Kinds, AskRead(r, e, kind) PROVE Inv'
  <2>1. PICK x \in Found(e) :
           Begin(r, "write", [NoLocals EXCEPT !.row = {x}, !.email = {e}, !.kind = kind])
    BY <1>3 DEF AskRead
  <2> DEFINE l == [NoLocals EXCEPT !.row = {x}, !.email = {e}, !.kind = kind]
  <2>2. x \in Rows /\ account[x].st # "none" /\ account[x].email = e
    BY DEF Found, Live
  <2>3. l.row = {x} /\ l.email = {e} /\ l.kind = kind /\ kind # "change"
    BY <1>3 DEF NoLocals, AskRead
  <2>4. l \in Locals
    BY <2>2, LocalsTyped
  <2> HIDE DEF l
  <2>5. Relies("write", l)
    BY <2>2, <2>3 DEF Relies, HasFound
  <2>6. Begin(r, "write", l) /\ UNCHANGED tables
    BY <1>3, <2>1 DEF AskRead, l
  <2> QED  BY <2>4, <2>5, <2>6, ReadStep
<1>4. ASSUME NEW k \in DOMAIN link, OpenRead(r, k) PROVE Inv'
  <2> DEFINE x == link[k].row
             l == [row |-> {x}, kind |-> link[k].kind, k |-> k,
                   email |-> IF link[k].kind = "change" THEN account[x].pending ELSE {}]
  <2>1. /\ link[k] \in Link /\ x \in Rows /\ link[k].kind \in Kinds /\ k \in 0 .. MaxLinks
        /\ account[x] \in Account
    <3>1. TypeOK /\ link[k] \in Link
      BY LinkFacts DEF Inv
    <3>2. x \in Rows /\ link[k].kind \in Kinds
      BY <3>1 DEF Link
    <3>3. k \in 0 .. MaxLinks
      BY <3>1, LinkFacts, BoundsAssumption
    <3> QED  BY <3>1, <3>2, <3>3 DEF TypeOK
  <2>2. account[x].pending \subseteq Emails
    BY <2>1 DEF Account
  <2>3. l \in Locals
    BY <2>1, <2>2 DEF Locals
  <2>4. Opens(k) /\ Begin(r, "open", l) /\ UNCHANGED tables
    BY <1>4, Zenon DEF OpenRead
  <2>5. /\ link[k].kind = "change" => account[x].token["change"] = k
        /\ ~account[x].gone
    BY <2>4 DEF Opens
  <2>6. link[k].kind = "change" => account[x].pending \subseteq {link[k].to} /\ account[x].verified
    BY <2>1, <2>5 DEF Inv, LinksInv
  <2>7. l.k = k /\ l.row = {x} /\ l.kind = link[k].kind
        /\ (l.kind = "change" => l.email = account[x].pending)
    OBVIOUS
  <2> HIDE DEF l
  <2>8. Names(l)
    BY <2>6, <2>7 DEF Names
  <2>9. Relies("open", l)
    BY <2>5, <2>7, <2>8 DEF Relies
  <2> QED  BY <2>3, <2>4, <2>9, ReadStep
<1> QED  BY <1>1, <1>2, <1>3, <1>4

\* A change of email makes its link when it begins.
LEMMA ChangeReadStep ==
    ASSUME Inv, NEW r \in Requests, NEW x \in Rows, NEW e \in Emails, ChangeRead(r, x, e)
    PROVE  Inv'
<1> DEFINE n == Len(link) + 1
           l == [NoLocals EXCEPT !.row = {x}, !.email = {e}, !.kind = "change", !.k = n]
           new == NewLink("change", x, e)
<1>1. TypeOK /\ Len(link) < MaxLinks /\ Len(link) \in Nat
  BY DEF ChangeRead, Make, Inv, TypeOK
<1>2. new \in Link /\ new.row = x /\ new.kind = "change" /\ new.to = e
  BY NewLinkTyped DEF Kinds, NewLink, Link
<1>3. link' = Append(link, new) /\ UNCHANGED <<account, last>> /\ Live(x) /\ account[x].verified
  BY DEF ChangeRead, Make
<1> HIDE DEF new
<1>4. /\ link' \in Seq(Link) /\ Len(link') = n /\ n <= MaxLinks
      /\ DOMAIN link' = 1 .. n
      /\ \A k \in DOMAIN link : k \in DOMAIN link' /\ link'[k] = link[k]
      /\ link'[n] = new /\ \A k \in DOMAIN link' : k \in DOMAIN link \/ k = n
  BY <1>1, <1>2, <1>3, LinkAdded
<1>5. Begin(r, "mail_first", l)
  BY <1>4 DEF ChangeRead
<1>6. l \in Locals /\ l.row = {x} /\ l.email = {e} /\ l.kind = "change" /\ l.k = n
  <2>1. n \in 0 .. MaxLinks /\ {x} \in SUBSET Rows /\ {e} \in SUBSET Emails
    BY <1>1, <1>4, BoundsAssumption
  <2> HIDE DEF n
  <2> QED  BY <2>1 DEF NoLocals, Locals, Kinds
<1> HIDE DEF l
<1>7. /\ overlap \subseteq overlap' /\ overlap' \subseteq Rows \cup Emails
      /\ left' \in 0 .. MaxReqs /\ UNCHANGED <<failed, moved>>
      /\ pc' \in [Requests -> PCs] /\ loc' \in [Requests -> Locals]
      /\ pc'[r] = "mail_first" /\ loc'[r] = l
  BY <1>1, <1>5, <1>6, BeginFacts DEF PCs
<1>8. TypeOK'
  BY <1>1, <1>3, <1>4, <1>7 DEF TypeOK
<1>9. Keeps
  BY <1>1, <1>3, <1>4, <1>7 DEF Keeps
<1>10. Names(loc[r])'
  BY <1>1, <1>2, <1>3, <1>4, <1>6, <1>7 DEF Names
<1>11. Relies(pc[r], loc[r])'
  BY <1>6, <1>7, <1>10 DEF Relies
<1>12. RequestsInv'
  BY <1>5, <1>8, <1>9, <1>11, RequestsMove DEF Begin
<1>13. DOMAIN link = 1 .. Len(link) /\ \A k \in DOMAIN link : link[k].row \in Rows
  BY <1>1, LinkFacts DEF Link
<1>14. LinksInv'
  <2>1. \A y \in Rows : account[y].token["change"] <= Len(link)
    BY DEF Inv, LinksInv
  <2>2. \A y \in Rows : account[y].token["change"] \in Nat
    BY <1>1 DEF TypeOK, Account, Kinds
  <2>3. account[x].token["change"] # n /\ \A y \in Rows : account[y].token["change"] <= n
    BY <1>1, <2>1, <2>2
  <2>4. account[x].st # "none"
    BY <1>3 DEF Live
  <2>5. \A k \in DOMAIN link' : account'[link'[k].row].st # "none"
    BY <1>2, <1>3, <1>4, <2>4 DEF Inv, LinksInv
  <2>6. ASSUME NEW y \in Rows, ~account'[y].verified, NEW k \in DOMAIN link', link'[k].row = y
        PROVE  /\ link'[k].kind # "change"
               /\ link'[k].kind = "verify" => link'[k].to = account'[y].email
    BY <1>2, <1>3, <1>4, <2>6 DEF Inv, LinksInv
  <2>7. ASSUME NEW k \in DOMAIN link', link'[k].kind = "change",
               account'[link'[k].row].token["change"] = k
        PROVE  account'[link'[k].row].pending \subseteq {link'[k].to}
    <3>1. k # n
      BY <1>2, <1>3, <1>4, <2>3, <2>7
    <3>2. k \in DOMAIN link /\ link'[k] = link[k]
      BY <1>4, <3>1
    <3> QED  BY <1>3, <2>7, <3>2 DEF Inv, LinksInv
  <2> QED  BY <1>3, <1>4, <2>3, <2>5, <2>6, <2>7 DEF LinksInv
<1>15. AddressProven'
  BY <1>3, <1>4 DEF Inv, AddressProven
<1> QED  BY <1>3, <1>8, <1>12, <1>14, <1>15 DEF Inv

----------------------------------------------------------------------------
(* Accounts are made.                                                      *)

\* Writing one row leaves the others.
LEMMA RowWritten ==
    ASSUME TypeOK, NEW x \in Rows, NEW new \in Account, account' = [account EXCEPT ![x] = new]
    PROVE  /\ account' \in [Rows -> Account] /\ account'[x] = new
           /\ \A y \in Rows \ {x} : account'[y] = account[y]
BY DEF TypeOK

\* Links made with a new account are the only ones it has.
LEMMA AccountMade ==
    ASSUME Inv, NEW x \in Rows, account[x].st = "none", NEW new \in Account, NEW e \in Link,
           account' = [account EXCEPT ![x] = new], link' = Append(link, e),
           Len(link) < MaxLinks, TypeOK', overlap \subseteq overlap',
           e.row = x, e.kind = "verify", e.to = new.email,
           new.st # "none", new.verified => e.opened, ~new.gone, new.token["change"] = 0
    PROVE  Keeps /\ LinksInv' /\ AddressProven'
           /\ \A y \in Rows : account'[y].st = "none" => ~account'[y].gone
<1>1. TypeOK /\ Len(link) \in Nat
  BY DEF Inv, TypeOK
<1>2. /\ Len(link') = Len(link) + 1
      /\ DOMAIN link' = 1 .. Len(link')
      /\ \A k \in DOMAIN link : k \in DOMAIN link' /\ link'[k] = link[k]
      /\ link'[Len(link')] = e
      /\ \A k \in DOMAIN link' : k \in DOMAIN link \/ k = Len(link')
  BY <1>1, LinkAdded
<1>3. /\ account'[x] = new
      /\ \A y \in Rows \ {x} : account'[y] = account[y]
  BY <1>1, RowWritten
<1>4. /\ DOMAIN link = 1 .. Len(link)
      /\ \A k \in DOMAIN link : link[k].row \in Rows /\ link[k].row # x
  BY <1>1, LinkFacts DEF Link, Inv, LinksInv
<1>5. Keeps
  BY <1>1, <1>2, <1>3 DEF Keeps
<1>6. \A y \in Rows : account[y].token["change"] \in Nat /\ account[y].token["change"] <= Len(link)
  <2>1. "change" \in Kinds /\ \A y \in Rows : account[y].token \in [Kinds -> 0 .. MaxLinks]
    BY <1>1 DEF TypeOK, Account, Kinds
  <2>2. \A y \in Rows : account[y].token["change"] <= Len(link)
    BY DEF Inv, LinksInv
  <2>3. \A y \in Rows : account[y].token["change"] \in 0 .. MaxLinks
    BY <2>1
  <2> QED  BY <2>2, <2>3, BoundsAssumption
<1>7. LinksInv'
  <2>1. \A k \in DOMAIN link' : account'[link'[k].row].st # "none"
    BY <1>2, <1>3, <1>4 DEF Inv, LinksInv
  <2>2. ASSUME NEW y \in Rows, ~account'[y].verified, NEW k \in DOMAIN link', link'[k].row = y
        PROVE  /\ link'[k].kind # "change"
               /\ link'[k].kind = "verify" => link'[k].to = account'[y].email
    BY <1>2, <1>3, <1>4, <2>2 DEF Inv, LinksInv
  <2>3. \A y \in Rows : account'[y].token["change"] <= Len(link')
    BY <1>1, <1>2, <1>3, <1>6
  <2>4. ASSUME NEW k \in DOMAIN link', link'[k].kind = "change",
               account'[link'[k].row].token["change"] = k
        PROVE  account'[link'[k].row].pending \subseteq {link'[k].to}
    <3>1. k \in DOMAIN link /\ link'[k] = link[k]
      BY <1>2, <2>4
    <3>2. account'[link[k].row] = account[link[k].row]
      BY <1>3, <1>4, <3>1
    <3> QED  BY <2>4, <3>1, <3>2 DEF Inv, LinksInv
  <2> QED  BY <2>1, <2>2, <2>3, <2>4 DEF LinksInv
<1>8. AddressProven'
  <2> SUFFICES ASSUME NEW y \in Rows, account'[y].verified
               PROVE  \E k \in DOMAIN link' : /\ link'[k].opened /\ link'[k].row = y
                                              /\ link'[k].to = account'[y].email
    BY DEF AddressProven
  <2>1. CASE y = x
    BY <1>1, <1>2, <1>3, <2>1
  <2>2. CASE y # x
    BY <1>2, <1>3, <2>2 DEF Inv, AddressProven
  <2> QED  BY <2>1, <2>2
<1> QED  BY <1>3, <1>5, <1>7, <1>8 DEF Inv

LEMMA NoAccountTyped ==
    ASSUME NEW x \in Rows
    PROVE  /\ NoAccount(x) \in Account /\ ~NoAccount(x).gone
           /\ NoAccount(x).token = NoTokens /\ NoTokens["change"] = 0
<1>1. NoTokens \in [Kinds -> 0 .. MaxLinks] /\ NoTokens["change"] = 0
  BY BoundsAssumption DEF NoTokens, Kinds
<1> QED  BY <1>1 DEF NoAccount, Account

LEMMA CreateSteps ==
    ASSUME Inv, NEW r \in Requests, RegisterCreate(r) \/ AcceptCreate(r)
    PROVE  Inv'
<1>1. TypeOK /\ loc[r] \in Locals /\ Len(link) \in Nat
  BY DEF Inv, TypeOK
<1>2. CASE RegisterCreate(r)
  <2> DEFINE n == Len(link')
  <2>1. PICK x \in Rows, e \in loc[r].email :
           /\ account[x].st = "none"
           /\ Make("verify", x, e)
           /\ account' = [account EXCEPT ![x] = [NoAccount(x) EXCEPT
                  !.st = "pending_verification", !.email = e, !.token["verify"] = n]]
           /\ Move(r, "mail", [loc[r] EXCEPT !.row = {x}, !.k = n])
    BY <1>2 DEF RegisterCreate
  <2> DEFINE new == [NoAccount(x) EXCEPT !.st = "pending_verification", !.email = e,
                                         !.token["verify"] = n]
             made == NewLink("verify", x, e)
             l == [loc[r] EXCEPT !.row = {x}, !.k = n]
  <2>2. e \in Emails /\ "verify" \in Kinds
    BY <1>1 DEF Locals, Kinds
  <2>3. made \in Link /\ made.row = x /\ made.kind = "verify" /\ made.to = e
    BY <2>2 DEF NewLink, Link, Kinds
  <2>4. link' = Append(link, made) /\ Len(link) < MaxLinks
    BY <2>1 DEF Make
  <2> HIDE DEF made
  <2>5. /\ link' \in Seq(Link) /\ n = Len(link) + 1 /\ n <= MaxLinks
        /\ DOMAIN link' = 1 .. n
    BY <1>1, <2>3, <2>4, LinkAdded
  <2>6. n \in 0 .. MaxLinks
    BY <1>1, <2>5, BoundsAssumption
  <2> HIDE DEF n
  <2>8. account' = [account EXCEPT ![x] = new]
    BY <2>1
  <2> DEFINE old == NoAccount(x)
  <2>15. new = [old EXCEPT !.st = "pending_verification", !.email = e, !.token["verify"] = n]
    OBVIOUS
  <2>16. old \in Account /\ ~old.gone /\ ~old.verified /\ old.token["change"] = 0
    BY NoAccountTyped DEF NoAccount
  <2> HIDE DEF new, old
  <2>7. /\ new \in Account /\ new.email = e /\ new.st # "none" /\ ~new.verified
        /\ ~new.gone /\ new.token["change"] = 0
    BY <2>2, <2>6, <2>15, <2>16 DEF Account, Kinds
  <2>9. l \in Locals /\ l.k = n
    BY <1>1, <2>6 DEF Locals
  <2>10. Move(r, "mail", l) /\ UNCHANGED <<last, history>>
    BY <1>2, <2>1 DEF RegisterCreate
  <2> HIDE DEF l
  <2>11. /\ account' \in [Rows -> Account]
         /\ pc' \in [Requests -> PCs] /\ loc' \in [Requests -> Locals]
         /\ pc'[r] = "mail" /\ loc'[r] = l
    BY <1>1, <2>7, <2>8, <2>9, <2>10, RowWritten, MoveTyped, MoveSets DEF PCs
  <2>12. TypeOK'
    BY <1>1, <2>5, <2>10, <2>11 DEF TypeOK, history, n
  <2>13. /\ Keeps /\ LinksInv' /\ AddressProven'
         /\ \A y \in Rows : account'[y].st = "none" => ~account'[y].gone
    BY <2>1, <2>3, <2>4, <2>7, <2>8, <2>10, <2>12, AccountMade DEF history
  <2>14. Relies(pc[r], loc[r])'
    BY <1>1, <2>5, <2>9, <2>11 DEF Relies
  <2> QED  BY <2>10, <2>12, <2>13, <2>14, RequestsMove DEF Inv
<1>3. CASE AcceptCreate(r)
  <2>1. PICK x \in Rows, host \in loc[r].row, e \in loc[r].email :
           /\ account[x].st = "none" /\ Len(link) < MaxLinks
           /\ link' = Append(link, [NewLink("verify", x, e) EXCEPT !.opened = TRUE])
           /\ account' = [account EXCEPT ![x] = [NoAccount(x) EXCEPT !.st = "active",
                  !.email = e, !.org = account[host].org, !.verified = TRUE]]
    BY <1>3 DEF AcceptCreate
  <2> DEFINE new == [NoAccount(x) EXCEPT !.st = "active", !.email = e,
                                         !.org = account[host].org, !.verified = TRUE]
             made == [NewLink("verify", x, e) EXCEPT !.opened = TRUE]
  <2>2. e \in Emails /\ host \in Rows /\ account[host].org \in Rows
    BY <1>1 DEF Locals, TypeOK, Account
  <2>3. /\ made \in Link /\ made.row = x /\ made.kind = "verify" /\ made.to = e /\ made.opened
    BY <2>2 DEF NewLink, Link, Kinds
  <2>5. link' = Append(link, made) /\ account' = [account EXCEPT ![x] = new]
    BY <2>1
  <2> DEFINE old == NoAccount(x)
             org == account[host].org
  <2>11. new = [old EXCEPT !.st = "active", !.email = e, !.org = org, !.verified = TRUE]
    OBVIOUS
  <2>13. old \in Account /\ ~old.gone /\ old.token["change"] = 0 /\ org \in Rows
    BY <2>2, NoAccountTyped
  <2> HIDE DEF made, new, old, org
  <2>4. /\ new \in Account /\ new.email = e /\ new.st # "none"
        /\ ~new.gone /\ new.token["change"] = 0
    BY <2>2, <2>11, <2>13 DEF Account, Kinds
  <2>6. link' \in Seq(Link) /\ Len(link') <= MaxLinks /\ account' \in [Rows -> Account]
    BY <1>1, <2>1, <2>3, <2>4, <2>5, LinkAdded, RowWritten
  <2>7. Return(r) /\ UNCHANGED <<last, history>>
    BY <1>3 DEF AcceptCreate
  <2>8. Relies(pc[r], loc[r])' /\ pc' \in [Requests -> PCs] /\ loc' \in [Requests -> Locals]
    BY <1>1, <2>7, ReturnRelies
  <2>9. TypeOK'
    BY <1>1, <2>6, <2>7, <2>8 DEF TypeOK, history
  <2>12. /\ made.to = new.email /\ (new.verified => made.opened) /\ overlap \subseteq overlap'
         /\ Len(link) < MaxLinks /\ account[x].st = "none"
    BY <2>1, <2>3, <2>4, <2>7 DEF history
  <2>10. /\ Keeps /\ LinksInv' /\ AddressProven'
         /\ \A y \in Rows : account'[y].st = "none" => ~account'[y].gone
    BY <2>3, <2>4, <2>5, <2>9, <2>12, AccountMade
  <2> QED  BY <2>7, <2>8, <2>9, <2>10, RequestsMove DEF Inv, Return
<1> QED  BY <1>2, <1>3


----------------------------------------------------------------------------
(* One row is written, and links are opened.                               *)

\* What a write of row x must respect, when links keep what they say.
LEMMA RowStep ==
    ASSUME Inv, NEW x \in Rows, NEW new \in Account, account[x].st # "none",
           account' \in [Rows -> Account], account'[x] = new,
           \A y \in Rows \ {x} : account'[y] = account[y],
           Len(link') = Len(link), DOMAIN link' = DOMAIN link,
           \A j \in DOMAIN link : /\ link'[j].row = link[j].row /\ link'[j].kind = link[j].kind
                                  /\ link'[j].to = link[j].to
                                  /\ link[j].opened => link'[j].opened,
           new.st # "none", account[x].verified => new.verified,
           ~new.verified => new.email = account[x].email,
           new.token["change"] <= Len(link),
           \A j \in DOMAIN link : link[j].kind = "change" /\ link[j].row = x
               /\ new.token["change"] = j => new.pending \subseteq {link[j].to},
           new.verified => \E j \in DOMAIN link : /\ link'[j].opened /\ link[j].row = x
                                                  /\ link[j].to = new.email,
           overlap \subseteq overlap',
           new.gone /\ ~account[x].gone => \A q \in Requests : x \in loc[q].row => x \in overlap'
    PROVE  Keeps /\ LinksInv' /\ AddressProven'
           /\ \A y \in Rows : account'[y].st = "none" => ~account'[y].gone
<1>1. TypeOK /\ Len(link) \in Nat /\ \A j \in DOMAIN link : link[j].row \in Rows
  BY LinkFacts DEF Inv, TypeOK, Link
<1>2. Keeps
  BY <1>1 DEF Keeps
<1>3. LinksInv'
  <2>1. \A j \in DOMAIN link' : account'[link'[j].row].st # "none"
    BY <1>1 DEF Inv, LinksInv
  <2>2. \A y \in Rows : account'[y].token["change"] <= Len(link')
    BY DEF Inv, LinksInv
  <2>3. ASSUME NEW y \in Rows, ~account'[y].verified, NEW j \in DOMAIN link', link'[j].row = y
        PROVE  /\ link'[j].kind # "change"
               /\ link'[j].kind = "verify" => link'[j].to = account'[y].email
    <3>1. ~account[y].verified /\ account'[y].email = account[y].email
      BY <2>3
    <3> QED  BY <2>3, <3>1 DEF Inv, LinksInv
  <2>4. ASSUME NEW j \in DOMAIN link', link'[j].kind = "change",
               account'[link'[j].row].token["change"] = j
        PROVE  account'[link'[j].row].pending \subseteq {link'[j].to}
    <3>1. CASE link[j].row = x
      BY <2>4, <3>1
    <3>2. CASE link[j].row # x
      <4>1. account'[link'[j].row] = account[link[j].row]
        BY <1>1, <3>2
      <4>2. link[j].kind = "change" /\ account[link[j].row].token["change"] = j
        BY <2>4, <4>1
      <4> QED  BY <4>1, <4>2 DEF Inv, LinksInv
    <3> QED  BY <3>1, <3>2
  <2> QED  BY <2>1, <2>2, <2>3, <2>4 DEF LinksInv
<1>4. AddressProven'
  <2> SUFFICES ASSUME NEW y \in Rows, account'[y].verified
               PROVE  \E k \in DOMAIN link' : /\ link'[k].opened /\ link'[k].row = y
                                              /\ link'[k].to = account'[y].email
    BY DEF AddressProven
  <2>1. CASE y = x
    BY <2>1
  <2>2. CASE y # x
    BY <2>2 DEF Inv, AddressProven
  <2> QED  BY <2>1, <2>2
<1>5. \A y \in Rows : account'[y].st = "none" => ~account'[y].gone
  BY DEF Inv
<1> QED  BY <1>2, <1>3, <1>4, <1>5

\* A row that exists is written, and nothing else but the links opened.
LEMMA RequestWrites ==
    ASSUME Inv, NEW r \in Requests, NEW x \in Rows, NEW new \in Account, account[x].st # "none",
           account' \in [Rows -> Account], account'[x] = new,
           \A y \in Rows \ {x} : account'[y] = account[y],
           link' \in Seq(Link), Len(link') = Len(link), DOMAIN link' = DOMAIN link,
           \A j \in DOMAIN link : /\ link'[j].row = link[j].row /\ link'[j].kind = link[j].kind
                                  /\ link'[j].to = link[j].to
                                  /\ link[j].opened => link'[j].opened,
           new.st # "none", account[x].verified => new.verified,
           ~new.verified => new.email = account[x].email,
           new.token["change"] <= Len(link),
           \A j \in DOMAIN link : link[j].kind = "change" /\ link[j].row = x
               /\ new.token["change"] = j => new.pending \subseteq {link[j].to},
           new.verified => \E j \in DOMAIN link : /\ link'[j].opened /\ link[j].row = x
                                                  /\ link[j].to = new.email,
           new.gone = account[x].gone,
           Return(r), UNCHANGED <<last, overlap, failed, left>>, moved' \subseteq Rows
    PROVE  Inv'
<1>1. /\ Keeps /\ LinksInv' /\ AddressProven'
      /\ \A y \in Rows : account'[y].st = "none" => ~account'[y].gone
  BY RowStep
<1>2. Relies(pc[r], loc[r])' /\ pc' \in [Requests -> PCs] /\ loc' \in [Requests -> Locals]
  BY ReturnRelies DEF Inv
<1>3. TypeOK'
  BY <1>2 DEF TypeOK, Inv
<1> QED  BY <1>1, <1>2, <1>3, RequestsMove DEF Inv, Return

\* What a request knows of the link it names.
LEMMA NamedFacts ==
    ASSUME Inv, NEW r \in Requests, Names(loc[r])
    PROVE  \E x \in Rows :
             /\ loc[r].row = {x} /\ account[x].st # "none" /\ account[x] \in Account
             /\ loc[r].k \in DOMAIN link /\ loc[r].k \in Nat /\ loc[r].k <= Len(link)
             /\ link[loc[r].k] \in Link /\ link[loc[r].k].row = x
             /\ link[loc[r].k].kind = loc[r].kind
             /\ loc[r].kind = "change" => account[x].verified
                                          /\ loc[r].email \subseteq {link[loc[r].k].to}
<1>1. /\ TypeOK /\ DOMAIN link = 1 .. Len(link) /\ Len(link) \in Nat
      /\ \A k \in DOMAIN link : link[k] \in Link
  BY LinkFacts, BoundsAssumption DEF Inv
<1>2. /\ loc[r].k \in DOMAIN link /\ loc[r].row = {link[loc[r].k].row}
      /\ loc[r].kind = link[loc[r].k].kind
      /\ loc[r].kind = "change" => loc[r].email \subseteq {link[loc[r].k].to}
                                   /\ account[link[loc[r].k].row].verified
  BY DEF Names
<1>3. link[loc[r].k] \in Link /\ link[loc[r].k].row \in Rows
  BY <1>1, <1>2 DEF Link
<1>4. account[link[loc[r].k].row].st # "none" /\ account[link[loc[r].k].row] \in Account
  BY <1>1, <1>2, <1>3 DEF Inv, LinksInv, TypeOK
<1>5. loc[r].k \in Nat /\ loc[r].k <= Len(link)
  BY <1>1, <1>2
<1> QED  BY <1>2, <1>3, <1>4, <1>5

\* A link that is opened says what it said.
LEMMA Opening ==
    ASSUME Inv, NEW k \in DOMAIN link, link' = [link EXCEPT ![k].opened = TRUE]
    PROVE  /\ link' \in Seq(Link) /\ Len(link') = Len(link) /\ DOMAIN link' = DOMAIN link
           /\ \A j \in DOMAIN link : /\ link'[j].row = link[j].row /\ link'[j].kind = link[j].kind
                                     /\ link'[j].to = link[j].to
                                     /\ link[j].opened => link'[j].opened
           /\ link'[k].opened
<1>1. TypeOK /\ link[k] \in Link
  BY LinkFacts DEF Inv
<1> DEFINE e == [link[k] EXCEPT !.opened = TRUE]
<1>2. e \in Link /\ link' = [link EXCEPT ![k] = e]
  BY <1>1, OpenedTyped
<1>3. e.row = link[k].row /\ e.kind = link[k].kind /\ e.to = link[k].to /\ e.opened
  BY <1>1 DEF Link
<1> HIDE DEF e
<1> QED  BY <1>1, <1>2, <1>3, LinkWritten

----------------------------------------------------------------------------
(* Requests write, or fail.                                                *)

LEMMA ChangeWriteStep ==
    ASSUME Inv, NEW r \in Requests, ChangeWrite(r)
    PROVE  Inv'
<1>1. At(r, "write") /\ loc[r].kind = "change" /\ Names(loc[r])
  BY DEF ChangeWrite, At, Inv, RequestsInv, Relies
<1>2. PICK x \in Rows :
         /\ loc[r].row = {x} /\ account[x].st # "none" /\ account[x] \in Account
         /\ loc[r].k \in DOMAIN link /\ loc[r].k \in Nat /\ loc[r].k <= Len(link)
         /\ link[loc[r].k].row = x
         /\ account[x].verified /\ loc[r].email \subseteq {link[loc[r].k].to}
  BY <1>1, NamedFacts
<1>3. TypeOK /\ loc[r].email \subseteq Emails /\ loc[r].k \in 0 .. MaxLinks
  BY DEF Inv, TypeOK, Locals
<1> DEFINE old == account[x]
           pend == loc[r].email
           n == loc[r].k
           new == [old EXCEPT !.pending = pend, !.token["change"] = n]
<1>4. account' = [account EXCEPT ![x] = new]
  BY <1>2 DEF ChangeWrite
<1>5. new = [old EXCEPT !.pending = pend, !.token["change"] = n]
  OBVIOUS
<1>6. old \in Account /\ pend \in SUBSET Emails /\ n \in 0 .. MaxLinks
  BY <1>2, <1>3
<1> HIDE DEF old, pend, n, new
<1>7. /\ new \in Account /\ new.pending = pend /\ new.token["change"] = n
      /\ new.st = old.st /\ new.email = old.email /\ new.verified = old.verified
      /\ new.gone = old.gone
  BY <1>5, <1>6 DEF Account, Kinds
<1>8. /\ account' \in [Rows -> Account] /\ account'[x] = new
      /\ \A y \in Rows \ {x} : account'[y] = account[y]
  BY <1>3, <1>4, <1>7, RowWritten
<1>9. Return(r) /\ UNCHANGED <<link, last, overlap, failed, moved, left>>
  BY DEF ChangeWrite, history
<1>10. new.verified => \E j \in DOMAIN link : /\ link'[j].opened /\ link[j].row = x
                                              /\ link[j].to = new.email
  BY <1>2, <1>7, <1>9 DEF Inv, AddressProven, old
<1>11. \A j \in DOMAIN link : link[j].kind = "change" /\ link[j].row = x
               /\ new.token["change"] = j => new.pending \subseteq {link[j].to}
  BY <1>2, <1>7 DEF n, pend
<1>12. /\ new.st # "none" /\ (account[x].verified => new.verified)
       /\ ~new.verified => new.email = account[x].email
       /\ new.token["change"] <= Len(link) /\ new.gone = account[x].gone
  BY <1>2, <1>7 DEF old, n
<1>13. link' \in Seq(Link) /\ moved' \subseteq Rows
  BY <1>3, <1>9 DEF TypeOK
<1> QED  BY <1>2, <1>7, <1>8, <1>9, <1>10, <1>11, <1>12, <1>13, RequestWrites

\* verifyEmail: the address was the account's when the link was made.
LEMMA VerifyWriteStep ==
    ASSUME Inv, NEW r \in Requests, VerifyWrite(r)
    PROVE  Inv'
<1>1. At(r, "open") /\ loc[r].kind = "verify" /\ Names(loc[r])
  BY DEF VerifyWrite, At, Inv, RequestsInv, Relies
<1>2. PICK x \in Rows :
         /\ loc[r].row = {x} /\ account[x].st # "none" /\ account[x] \in Account
         /\ loc[r].k \in DOMAIN link /\ link[loc[r].k].row = x
         /\ link[loc[r].k].kind = "verify"
  BY <1>1, NamedFacts
<1> DEFINE old == account[x]
           n == loc[r].k
           new == [old EXCEPT !.verified = TRUE, !.st = "active", !.token["verify"] = 0]
<1>3. /\ account' = [account EXCEPT ![x] = new]
      /\ link' = [link EXCEPT ![n].opened = TRUE]
  BY <1>2 DEF VerifyWrite
<1>4. new = [old EXCEPT !.verified = TRUE, !.st = "active", !.token["verify"] = 0]
  OBVIOUS
<1>5. old \in Account /\ 0 \in 0 .. MaxLinks /\ n \in DOMAIN link
  BY <1>2, BoundsAssumption
<1>6. /\ ~old.verified => link[n].to = old.email
      /\ old.token["change"] <= Len(link)
      /\ \A j \in DOMAIN link : link[j].kind = "change" /\ link[j].row = x
           /\ old.token["change"] = j => old.pending \subseteq {link[j].to}
  BY <1>2 DEF Inv, LinksInv
<1>7. old.verified => \E j \in DOMAIN link : /\ link[j].opened /\ link[j].row = x
                                             /\ link[j].to = old.email
  BY <1>2 DEF Inv, AddressProven
<1>8. link[n].row = x /\ old.st # "none"
  BY <1>2
<1> HIDE DEF old, n, new
<1>9. /\ new \in Account /\ new.pending = old.pending
      /\ new.token["change"] = old.token["change"]
      /\ new.st = "active" /\ new.email = old.email /\ new.verified /\ new.gone = old.gone
  BY <1>4, <1>5 DEF Account, Kinds
<1>10. /\ account' \in [Rows -> Account] /\ account'[x] = new
       /\ \A y \in Rows \ {x} : account'[y] = account[y]
  BY <1>3, <1>9, RowWritten DEF Inv
<1>11. /\ link' \in Seq(Link) /\ Len(link') = Len(link) /\ DOMAIN link' = DOMAIN link
       /\ \A j \in DOMAIN link : /\ link'[j].row = link[j].row /\ link'[j].kind = link[j].kind
                                 /\ link'[j].to = link[j].to
                                 /\ link[j].opened => link'[j].opened
       /\ link'[n].opened
  BY <1>3, <1>5, Opening
<1>12. Return(r) /\ UNCHANGED <<last, overlap, failed, moved, left>>
  BY DEF VerifyWrite, history
<1>13. \E j \in DOMAIN link : link'[j].opened /\ link[j].row = x /\ link[j].to = new.email
  <2>1. CASE old.verified
    BY <1>7, <1>9, <1>11, <2>1
  <2>2. CASE ~old.verified
    BY <1>5, <1>6, <1>8, <1>9, <1>11, <2>2
  <2> QED  BY <2>1, <2>2
<1>14. moved' \subseteq Rows
  BY <1>12 DEF Inv, TypeOK
<1>15. /\ account[x].st # "none" /\ new.st # "none"
       /\ new.gone = account[x].gone /\ new.token["change"] <= Len(link)
       /\ \A j \in DOMAIN link : link[j].kind = "change" /\ link[j].row = x
            /\ new.token["change"] = j => new.pending \subseteq {link[j].to}
  BY <1>6, <1>8, <1>9 DEF old
<1> QED  BY <1>9, <1>10, <1>11, <1>12, <1>13, <1>14, <1>15, RequestWrites

\* resetPassword: the token is forgotten.
LEMMA ResetWriteStep ==
    ASSUME Inv, NEW r \in Requests, ResetWrite(r)
    PROVE  Inv'
<1>1. At(r, "open") /\ Names(loc[r])
  BY DEF ResetWrite, At, Inv, RequestsInv, Relies
<1>2. PICK x \in Rows :
         /\ loc[r].row = {x} /\ account[x].st # "none" /\ account[x] \in Account
         /\ loc[r].k \in DOMAIN link
  BY <1>1, NamedFacts
<1> DEFINE old == account[x]
           n == loc[r].k
           new == [old EXCEPT !.token["reset"] = 0]
<1>3. /\ account' = [account EXCEPT ![x] = new]
      /\ link' = [link EXCEPT ![n].opened = TRUE]
  BY <1>2 DEF ResetWrite
<1>4. new = [old EXCEPT !.token["reset"] = 0]
  OBVIOUS
<1>5. old \in Account /\ 0 \in 0 .. MaxLinks /\ n \in DOMAIN link /\ old.st # "none"
  BY <1>2, BoundsAssumption
<1>6. /\ old.token["change"] <= Len(link)
      /\ \A j \in DOMAIN link : link[j].kind = "change" /\ link[j].row = x
           /\ old.token["change"] = j => old.pending \subseteq {link[j].to}
  BY <1>2 DEF Inv, LinksInv
<1>7. old.verified => \E j \in DOMAIN link : /\ link[j].opened /\ link[j].row = x
                                             /\ link[j].to = old.email
  BY <1>2 DEF Inv, AddressProven
<1> HIDE DEF old, n, new
<1>8. /\ new \in Account /\ new.pending = old.pending
      /\ new.token["change"] = old.token["change"] /\ new.st = old.st
      /\ new.email = old.email /\ new.verified = old.verified /\ new.gone = old.gone
  BY <1>4, <1>5 DEF Account, Kinds
<1>9. /\ account' \in [Rows -> Account] /\ account'[x] = new
      /\ \A y \in Rows \ {x} : account'[y] = account[y]
  BY <1>3, <1>8, RowWritten DEF Inv
<1>10. /\ link' \in Seq(Link) /\ Len(link') = Len(link) /\ DOMAIN link' = DOMAIN link
       /\ \A j \in DOMAIN link : /\ link'[j].row = link[j].row /\ link'[j].kind = link[j].kind
                                 /\ link'[j].to = link[j].to
                                 /\ link[j].opened => link'[j].opened
  BY <1>3, <1>5, Opening
<1>11. Return(r) /\ UNCHANGED <<last, overlap, failed, moved, left>>
  BY DEF ResetWrite, history
<1>12. new.verified => \E j \in DOMAIN link : /\ link'[j].opened /\ link[j].row = x
                                              /\ link[j].to = new.email
  BY <1>7, <1>8, <1>10
<1>13. moved' \subseteq Rows
  BY <1>11 DEF Inv, TypeOK
<1>14. /\ account[x].st # "none" /\ new.st # "none"
       /\ (account[x].verified => new.verified)
       /\ ~new.verified => new.email = account[x].email
       /\ new.gone = account[x].gone /\ new.token["change"] <= Len(link)
       /\ \A j \in DOMAIN link : link[j].kind = "change" /\ link[j].row = x
            /\ new.token["change"] = j => new.pending \subseteq {link[j].to}
  BY <1>5, <1>6, <1>8 DEF old
<1> QED  BY <1>8, <1>9, <1>10, <1>11, <1>12, <1>13, <1>14, RequestWrites

\* verifyEmailChange: the email written is the one its link went to.
LEMMA MoveWriteStep ==
    ASSUME Inv, NEW r \in Requests, MoveWrite(r)
    PROVE  Inv'
<1>1. At(r, "open") /\ loc[r].kind = "change" /\ Names(loc[r])
  BY DEF MoveWrite, At, Inv, RequestsInv, Relies
<1>2. PICK x \in Rows :
         /\ loc[r].row = {x} /\ account[x].st # "none" /\ account[x] \in Account
         /\ loc[r].k \in DOMAIN link /\ link[loc[r].k].row = x
         /\ account[x].verified /\ loc[r].email \subseteq {link[loc[r].k].to}
  BY <1>1, NamedFacts
<1>3. PICK e \in loc[r].email :
         /\ account' = [account EXCEPT ![x].email = e, ![x].pending = {},
                                       ![x].token["change"] = 0]
         /\ moved' = moved \cup {x}
  BY <1>2 DEF MoveWrite
<1> DEFINE old == account[x]
           n == loc[r].k
           new == [old EXCEPT !.email = e, !.pending = {}, !.token["change"] = 0]
<1>4. /\ account' = [account EXCEPT ![x] = new]
      /\ link' = [link EXCEPT ![n].opened = TRUE]
  <2>1. account' = [account EXCEPT ![x] = new]
    BY <1>3 DEF Inv, TypeOK
  <2>2. link' = [link EXCEPT ![n].opened = TRUE]
    BY DEF MoveWrite
  <2> QED  BY <2>1, <2>2
<1>5. new = [old EXCEPT !.email = e, !.pending = {}, !.token["change"] = 0]
  OBVIOUS
<1>6. /\ old \in Account /\ 0 \in 0 .. MaxLinks /\ n \in DOMAIN link /\ old.st # "none"
      /\ old.verified /\ link[n].row = x /\ link[n].to = e /\ e \in Emails
  BY <1>2, BoundsAssumption DEF Inv, TypeOK, Locals
<1> HIDE DEF old, n, new
<1>7. /\ new \in Account /\ new.pending = {} /\ new.token["change"] = 0 /\ new.st = old.st
      /\ new.email = e /\ new.verified /\ new.gone = old.gone
  BY <1>5, <1>6 DEF Account, Kinds
<1>8. /\ account' \in [Rows -> Account] /\ account'[x] = new
      /\ \A y \in Rows \ {x} : account'[y] = account[y]
  BY <1>4, <1>7, RowWritten DEF Inv
<1>9. /\ link' \in Seq(Link) /\ Len(link') = Len(link) /\ DOMAIN link' = DOMAIN link
      /\ \A j \in DOMAIN link : /\ link'[j].row = link[j].row /\ link'[j].kind = link[j].kind
                                /\ link'[j].to = link[j].to
                                /\ link[j].opened => link'[j].opened
      /\ link'[n].opened
  BY <1>4, <1>6, Opening
<1>10. Return(r) /\ UNCHANGED <<last, overlap, failed, left>>
  BY DEF MoveWrite
<1>11. \E j \in DOMAIN link : link'[j].opened /\ link[j].row = x /\ link[j].to = new.email
  BY <1>6, <1>7, <1>9
<1>12. moved' \subseteq Rows /\ Len(link) \in Nat
  BY <1>3 DEF Inv, TypeOK
<1>13. /\ account[x].st # "none" /\ new.st # "none"
       /\ new.gone = account[x].gone /\ new.token["change"] <= Len(link)
       /\ \A j \in DOMAIN link : new.pending \subseteq {link[j].to}
  BY <1>6, <1>7, <1>12 DEF old
<1> QED  BY <1>7, <1>8, <1>9, <1>10, <1>11, <1>12, <1>13, RequestWrites

\* A link is made for the row and the address a request has found.
LEMMA AskWriteStep ==
    ASSUME Inv, NEW r \in Requests, AskWrite(r)
    PROVE  Inv'
<1>1. /\ TypeOK /\ At(r, "write") /\ loc[r].kind # "change" /\ HasFound(loc[r])
      /\ loc[r] \in Locals /\ Len(link) \in Nat
  BY DEF AskWrite, At, Inv, TypeOK, RequestsInv, Relies
<1> DEFINE n == Len(link')
<1>2. PICK x \in loc[r].row, e \in loc[r].email :
         /\ Make(loc[r].kind, x, e)
         /\ account' = [account EXCEPT ![x].token[loc[r].kind] = n]
  BY DEF AskWrite
<1>3. x \in Rows /\ e \in Emails /\ loc[r].kind \in Kinds
  BY <1>1 DEF Locals
<1> DEFINE kind == loc[r].kind
           made == NewLink(kind, x, e)
           old == account[x]
           new == [old EXCEPT !.token[kind] = n]
           l == [loc[r] EXCEPT !.k = n]
<1>4. made \in Link /\ made.row = x /\ made.kind = kind /\ made.to = e
  BY <1>3 DEF NewLink, Link
<1>5. link' = Append(link, made) /\ Len(link) < MaxLinks
  BY <1>2 DEF Make
<1> HIDE DEF made
<1>6. /\ link' \in Seq(Link) /\ n = Len(link) + 1 /\ n <= MaxLinks
      /\ DOMAIN link' = 1 .. n
      /\ \A k \in DOMAIN link : k \in DOMAIN link' /\ link'[k] = link[k]
      /\ link'[n] = made /\ \A k \in DOMAIN link' : k \in DOMAIN link \/ k = n
  BY <1>1, <1>4, <1>5, LinkAdded
<1>7. n \in 0 .. MaxLinks
  BY <1>1, <1>6, BoundsAssumption
<1>8. account' = [account EXCEPT ![x] = new]
  BY <1>2
<1>9. new = [old EXCEPT !.token[kind] = n]
  OBVIOUS
<1>10. /\ old \in Account /\ old.st # "none" /\ (~old.verified => e = old.email)
       /\ kind \in Kinds /\ kind # "change"
  BY <1>1, <1>2, <1>3 DEF TypeOK, HasFound
<1>11. Move(r, "mail", l) /\ UNCHANGED <<last, history>>
  BY DEF AskWrite
<1> HIDE DEF n
<1>12. l \in Locals /\ l.k = n
  BY <1>1, <1>7 DEF Locals
<1> HIDE DEF l, old, new, kind
<1>13. /\ new \in Account /\ new.token["change"] = old.token["change"]
       /\ new.st = old.st /\ new.email = old.email /\ new.verified = old.verified
       /\ new.gone = old.gone /\ new.pending = old.pending
  BY <1>7, <1>9, <1>10 DEF Account, Kinds
<1>14. /\ account' \in [Rows -> Account] /\ account'[x] = new
       /\ \A y \in Rows \ {x} : account'[y] = account[y]
  BY <1>1, <1>3, <1>8, <1>13, RowWritten
<1>15. /\ pc' \in [Requests -> PCs] /\ loc' \in [Requests -> Locals]
       /\ pc'[r] = "mail" /\ loc'[r] = l
  BY <1>1, <1>11, <1>12, MoveTyped, MoveSets DEF PCs
<1>16. TypeOK'
  BY <1>1, <1>6, <1>11, <1>14, <1>15 DEF TypeOK, history, n
<1>17. \A y \in Rows : /\ account'[y].token["change"] = account[y].token["change"]
                       /\ account'[y].st = account[y].st /\ account'[y].email = account[y].email
                       /\ account'[y].verified = account[y].verified
                       /\ account'[y].gone = account[y].gone
                       /\ account'[y].pending = account[y].pending
  BY <1>13, <1>14 DEF old
<1>18. /\ DOMAIN link = 1 .. Len(link)
       /\ \A k \in DOMAIN link : link[k].row \in Rows
  BY <1>1, LinkFacts DEF Link
<1>19. Keeps
  BY <1>1, <1>6, <1>11, <1>17 DEF Keeps, history, n
<1>20. LinksInv'
  <2>1. \A k \in DOMAIN link' : account'[link'[k].row].st # "none"
    BY <1>3, <1>4, <1>6, <1>10, <1>17, <1>18 DEF Inv, LinksInv, old
  <2>2. ASSUME NEW y \in Rows, ~account'[y].verified, NEW k \in DOMAIN link', link'[k].row = y
        PROVE  /\ link'[k].kind # "change"
               /\ link'[k].kind = "verify" => link'[k].to = account'[y].email
    <3>1. CASE k = n
      BY <1>3, <1>4, <1>6, <1>10, <1>17, <2>2, <3>1 DEF old
    <3>2. CASE k # n
      BY <1>6, <1>17, <2>2, <3>2 DEF Inv, LinksInv
    <3> QED  BY <3>1, <3>2
  <2>3. \A y \in Rows : account'[y].token["change"] <= n
    <3>1. \A y \in Rows : account[y].token["change"] <= Len(link)
      BY DEF Inv, LinksInv
    <3>2. \A y \in Rows : account[y].token["change"] \in Nat
      BY <1>1 DEF TypeOK, Account, Kinds
    <3> QED  BY <1>1, <1>6, <1>17, <3>1, <3>2
  <2>4. ASSUME NEW k \in DOMAIN link', link'[k].kind = "change",
               account'[link'[k].row].token["change"] = k
        PROVE  account'[link'[k].row].pending \subseteq {link'[k].to}
    <3>1. k # n
      BY <1>4, <1>6, <1>10, <2>4
    <3>2. k \in DOMAIN link /\ link'[k] = link[k] /\ link[k].row \in Rows
      BY <1>6, <1>18, <3>1
    <3> QED  BY <1>17, <2>4, <3>2 DEF Inv, LinksInv
  <2> QED  BY <2>1, <2>2, <2>3, <2>4 DEF LinksInv, n
<1>21. AddressProven'
  BY <1>6, <1>17 DEF Inv, AddressProven
<1>22. Relies(pc[r], loc[r])'
  BY <1>1, <1>6, <1>12, <1>15 DEF Relies
<1>23. RequestsInv'
  BY <1>11, <1>16, <1>19, <1>22, RequestsMove
<1> QED  BY <1>16, <1>17, <1>20, <1>21, <1>23 DEF Inv

\* A link reaches the mailbox, or does not, or expires.
LEMMA LinkMarked ==
    ASSUME Inv, NEW k \in DOMAIN link, NEW e \in Link, link' = [link EXCEPT ![k] = e],
           e.row = link[k].row, e.kind = link[k].kind, e.to = link[k].to,
           e.opened = link[k].opened, UNCHANGED <<account, overlap>>
    PROVE  /\ link' \in Seq(Link) /\ Len(link') = Len(link) /\ DOMAIN link' = DOMAIN link
           /\ Keeps /\ (TypeOK' => LinksInv' /\ AddressProven')
<1>1. TypeOK /\ Len(link) \in Nat
  BY DEF Inv, TypeOK
<1>2. /\ link' \in Seq(Link) /\ Len(link') = Len(link) /\ DOMAIN link' = DOMAIN link
      /\ link'[k] = e /\ \A j \in DOMAIN link \ {k} : link'[j] = link[j]
  BY <1>1, LinkWritten
<1>3. Keeps
  BY <1>1, <1>2 DEF Keeps
<1>4. TypeOK' => LinksInv' /\ AddressProven'
  BY <1>2, <1>3, ProofsKept
<1> QED  BY <1>2, <1>3, <1>4

LEMMA SendMailStep ==
    ASSUME Inv, NEW r \in Requests, SendMail(r)
    PROVE  Inv'
<1> DEFINE k == loc[r].k
<1>1. /\ TypeOK /\ (At(r, "mail") \/ At(r, "mail_first"))
      /\ k \in DOMAIN link /\ link[k] \in Link /\ link[k].row \in Rows /\ link[k].kind \in Kinds
      /\ loc[r] \in Locals
  <2>1. TypeOK /\ Relies(pc[r], loc[r]) /\ (At(r, "mail") \/ At(r, "mail_first"))
    BY DEF Inv, RequestsInv, SendMail
  <2>2. k \in DOMAIN link
    BY <2>1 DEF Relies, At, Names
  <2>3. link[k] \in Link
    BY <2>1, <2>2, LinkFacts
  <2> QED  BY <2>1, <2>2, <2>3 DEF Link, TypeOK
<1>2. k \in 0 .. MaxLinks
  BY <1>1 DEF Locals
<1>3. PICK fate \in {"mailed", "lost"} : link' = [link EXCEPT ![k].st = fate]
  BY DEF SendMail
<1> DEFINE e == [link[k] EXCEPT !.st = fate]
<1>4. e \in Link /\ link' = [link EXCEPT ![k] = e]
  BY <1>1, <1>3, OpenedTyped
<1>5. e.row = link[k].row /\ e.kind = link[k].kind /\ e.to = link[k].to
      /\ e.opened = link[k].opened
  BY <1>1 DEF Link
<1> HIDE DEF e
<1>6. UNCHANGED <<account, overlap, moved, left>>
  BY DEF SendMail
<1>7. /\ link' \in Seq(Link) /\ Len(link') = Len(link) /\ DOMAIN link' = DOMAIN link
      /\ Keeps /\ (TypeOK' => LinksInv' /\ AddressProven')
  BY <1>1, <1>4, <1>5, <1>6, LinkMarked
<1>8. last' \in [Rows -> [Kinds -> 0 .. MaxLinks]]
  <2>1. CASE UNCHANGED last
    BY <1>1, <2>1 DEF TypeOK
  <2>2. CASE last' = [last EXCEPT ![link[k].row][link[k].kind] = k]
    <3> DEFINE x == link[k].row
               kind == link[k].kind
               was == last[x]
    <3>1. was \in [Kinds -> 0 .. MaxLinks] /\ x \in Rows /\ kind \in Kinds
      BY <1>1 DEF TypeOK
    <3>2. last' = [last EXCEPT ![x] = [was EXCEPT ![kind] = k]]
      BY <2>2
    <3> HIDE DEF was, x, kind, k
    <3>3. [was EXCEPT ![kind] = k] \in [Kinds -> 0 .. MaxLinks]
      BY <1>2, <3>1
    <3> QED  BY <1>1, <3>1, <3>2, <3>3 DEF TypeOK
  <2> QED  BY <2>1, <2>2 DEF SendMail
<1>9. failed' \subseteq Rows
  BY <1>1 DEF SendMail, TypeOK
<1>10. /\ Relies(pc[r], loc[r])' /\ pc' \in [Requests -> PCs] /\ loc' \in [Requests -> Locals]
       /\ \E p, l : Move(r, p, l)
  <2>1. CASE At(r, "mail")
    <3>1. Return(r)
      BY <2>1 DEF SendMail
    <3> QED  BY <1>1, <3>1, ReturnRelies DEF Return
  <2>2. CASE ~At(r, "mail")
    <3>1. Move(r, "write", loc[r]) /\ pc[r] = "mail_first"
      BY <1>1, <2>2 DEF SendMail, At
    <3>2. Names(loc[r]) /\ loc[r].kind = "change"
      BY <3>1 DEF Inv, RequestsInv, Relies
    <3>3. /\ pc' \in [Requests -> PCs] /\ loc' \in [Requests -> Locals]
          /\ pc'[r] = "write" /\ loc'[r] = loc[r]
      BY <1>1, <3>1, MoveTyped, MoveSets DEF PCs
    <3>4. Names(loc[r])'
      BY <1>1, <1>6, <1>7, <3>2, <3>3 DEF Names, Keeps
    <3>5. Relies(pc[r], loc[r])'
      BY <3>2, <3>3, <3>4 DEF Relies
    <3> QED  BY <3>1, <3>3, <3>5
  <2> QED  BY <2>1, <2>2
<1>11. TypeOK'
  BY <1>1, <1>6, <1>7, <1>8, <1>9, <1>10 DEF TypeOK
<1>12. RequestsInv'
  BY <1>7, <1>10, <1>11, RequestsMove
<1> QED  BY <1>6, <1>7, <1>11, <1>12 DEF Inv

LEMMA ExpireStep ==
    ASSUME Inv, NEW k \in DOMAIN link, Expire(k)
    PROVE  Inv'
<1> DEFINE e == [link[k] EXCEPT !.old = TRUE]
<1>1. TypeOK /\ link[k] \in Link
  BY LinkFacts DEF Inv
<1>2. e \in Link /\ link' = [link EXCEPT ![k] = e]
  BY <1>1, OpenedTyped DEF Expire
<1>3. e.row = link[k].row /\ e.kind = link[k].kind /\ e.to = link[k].to
      /\ e.opened = link[k].opened
  BY <1>1 DEF Link
<1> HIDE DEF e
<1>4. UNCHANGED <<account, last, pc, loc, overlap, failed, moved, left>>
  BY DEF Expire, history
<1>5. /\ link' \in Seq(Link) /\ Len(link') = Len(link)
      /\ Keeps /\ (TypeOK' => LinksInv' /\ AddressProven')
  BY <1>2, <1>3, <1>4, LinkMarked
<1>6. TypeOK'
  BY <1>1, <1>4, <1>5 DEF TypeOK
<1>7. RequestsInv'
  BY <1>4, <1>5, <1>6, RequestsStay
<1> QED  BY <1>4, <1>5, <1>6, <1>7 DEF Inv

LEMMA AbortStep ==
    ASSUME Inv, NEW r \in Requests, Abort(r)
    PROVE  Inv'
<1>1. TypeOK /\ Return(r) /\ UNCHANGED <<account, link, last, overlap, moved, left>>
  BY DEF Inv, Abort, tables
<1>2. failed' \subseteq Rows
  BY <1>1 DEF Abort, TypeOK, Locals
<1>3. Relies(pc[r], loc[r])' /\ pc' \in [Requests -> PCs] /\ loc' \in [Requests -> Locals]
  BY <1>1, ReturnRelies
<1>4. TypeOK' /\ Keeps
  BY <1>1, <1>2, <1>3 DEF TypeOK, Keeps
<1>5. RequestsInv' /\ LinksInv' /\ AddressProven'
  BY <1>1, <1>3, <1>4, RequestsMove, ProofsKept DEF Return
<1> QED  BY <1>1, <1>4, <1>5 DEF Inv

\* An account ends, and a request that remembers it is on record.
LEMMA EndStep ==
    ASSUME Inv, NEW x \in Rows, End(x)
    PROVE  Inv'
<1> DEFINE old == account[x]
           deleted == [old EXCEPT !.st = "deleted", !.gone = TRUE,
                                  !.token["verify"] = 0, !.token["reset"] = 0]
           suspended == [old EXCEPT !.st = "suspended", !.gone = TRUE]
<1>1. /\ TypeOK /\ old \in Account /\ 0 \in 0 .. MaxLinks
      /\ old.st # "none" /\ Len(link) \in Nat
  BY BoundsAssumption DEF End, Live, Inv, TypeOK
<1>2. \/ account' = [account EXCEPT ![x] = deleted]
      \/ account' = [account EXCEPT ![x] = suspended]
  BY <1>1 DEF End, TypeOK
<1>3. /\ deleted = [old EXCEPT !.st = "deleted", !.gone = TRUE,
                               !.token["verify"] = 0, !.token["reset"] = 0]
      /\ suspended = [old EXCEPT !.st = "suspended", !.gone = TRUE]
  OBVIOUS
<1>4. /\ old.token["change"] <= Len(link)
      /\ \A j \in DOMAIN link : link[j].kind = "change" /\ link[j].row = x
           /\ old.token["change"] = j => old.pending \subseteq {link[j].to}
      /\ old.verified => \E j \in DOMAIN link : /\ link[j].opened /\ link[j].row = x
                                                /\ link[j].to = old.email
  BY DEF Inv, LinksInv, AddressProven
<1> HIDE DEF old, deleted, suspended
<1>5. /\ deleted \in Account /\ deleted.pending = old.pending /\ deleted.st # "none"
      /\ deleted.token["change"] = old.token["change"]
      /\ deleted.email = old.email /\ deleted.verified = old.verified
  BY <1>1, <1>3 DEF Account, Kinds
<1>6. /\ suspended \in Account /\ suspended.pending = old.pending /\ suspended.st # "none"
      /\ suspended.token["change"] = old.token["change"]
      /\ suspended.email = old.email /\ suspended.verified = old.verified
  BY <1>1, <1>3 DEF Account, Kinds
<1>7. PICK new \in {deleted, suspended} : account' = [account EXCEPT ![x] = new]
  BY <1>2
<1>8. /\ new \in Account /\ new.pending = old.pending /\ new.st # "none"
      /\ new.token["change"] = old.token["change"]
      /\ new.email = old.email /\ new.verified = old.verified
  BY <1>5, <1>6
<1>9. /\ account' \in [Rows -> Account] /\ account'[x] = new
      /\ \A y \in Rows \ {x} : account'[y] = account[y]
  BY <1>1, <1>7, <1>8, RowWritten
<1>10. /\ UNCHANGED <<link, last, pc, loc, failed, moved>>
       /\ overlap' = overlap \cup UNION {loc[q].row \cap {x} : q \in Requests}
       /\ left' = left - 1 /\ left > 0
  BY DEF End
<1>11. overlap \subseteq overlap' /\ overlap' \subseteq Rows \cup Emails
  BY <1>1, <1>10 DEF TypeOK
<1>12. \A q \in Requests : x \in loc[q].row => x \in overlap'
  BY <1>10
<1>13. left' \in 0 .. MaxReqs
  BY <1>1, <1>10, BoundsAssumption DEF TypeOK
<1>14. TypeOK'
  BY <1>1, <1>9, <1>10, <1>11, <1>13 DEF TypeOK
<1>15. account[x].st # "none" /\ (account[x].verified => new.verified)
       /\ new.token["change"] <= Len(link)
  BY <1>1, <1>4, <1>8 DEF old
<1>16. ~new.verified => new.email = account[x].email
  BY <1>8 DEF old
<1>17. \A j \in DOMAIN link : link[j].kind = "change" /\ link[j].row = x
           /\ new.token["change"] = j => new.pending \subseteq {link[j].to}
  BY <1>4, <1>8
<1>18. new.verified => \E j \in DOMAIN link : /\ link'[j].opened /\ link[j].row = x
                                              /\ link[j].to = new.email
  BY <1>4, <1>8, <1>10
<1>19. /\ Keeps /\ LinksInv' /\ AddressProven'
       /\ \A y \in Rows : account'[y].st = "none" => ~account'[y].gone
  BY <1>8, <1>9, <1>10, <1>11, <1>12, <1>15, <1>16, <1>17, <1>18, RowStep
<1>20. RequestsInv'
  BY <1>10, <1>14, <1>19, RequestsStay
<1> QED  BY <1>14, <1>19, <1>20 DEF Inv

LEMMA Ending ==
    ASSUME Inv, NEW x \in Rows, End(x)
    PROVE  /\ UNCHANGED <<link, last, pc, loc, failed, moved>> /\ overlap \subseteq overlap'
           /\ account'[x].st # "none" /\ account'[x].gone
           /\ \A y \in Rows \ {x} : account'[y] = account[y]
<1> DEFINE old == account[x]
           deleted == [old EXCEPT !.st = "deleted", !.gone = TRUE,
                                  !.token["verify"] = 0, !.token["reset"] = 0]
           suspended == [old EXCEPT !.st = "suspended", !.gone = TRUE]
<1>1. TypeOK /\ old \in Account
  BY DEF Inv, TypeOK
<1>2. \/ account' = [account EXCEPT ![x] = deleted]
      \/ account' = [account EXCEPT ![x] = suspended]
  BY <1>1 DEF End, TypeOK
<1>3. /\ deleted.st # "none" /\ deleted.gone /\ suspended.st # "none" /\ suspended.gone
  BY <1>1 DEF Account
<1> HIDE DEF deleted, suspended
<1>4. account'[x].st # "none" /\ account'[x].gone /\ \A y \in Rows \ {x} : account'[y] = account[y]
  BY <1>1, <1>2, <1>3 DEF TypeOK
<1> QED  BY <1>4 DEF End

Administers(x) == Reinstate(x) \/ SetStatus(x, "suspended")

\* An administrator changes the status of an account, or its organisation.
LEMMA Administering ==
    ASSUME Inv, NEW x \in Rows, Administers(x)
    PROVE  /\ UNCHANGED <<link, last, pc, loc, overlap, failed, moved>>
           /\ left' \in 0 .. MaxReqs /\ account' \in [Rows -> Account]
           /\ account[x].st # "none" /\ account'[x].st # "none"
           /\ account'[x].email = account[x].email /\ account'[x].gone = account[x].gone
           /\ account'[x].verified = account[x].verified
           /\ account'[x].pending = account[x].pending /\ account'[x].token = account[x].token
           /\ \A y \in Rows \ {x} : account'[y] = account[y]
<1>1. TypeOK /\ account[x] \in Account
  BY DEF Inv, TypeOK
<1>2. /\ UNCHANGED <<link, last, pc, loc, overlap, failed, moved>>
      /\ left' \in 0 .. MaxReqs /\ account[x].st # "none"
  <2>1. /\ UNCHANGED <<link, last, pc, loc, overlap, failed, moved>>
        /\ left > 0 /\ left' = left - 1 /\ account[x].st # "none"
    BY DEF Administers, Reinstate, SetStatus, Assign
  <2>2. left' \in 0 .. MaxReqs
    BY <1>1, <2>1, BoundsAssumption DEF TypeOK
  <2> QED  BY <2>1, <2>2
<1>3. PICK st \in {"active", "suspended"}, org \in Rows :
        account' = [account EXCEPT ![x] = [account[x] EXCEPT !.st = st, !.org = org]]
  <2>1. ASSUME NEW st \in {"active", "suspended"}, SetStatus(x, st)
        PROVE  account' = [account EXCEPT ![x] = [account[x] EXCEPT !.st = st, !.org = account[x].org]]
    <3>1. [account[x] EXCEPT !.st = st, !.org = account[x].org] = [account[x] EXCEPT !.st = st]
      BY <1>1 DEF Account
    <3> QED  BY <1>1, <2>1, <3>1 DEF SetStatus, TypeOK
  <2>2. ASSUME NEW host \in Rows, Assign(x, host)
        PROVE  account' = [account EXCEPT ![x] =
                             [account[x] EXCEPT !.st = "active", !.org = account[host].org]]
    BY <1>1, <2>2 DEF Assign, TypeOK
  <2>3. \A host \in Rows : account[host].org \in Rows
    BY <1>1 DEF TypeOK, Account
  <2> QED  BY <2>1, <2>2, <2>3 DEF Administers, Reinstate
<1> DEFINE new == [account[x] EXCEPT !.st = st, !.org = org]
<1>4. /\ new \in Account /\ new.st # "none"
      /\ new.email = account[x].email /\ new.gone = account[x].gone
      /\ new.verified = account[x].verified
      /\ new.pending = account[x].pending /\ new.token = account[x].token
  BY <1>1 DEF Account
<1> HIDE DEF new
<1>5. /\ account' \in [Rows -> Account] /\ account'[x] = new
      /\ \A y \in Rows \ {x} : account'[y] = account[y]
  BY <1>1, <1>3, <1>4, RowWritten DEF new
<1> QED  BY <1>2, <1>4, <1>5

LEMMA AdministerStep ==
    ASSUME Inv, NEW x \in Rows, Administers(x)
    PROVE  Inv'
<1> DEFINE new == account'[x]
<1>1. /\ UNCHANGED <<link, last, pc, loc, overlap, failed, moved>>
      /\ left' \in 0 .. MaxReqs /\ account' \in [Rows -> Account] /\ new \in Account
      /\ account[x].st # "none" /\ new.st # "none"
      /\ new.email = account[x].email /\ new.gone = account[x].gone
      /\ new.verified = account[x].verified
      /\ new.pending = account[x].pending /\ new.token = account[x].token
      /\ \A y \in Rows \ {x} : account'[y] = account[y]
  BY Administering
<1>2. TypeOK'
  BY <1>1 DEF Inv, TypeOK
<1>3. /\ new.token["change"] <= Len(link)
      /\ \A j \in DOMAIN link : link[j].kind = "change" /\ link[j].row = x
           /\ new.token["change"] = j => new.pending \subseteq {link[j].to}
      /\ new.verified => \E j \in DOMAIN link : /\ link'[j].opened /\ link[j].row = x
                                                /\ link[j].to = new.email
  BY <1>1 DEF Inv, LinksInv, AddressProven
<1> HIDE DEF new
<1>4. account'[x] = new
  BY DEF new
<1>5. /\ Keeps /\ LinksInv' /\ AddressProven'
      /\ \A y \in Rows : account'[y].st = "none" => ~account'[y].gone
  BY <1>1, <1>3, <1>4, RowStep
<1>6. RequestsInv'
  BY <1>1, <1>2, <1>5, RequestsStay
<1> QED  BY <1>2, <1>5, <1>6 DEF Inv

----------------------------------------------------------------------------
(* The theorems.                                                           *)

LEMMA InitInv == Init => Inv
<1> SUFFICES ASSUME Init PROVE Inv
  OBVIOUS
<1>1. NoTokens \in [Kinds -> 0 .. MaxLinks] /\ NoTokens["change"] = 0
  BY BoundsAssumption DEF NoTokens, Kinds
<1>2. \A x \in Rows : /\ account[x] \in Account /\ account[x].st = "none"
                      /\ ~account[x].gone /\ ~account[x].verified
                      /\ account[x].token["change"] = 0
  BY <1>1 DEF Init, NoAccount, Account
<1>3. link = <<>> /\ DOMAIN link = {} /\ Len(link) = 0 /\ link \in Seq(Link)
  BY DEF Init
<1>4. account \in [Rows -> Account] /\ last \in [Rows -> [Kinds -> 0 .. MaxLinks]]
  BY <1>1, <1>2 DEF Init
<1>5. pc \in [Requests -> PCs] /\ loc \in [Requests -> Locals]
  BY NoLocalsTyped DEF Init, PCs
<1>6. TypeOK
  BY <1>3, <1>4, <1>5, BoundsAssumption DEF Init, TypeOK
<1>7. LinksInv /\ AddressProven
  BY <1>2, <1>3 DEF LinksInv, AddressProven
<1>8. RequestsInv
  BY DEF Init, RequestsInv, Relies
<1> QED  BY <1>2, <1>6, <1>7, <1>8 DEF Inv

LEMMA StepInv == Inv /\ [Next]_vars => Inv'
<1> SUFFICES ASSUME Inv, [Next]_vars PROVE Inv'
  OBVIOUS
<1>1. ASSUME NEW r \in Requests, NEW e \in Emails,
             \/ RegisterRead(r, e)
             \/ \E x \in Rows : AcceptRead(r, x, e) \/ ChangeRead(r, x, e)
             \/ \E kind \in Kinds : AskRead(r, e, kind)
      PROVE  Inv'
  BY <1>1, ReadSteps, ChangeReadStep
<1>2. ASSUME NEW r \in Requests, NEW k \in DOMAIN link, OpenRead(r, k)
      PROVE  Inv'
  BY <1>2, ReadSteps
<1>3. ASSUME NEW r \in Requests,
             \/ RegisterCreate(r) \/ AcceptCreate(r) \/ AskWrite(r) \/ SendMail(r)
             \/ ChangeWrite(r) \/ VerifyWrite(r) \/ ResetWrite(r) \/ MoveWrite(r) \/ Abort(r)
      PROVE  Inv'
  BY <1>3, CreateSteps, AskWriteStep, SendMailStep, ChangeWriteStep, VerifyWriteStep,
     ResetWriteStep, MoveWriteStep, AbortStep
<1>4. ASSUME NEW x \in Rows, End(x) \/ Administers(x) PROVE Inv'
  BY <1>4, EndStep, AdministerStep
<1>5. ASSUME NEW k \in DOMAIN link, Expire(k) PROVE Inv'
  BY <1>5, ExpireStep
<1>6. CASE UNCHANGED vars
  <2>1. UNCHANGED <<account, link, last, pc, loc, overlap, failed, moved, left>>
    BY <1>6 DEF vars
  <2>2. TypeOK' /\ Keeps
    BY <2>1 DEF Inv, TypeOK, Keeps
  <2>3. RequestsInv' /\ LinksInv' /\ AddressProven'
    BY <2>1, <2>2, RequestsStay, ProofsKept
  <2> QED  BY <2>1, <2>2, <2>3 DEF Inv
<1> QED  BY <1>1, <1>2, <1>3, <1>4, <1>5, <1>6 DEF Next, Administers

LEMMA Invariance == Spec => []Inv
BY InitInv, StepInv, PTL DEF Spec

\* Type correctness of accounts, links and requests.
THEOREM TypeCorrect == Spec => []TypeOK
BY Invariance, PTL DEF Inv

\* A verified account's address has been read by its owner, however many
\* verifications, changes of email and failures overlap.
THEOREM AddressIsProven == Spec => []AddressProven
BY Invariance, PTL DEF Inv

\* The row of an account that has ended, and that no request was opening a link
\* for while it ended.
LEMMA EndedStep ==
    ASSUME Inv, [Next]_vars, NEW x \in Rows, account[x].gone, x \notin overlap
    PROVE  /\ account'[x].email = account[x].email /\ account'[x].verified = account[x].verified
           /\ account[x].st # "active" /\ account'[x].st = "active" => Reinstate(x)
<1> DEFINE Kept == /\ account'[x].email = account[x].email
                   /\ account'[x].verified = account[x].verified
                   /\ account'[x].st = account[x].st
<1>1. TypeOK /\ account[x] \in Account /\ account[x].st # "none"
  BY DEF Inv, TypeOK
<1>2. ASSUME NEW y \in Rows, Administers(y), ~Kept
      PROVE  /\ account'[x].email = account[x].email /\ account'[x].verified = account[x].verified
             /\ account'[x].st = "active" => Reinstate(x)
  <2>1. y = x
    BY <1>2, Administering
  <2>2. SetStatus(x, "suspended") => account'[x].st # "active"
    BY <1>1 DEF SetStatus, TypeOK, Account
  <2> QED  BY <1>2, <2>1, <2>2, Administering DEF Administers
<1>3. ASSUME NEW y \in Rows, End(y)
      PROVE  Kept
  <2>1. y # x
    BY <1>3 DEF End, Live
  <2> QED  BY <1>3, <2>1, Ending
<1>4. ASSUME NEW r \in Requests, RegisterCreate(r) \/ AcceptCreate(r)
      PROVE  Kept
  <2>1. \E y \in Rows \ {x} : \E u : account' = [account EXCEPT ![y] = u]
    BY <1>1, <1>4 DEF RegisterCreate, AcceptCreate
  <2> QED  BY <1>1, <2>1 DEF TypeOK
<1>5. ASSUME NEW r \in Requests, AskWrite(r) \/ ChangeWrite(r) \/ ResetWrite(r)
      PROVE  Kept
  <2>1. ASSUME AskWrite(r) PROVE Kept
    <3>1. PICK y \in Rows : account' =
                 [account EXCEPT ![y].token = [account[y].token EXCEPT ![loc[r].kind] = Len(link')]]
      BY <1>1, <2>1 DEF AskWrite, TypeOK, Locals
    <3> QED  BY <1>1, <3>1 DEF TypeOK, Account
  <2>2. ASSUME ChangeWrite(r) PROVE Kept
    BY <1>1, <2>2 DEF ChangeWrite, TypeOK, Account, Locals
  <2>3. ASSUME ResetWrite(r) PROVE Kept
    BY <1>1, <2>3 DEF ResetWrite, TypeOK, Account, Locals
  <2> QED  BY <1>5, <2>1, <2>2, <2>3
<1>6. ASSUME NEW r \in Requests, VerifyWrite(r) \/ MoveWrite(r)
      PROVE  Kept
  <2>1. /\ pc[r] = "open" /\ loc[r].row \subseteq Rows
        /\ \A y \in loc[r].row : account[y].gone => y \in overlap
    BY <1>1, <1>6 DEF VerifyWrite, MoveWrite, At, Inv, RequestsInv, Relies, TypeOK, Locals
  <2>2. PICK y \in loc[r].row : \A z \in Rows \ {y} : account'[z] = account[z]
    BY <1>1, <1>6, <2>1 DEF VerifyWrite, MoveWrite, TypeOK
  <2>3. y # x
    BY <2>1
  <2> QED  BY <2>2, <2>3
<1>7. ASSUME UNCHANGED account
      PROVE  Kept
  BY <1>7
<1>8. CASE UNCHANGED account \/ \E r \in Requests :
             \/ RegisterCreate(r) \/ AcceptCreate(r) \/ AskWrite(r)
             \/ ChangeWrite(r) \/ VerifyWrite(r) \/ ResetWrite(r) \/ MoveWrite(r)
  BY <1>4, <1>5, <1>6, <1>7, <1>8
<1>9. CASE \E y \in Rows : End(y) \/ Administers(y)
  BY <1>2, <1>3, <1>9
<1> QED  BY <1>8, <1>9 DEF Next, vars, tables, RegisterRead, AcceptRead, AskRead, ChangeRead,
         OpenRead, SendMail, Expire, Abort, Administers

\* An account that has ended keeps its address and its verification, and becomes
\* active again only by updateMemberStatus or superAdminAssignAdmin, unless one of
\* its links was being opened while it ended.
THEOREM EndedIsUntouched == Spec => EndedUntouched
<1>1. Inv /\ [Next]_vars =>
        [\A x \in Rows : account[x].gone /\ x \notin overlap =>
           /\ account'[x].email = account[x].email /\ account'[x].verified = account[x].verified
           /\ account[x].st # "active" /\ account'[x].st = "active" => Reinstate(x)]_vars
  BY EndedStep
<1> QED  BY <1>1, Invariance, PTL DEF Spec, EndedUntouched

----------------------------------------------------------------------------
(* Requests that overlap.  Two requests know the same row or address only  *)
(* if that is on record: as long as it is not, a request is alone with its *)
(* row, and what it has found or made is still so when it goes on.         *)

Apart ==
    \A q, r \in Requests : q # r =>
      /\ loc[q].row \cap loc[r].row \subseteq overlap
      /\ loc[q].email \cap loc[r].email \subseteq overlap

\* An address about to get an account has none yet, save one that moved there.
Free(r) ==
    pc[r] \in {"create", "join"} =>
      \A e \in loc[r].email \ overlap : \A x \in Found(e) : x \in moved

AddressFree == \A r \in Requests : Free(r)

Posting == {"mail", "mail_first"}

\* A request is about one account at most, which exists, and waits with a link
\* that nobody has mailed.
Placed(r) ==
    /\ \A x \in loc[r].row : account[x].st # "none"
    /\ \A x, y \in loc[r].row : x = y
    /\ pc[r] = "create" => loc[r].kind = "verify"
    /\ pc[r] \in Posting =>
         /\ loc[r].k \in DOMAIN link /\ link[loc[r].k].st = "new"
         /\ loc[r].row = {link[loc[r].k].row} /\ loc[r].kind = link[loc[r].k].kind

PostInv ==
    /\ \A r \in Requests : Placed(r)
    /\ \A q, r \in Requests :
         pc[q] \in Posting /\ pc[r] \in Posting /\ loc[q].k = loc[r].k => q = r

\* The link mailed last is one of its account and its kind.
LastInv ==
    \A x \in Rows, kind \in Kinds : last[x][kind] # 0 =>
      /\ last[x][kind] \in DOMAIN link /\ link[last[x][kind]].st = "mailed"
      /\ link[last[x][kind]].row = x /\ link[last[x][kind]].kind = kind

OrderInv == Apart /\ PostInv /\ LastInv

\* The last link has been opened or has expired, or it works, or there is no
\* need of it.
OnPar(x, kind) ==
    \/ last[x][kind] = 0 \/ link[last[x][kind]].opened \/ link[last[x][kind]].old
    \/ account[x].token[kind] = last[x][kind]
    \/ kind = "verify" /\ account[x].verified

Undisturbed(x) == Live(x) /\ x \notin overlap \cup failed

\* Only between the mail of a link and the write of its token, whichever comes
\* first, are mailbox and row at odds.
Under(r, x, kind) == x \in loc[r].row /\ loc[r].kind = kind /\ pc[r] \in {"mail", "write"}

NewestInv ==
    \A x \in Rows : Undisturbed(x) => \A kind \in Kinds :
      OnPar(x, kind) \/ \E r \in Requests : Under(r, x, kind)

\* And what is to follow will bring them together.
Carries(r, x) ==
    /\ pc[r] \in {"mail", "open"} => account[x].token[loc[r].kind] = loc[r].k
    /\ pc[r] = "write" /\ loc[r].kind = "change" => last[x]["change"] = loc[r].k

CarryInv == \A r \in Requests : \A x \in loc[r].row : Undisturbed(x) => Carries(r, x)

NewsInv == NewestInv /\ CarryInv

----------------------------------------------------------------------------
(* What each action does, in the terms of these invariants.                *)

Stands(r) == \A q \in Requests \ {r} : pc'[q] = pc[q] /\ loc'[q] = loc[q]

LEMMA Moving ==
    ASSUME TypeOK, NEW r \in Requests, NEW p, NEW l, Move(r, p, l)
    PROVE  Stands(r) /\ pc'[r] = p /\ loc'[r] = l
BY DEF Move, TypeOK, Stands

LEMMA Returning ==
    ASSUME TypeOK, NEW r \in Requests, Return(r)
    PROVE  /\ Stands(r) /\ pc'[r] = "idle"
           /\ loc'[r].row = {} /\ loc'[r].email = {}
BY Moving DEF Return, NoLocals

\* What two requests share when one of them begins is on record.
Overlaps(r) ==
    /\ overlap \subseteq overlap'
    /\ \A q \in Requests \ {r} : /\ loc[q].row \cap loc'[r].row \subseteq overlap'
                                 /\ loc[q].email \cap loc'[r].email \subseteq overlap'

LEMMA Beginning ==
    ASSUME TypeOK, NEW r \in Requests, NEW p, NEW l, Begin(r, p, l)
    PROVE  /\ Stands(r) /\ pc'[r] = p /\ loc'[r] = l /\ Overlaps(r)
           /\ pc[r] = "idle" /\ UNCHANGED <<failed, moved>>
<1>1. Stands(r) /\ pc'[r] = p /\ loc'[r] = l
  BY Moving DEF Begin
<1>2. overlap' = overlap \cup
         UNION {(loc[q].row \cap l.row) \cup (loc[q].email \cap l.email) : q \in Requests \ {r}}
  BY DEF Begin
<1>3. Overlaps(r)
  BY <1>1, <1>2 DEF Overlaps
<1> QED  BY <1>1, <1>3 DEF Begin

\* A request that only reads knows that there is no account yet, or the one
\* account that it has found.
LEMMA Reading ==
    ASSUME Inv, NEW r \in Requests,
           \/ \E e \in Emails : RegisterRead(r, e)
           \/ \E e \in Emails, x \in Rows : AcceptRead(r, x, e)
           \/ \E e \in Emails, kind \in Kinds : AskRead(r, e, kind)
           \/ \E k \in DOMAIN link : OpenRead(r, k)
    PROVE  /\ Stands(r) /\ Overlaps(r) /\ pc[r] = "idle"
           /\ UNCHANGED <<account, link, last, failed, moved>>
           /\ \/ /\ pc'[r] = "create" /\ loc'[r].row = {} /\ loc'[r].kind = "verify"
                 /\ \A e \in loc'[r].email : Found(e) = {}
              \/ \E x \in Rows :
                   /\ loc'[r].row = {x} /\ account[x].st # "none"
                   /\ \/ pc'[r] = "join" /\ \A e \in loc'[r].email : Found(e) = {}
                      \/ pc'[r] = "write" /\ loc'[r].kind # "change"
                      \/ pc'[r] = "open" /\ account[x].token[loc'[r].kind] = loc'[r].k
<1>0. TypeOK
  BY DEF Inv
<1>1. ASSUME NEW e \in Emails, RegisterRead(r, e)
      PROVE  /\ Stands(r) /\ Overlaps(r) /\ pc[r] = "idle"
             /\ UNCHANGED <<account, link, last, failed, moved>>
             /\ pc'[r] = "create" /\ loc'[r].row = {} /\ loc'[r].kind = "verify"
             /\ \A f \in loc'[r].email : Found(f) = {}
  <2> DEFINE l == [NoLocals EXCEPT !.email = {e}]
  <2>1. Begin(r, "create", l) /\ Found(e) = {} /\ UNCHANGED tables
    BY <1>1 DEF RegisterRead
  <2>2. l.row = {} /\ l.email = {e} /\ l.kind = "verify"
    BY DEF NoLocals
  <2> HIDE DEF l
  <2> QED  BY <1>0, <2>1, <2>2, Beginning DEF tables
<1>2. ASSUME NEW e \in Emails, NEW x \in Rows, AcceptRead(r, x, e)
      PROVE  /\ Stands(r) /\ Overlaps(r) /\ pc[r] = "idle"
             /\ UNCHANGED <<account, link, last, failed, moved>>
             /\ loc'[r].row = {x} /\ account[x].st # "none"
             /\ pc'[r] = "join" /\ \A f \in loc'[r].email : Found(f) = {}
  <2> DEFINE l == [NoLocals EXCEPT !.email = {e}, !.row = {x}]
  <2>1. Begin(r, "join", l) /\ Found(e) = {} /\ UNCHANGED tables /\ account[x].st # "none"
    BY <1>2 DEF AcceptRead, Known, Found, Live
  <2>2. l.row = {x} /\ l.email = {e}
    BY DEF NoLocals
  <2> HIDE DEF l
  <2> QED  BY <1>0, <2>1, <2>2, Beginning DEF tables
<1>3. ASSUME NEW e \in Emails, NEW kind \in Kinds, AskRead(r, e, kind)
      PROVE  /\ Stands(r) /\ Overlaps(r) /\ pc[r] = "idle"
             /\ UNCHANGED <<account, link, last, failed, moved>>
             /\ pc'[r] = "write" /\ loc'[r].kind # "change"
             /\ \E x \in Rows : loc'[r].row = {x} /\ account[x].st # "none"
  <2>1. PICK x \in Found(e) :
           Begin(r, "write", [NoLocals EXCEPT !.row = {x}, !.email = {e}, !.kind = kind])
    BY <1>3 DEF AskRead
  <2> DEFINE l == [NoLocals EXCEPT !.row = {x}, !.email = {e}, !.kind = kind]
  <2>2. x \in Rows /\ account[x].st # "none" /\ kind # "change" /\ UNCHANGED tables
    BY <1>3 DEF Found, Live, AskRead
  <2>3. l.row = {x} /\ l.kind = kind /\ Begin(r, "write", l)
    BY <2>1 DEF NoLocals
  <2> HIDE DEF l
  <2> QED  BY <1>0, <2>2, <2>3, Beginning DEF tables
<1>4. ASSUME NEW k \in DOMAIN link, OpenRead(r, k)
      PROVE  /\ Stands(r) /\ Overlaps(r) /\ pc[r] = "idle"
             /\ UNCHANGED <<account, link, last, failed, moved>>
             /\ pc'[r] = "open"
             /\ \E x \in Rows : /\ loc'[r].row = {x} /\ account[x].st # "none"
                                /\ account[x].token[loc'[r].kind] = loc'[r].k
  <2> DEFINE x == link[k].row
             l == [row |-> {x}, kind |-> link[k].kind, k |-> k,
                   email |-> IF link[k].kind = "change" THEN account[x].pending ELSE {}]
  <2>1. Opens(k) /\ Begin(r, "open", l) /\ UNCHANGED tables
    BY <1>4, Zenon DEF OpenRead
  <2>2. account[x].token[link[k].kind] = k
    BY <2>1 DEF Opens
  <2>3. x \in Rows /\ account[x].st # "none"
    BY <1>0, LinkFacts DEF Link, Inv, LinksInv
  <2>4. l.row = {x} /\ l.kind = link[k].kind /\ l.k = k
    OBVIOUS
  <2> HIDE DEF l
  <2> QED  BY <1>0, <2>1, <2>2, <2>3, <2>4, Beginning DEF tables
<1> QED  BY <1>1, <1>2, <1>3, <1>4

\* A link of a kind to an account is made, and not mailed yet.
Adds(x, kind) ==
    /\ Len(link') = Len(link) + 1
    /\ \A k \in DOMAIN link : k \in DOMAIN link' /\ link'[k] = link[k]
    /\ \A k \in DOMAIN link' : k \in DOMAIN link \/ k = Len(link')
    /\ Len(link') \in DOMAIN link' /\ Len(link') \notin DOMAIN link
    /\ link'[Len(link')].st = "new"
    /\ link'[Len(link')].row = x /\ link'[Len(link')].kind = kind

LEMMA Adding ==
    ASSUME TypeOK, NEW x \in Rows, NEW kind \in Kinds, NEW e \in Link, Len(link) < MaxLinks,
           e.st = "new", e.row = x, e.kind = kind, link' = Append(link, e)
    PROVE  Adds(x, kind)
<1>1. /\ DOMAIN link = 1 .. Len(link) /\ Len(link) \in Nat
      /\ Len(link') = Len(link) + 1 /\ DOMAIN link' = 1 .. Len(link')
      /\ \A k \in DOMAIN link : k \in DOMAIN link' /\ link'[k] = link[k]
      /\ link'[Len(link')] = e
      /\ \A k \in DOMAIN link' : k \in DOMAIN link \/ k = Len(link')
  BY LinkFacts, LinkAdded, BoundsAssumption
<1>2. Len(link') \in DOMAIN link' /\ Len(link') \notin DOMAIN link
  BY <1>1
<1> QED  BY <1>1, <1>2 DEF Adds

LEMMA Making ==
    ASSUME TypeOK, NEW x \in Rows, NEW kind \in Kinds, NEW e \in Emails, Make(kind, x, e)
    PROVE  Adds(x, kind)
<1>1. /\ NewLink(kind, x, e) \in Link /\ NewLink(kind, x, e).st = "new"
      /\ NewLink(kind, x, e).row = x /\ NewLink(kind, x, e).kind = kind
  BY DEF NewLink, Link
<1> QED  BY <1>1, Adding DEF Make

LEMMA ChangeReading ==
    ASSUME Inv, NEW r \in Requests, NEW x \in Rows, NEW e \in Emails, ChangeRead(r, x, e)
    PROVE  /\ Stands(r) /\ Overlaps(r) /\ pc[r] = "idle"
           /\ UNCHANGED <<account, last, failed, moved>>
           /\ Adds(x, "change") /\ account[x].st # "none"
           /\ pc'[r] = "mail_first" /\ loc'[r].row = {x} /\ loc'[r].kind = "change"
           /\ loc'[r].k = Len(link')
<1> DEFINE n == Len(link')
           l == [NoLocals EXCEPT !.row = {x}, !.email = {e}, !.kind = "change", !.k = n]
<1>1. TypeOK /\ Begin(r, "mail_first", l) /\ Make("change", x, e) /\ UNCHANGED <<account, last>>
      /\ account[x].st # "none"
  BY DEF Inv, ChangeRead, Live
<1>2. l.row = {x} /\ l.kind = "change" /\ l.k = n
  BY DEF NoLocals
<1>3. Adds(x, "change")
  BY <1>1, Making DEF Kinds
<1> HIDE DEF l
<1> QED  BY <1>1, <1>2, <1>3, Beginning

\* An account comes to be, with an address and a token of verification, or none.
Founds(x, e, n) ==
    /\ x \in Rows /\ account[x].st = "none" /\ account'[x].st # "none" /\ ~account'[x].gone
    /\ account'[x].email = e /\ account'[x].token["verify"] = n
    /\ \A y \in Rows \ {x} : account'[y] = account[y]

LEMMA Registering ==
    ASSUME Inv, NEW r \in Requests, RegisterCreate(r)
    PROVE  /\ Stands(r) /\ UNCHANGED <<last, overlap, failed, moved>>
           /\ pc[r] = "create" /\ pc'[r] = "mail"
           /\ loc'[r].kind = loc[r].kind /\ loc'[r].k = Len(link')
           /\ loc'[r].email = loc[r].email
           /\ \E x \in Rows, e \in loc[r].email :
                Founds(x, e, Len(link')) /\ Adds(x, "verify") /\ loc'[r].row = {x}
<1> DEFINE n == Len(link')
<1>1. PICK x \in Rows, e \in loc[r].email :
         /\ account[x].st = "none"
         /\ Make("verify", x, e)
         /\ account' = [account EXCEPT ![x] = [NoAccount(x) EXCEPT
                !.st = "pending_verification", !.email = e, !.token["verify"] = n]]
         /\ Move(r, "mail", [loc[r] EXCEPT !.row = {x}, !.k = n])
  BY DEF RegisterCreate
<1>2. TypeOK /\ loc[r] \in Locals /\ e \in Emails
  BY DEF Inv, TypeOK, Locals
<1>3. Adds(x, "verify")
  BY <1>1, <1>2, Making DEF Kinds
<1> HIDE DEF n
<1> DEFINE new == [NoAccount(x) EXCEPT !.st = "pending_verification", !.email = e,
                                       !.token["verify"] = n]
           l == [loc[r] EXCEPT !.row = {x}, !.k = n]
<1>4. new.st # "none" /\ ~new.gone /\ new.email = e /\ new.token["verify"] = n
  BY DEF NoAccount, NoTokens, Kinds
<1>5. l.kind = loc[r].kind /\ l.k = n /\ l.email = loc[r].email /\ l.row = {x}
  BY <1>2 DEF Locals
<1>6. account' = [account EXCEPT ![x] = new] /\ Move(r, "mail", l)
  BY <1>1
<1> HIDE DEF new, l
<1>7. Founds(x, e, n)
  BY <1>1, <1>2, <1>4, <1>6 DEF TypeOK, Founds
<1>8. pc[r] = "create" /\ UNCHANGED <<last, overlap, failed, moved>>
  BY DEF RegisterCreate, At, history
<1> QED  BY <1>2, <1>3, <1>5, <1>6, <1>7, <1>8, Moving DEF n

LEMMA Accepting ==
    ASSUME Inv, NEW r \in Requests, AcceptCreate(r)
    PROVE  /\ Stands(r) /\ UNCHANGED <<last, overlap, failed, moved>>
           /\ pc[r] = "join" /\ pc'[r] = "idle" /\ loc'[r].row = {} /\ loc'[r].email = {}
           /\ \E x \in Rows, e \in loc[r].email : Founds(x, e, 0) /\ Adds(x, "verify")
<1>1. PICK x \in Rows, host \in loc[r].row, e \in loc[r].email :
         /\ account[x].st = "none" /\ Len(link) < MaxLinks
         /\ link' = Append(link, [NewLink("verify", x, e) EXCEPT !.opened = TRUE])
         /\ account' = [account EXCEPT ![x] = [NoAccount(x) EXCEPT !.st = "active",
                !.email = e, !.org = account[host].org, !.verified = TRUE]]
  BY DEF AcceptCreate
<1> DEFINE new == [NoAccount(x) EXCEPT !.st = "active",
                     !.email = e, !.org = account[host].org, !.verified = TRUE]
           made == [NewLink("verify", x, e) EXCEPT !.opened = TRUE]
<1>2. TypeOK /\ e \in Emails
  BY DEF Inv, TypeOK, Locals
<1>3. made \in Link /\ made.st = "new" /\ made.row = x /\ made.kind = "verify"
  BY <1>2 DEF NewLink, Link, Kinds
<1>4. new.st # "none" /\ ~new.gone /\ new.email = e /\ new.token["verify"] = 0
  BY DEF NoAccount, NoTokens, Kinds
<1>5. link' = Append(link, made) /\ account' = [account EXCEPT ![x] = new]
  BY <1>1
<1> HIDE DEF new, made
<1>6. Adds(x, "verify")
  BY <1>1, <1>2, <1>3, <1>5, Adding DEF Kinds
<1>7. Founds(x, e, 0)
  BY <1>1, <1>2, <1>4, <1>5 DEF TypeOK, Founds
<1>8. Return(r) /\ pc[r] = "join" /\ UNCHANGED <<last, overlap, failed, moved>>
  BY DEF AcceptCreate, At, history
<1> QED  BY <1>2, <1>6, <1>7, <1>8, Returning

\* The row keeps all that the step does not speak of.
SameRow(x) ==
    /\ account'[x].st # "none" /\ account'[x].gone = account[x].gone
    /\ \A y \in Rows \ {x} : account'[y] = account[y]

Token(x, kind, n) ==
    /\ account'[x].token[kind] = n
    /\ \A other \in Kinds \ {kind} : account'[x].token[other] = account[x].token[other]

LEMMA Asking ==
    ASSUME Inv, NEW r \in Requests, AskWrite(r)
    PROVE  /\ Stands(r) /\ UNCHANGED <<last, overlap, failed, moved>>
           /\ pc[r] = "write" /\ loc[r].kind # "change" /\ pc'[r] = "mail"
           /\ loc'[r].row = loc[r].row /\ loc'[r].email = loc[r].email
           /\ loc'[r].kind = loc[r].kind /\ loc'[r].k = Len(link') /\ loc[r].kind \in Kinds
           /\ \E x \in loc[r].row : /\ x \in Rows /\ Adds(x, loc[r].kind) /\ SameRow(x)
                                    /\ Token(x, loc[r].kind, Len(link'))
                                    /\ account'[x].email = account[x].email
                                    /\ account'[x].verified = account[x].verified
<1> DEFINE n == Len(link')
<1>1. PICK x \in loc[r].row, e \in loc[r].email :
         /\ Make(loc[r].kind, x, e)
         /\ account' = [account EXCEPT ![x].token[loc[r].kind] = n]
  BY DEF AskWrite
<1>2. /\ TypeOK /\ pc[r] = "write" /\ loc[r].kind # "change" /\ HasFound(loc[r])
      /\ loc[r] \in Locals
  BY DEF AskWrite, At, Inv, TypeOK, RequestsInv, Relies
<1>3. /\ x \in Rows /\ e \in Emails /\ loc[r].kind \in Kinds /\ account[x] \in Account
      /\ account[x].st # "none"
  BY <1>2 DEF Locals, HasFound, TypeOK
<1>4. Adds(x, loc[r].kind)
  BY <1>1, <1>2, <1>3, Making
<1> HIDE DEF n
<1> DEFINE old == account[x]
           kind == loc[r].kind
           new == [old EXCEPT !.token[kind] = n]
           l == [loc[r] EXCEPT !.k = n]
<1>5. account' = [account EXCEPT ![x] = new] /\ Move(r, "mail", l)
  BY <1>1 DEF AskWrite, n
<1>6. l.kind = loc[r].kind /\ l.k = n /\ l.email = loc[r].email /\ l.row = loc[r].row
  BY <1>2 DEF Locals
<1>7. new = [old EXCEPT !.token[kind] = n] /\ old \in Account /\ old.st # "none" /\ kind \in Kinds
  BY <1>3
<1>8. kind = loc[r].kind /\ old = account[x]
  OBVIOUS
<1> HIDE DEF new, old, kind, l
<1>9. /\ new.st = old.st /\ new.gone = old.gone /\ new.email = old.email
      /\ new.verified = old.verified /\ new.token[kind] = n
      /\ \A other \in Kinds \ {kind} : new.token[other] = old.token[other]
  BY <1>7 DEF Account
<1>10. account'[x] = new /\ \A y \in Rows \ {x} : account'[y] = account[y]
  BY <1>2, <1>3, <1>5 DEF TypeOK
<1>11. SameRow(x) /\ Token(x, loc[r].kind, n)
  BY <1>7, <1>8, <1>9, <1>10 DEF SameRow, Token
<1>12. account'[x].email = account[x].email /\ account'[x].verified = account[x].verified
  BY <1>8, <1>9, <1>10
<1>13. UNCHANGED <<last, overlap, failed, moved>>
  BY DEF AskWrite, history
<1> QED  BY <1>2, <1>3, <1>4, <1>5, <1>6, <1>11, <1>12, <1>13, Moving DEF n

\* Links keep what they say of their account, and are not made young or closed.
SameLinks ==
    /\ DOMAIN link' = DOMAIN link
    /\ \A j \in DOMAIN link : /\ link'[j].row = link[j].row /\ link'[j].kind = link[j].kind
                              /\ link[j].opened => link'[j].opened
                              /\ link[j].old => link'[j].old

LEMMA Mailing ==
    ASSUME Inv, NEW r \in Requests, SendMail(r)
    PROVE  /\ Stands(r) /\ UNCHANGED <<account, overlap, moved>> /\ SameLinks
           /\ pc[r] \in Posting /\ loc[r].k \in DOMAIN link
           /\ \A j \in DOMAIN link \ {loc[r].k} : link'[j] = link[j]
           /\ \/ /\ link'[loc[r].k].st = "mailed"
                 /\ last' = [last EXCEPT ![link[loc[r].k].row][link[loc[r].k].kind] = loc[r].k]
                 /\ failed' = failed
              \/ last' = last /\ failed' = failed \cup {link[loc[r].k].row}
           /\ \/ /\ pc[r] = "mail" /\ pc'[r] = "idle"
                 /\ loc'[r].row = {} /\ loc'[r].email = {}
              \/ pc[r] = "mail_first" /\ pc'[r] = "write" /\ loc'[r] = loc[r]
<1> DEFINE k == loc[r].k
<1>1. TypeOK /\ pc[r] \in Posting /\ k \in DOMAIN link /\ link[k] \in Link
  <2>1. TypeOK /\ Relies(pc[r], loc[r]) /\ (pc[r] = "mail" \/ pc[r] = "mail_first")
    BY DEF Inv, RequestsInv, SendMail, At
  <2>2. k \in DOMAIN link
    BY <2>1 DEF Relies, Names
  <2> QED  BY <2>1, <2>2, LinkFacts DEF Posting
<1>2. PICK fate \in {"mailed", "lost"} :
        /\ link' = [link EXCEPT ![k].st = fate]
        /\ \/ /\ fate = "mailed" /\ failed' = failed
              /\ last' = [last EXCEPT ![link[k].row][link[k].kind] = k]
           \/ last' = last /\ failed' = failed \cup {link[k].row}
  BY DEF SendMail
<1> DEFINE e == [link[k] EXCEPT !.st = fate]
<1>3. e \in Link /\ link' = [link EXCEPT ![k] = e]
  BY <1>1, <1>2, OpenedTyped
<1>4. e.row = link[k].row /\ e.kind = link[k].kind /\ e.opened = link[k].opened
      /\ e.old = link[k].old /\ e.st = fate
  BY <1>1 DEF Link
<1> HIDE DEF e
<1>5. DOMAIN link' = DOMAIN link /\ link'[k] = e /\ \A j \in DOMAIN link \ {k} : link'[j] = link[j]
  BY <1>1, <1>3, LinkWritten
<1>6. SameLinks
  BY <1>4, <1>5 DEF SameLinks
<1>7. \/ pc[r] = "mail" /\ Return(r)
      \/ pc[r] = "mail_first" /\ Move(r, "write", loc[r])
  BY <1>1 DEF SendMail, At, Posting
<1>8. /\ Stands(r)
      /\ \/ /\ pc[r] = "mail" /\ pc'[r] = "idle"
            /\ loc'[r].row = {} /\ loc'[r].email = {}
         \/ pc[r] = "mail_first" /\ pc'[r] = "write" /\ loc'[r] = loc[r]
  BY <1>1, <1>7, Moving, Returning
<1>9. UNCHANGED <<account, overlap, moved>>
  BY DEF SendMail
<1> QED  BY <1>1, <1>2, <1>4, <1>5, <1>6, <1>8, <1>9

LEMMA Changing ==
    ASSUME Inv, NEW r \in Requests, ChangeWrite(r)
    PROVE  /\ Stands(r) /\ UNCHANGED <<link, last, overlap, failed, moved>>
           /\ pc[r] = "write" /\ loc[r].kind = "change"
           /\ pc'[r] = "idle" /\ loc'[r].row = {} /\ loc'[r].email = {}
           /\ \E x \in loc[r].row : /\ x \in Rows /\ SameRow(x)
                                    /\ Token(x, "change", loc[r].k)
                                    /\ account'[x].email = account[x].email
                                    /\ account'[x].verified = account[x].verified
<1>1. TypeOK /\ pc[r] = "write" /\ loc[r].kind = "change" /\ Names(loc[r])
  BY DEF ChangeWrite, At, Inv, RequestsInv, Relies
<1>2. PICK x \in Rows :
         /\ loc[r].row = {x} /\ account[x].st # "none" /\ account[x] \in Account
  BY <1>1, NamedFacts
<1> DEFINE old == account[x]
           pend == loc[r].email
           n == loc[r].k
           new == [old EXCEPT !.pending = pend, !.token["change"] = n]
<1>3. account' = [account EXCEPT ![x] = new]
  BY <1>2 DEF ChangeWrite
<1>4. /\ new = [old EXCEPT !.pending = pend, !.token["change"] = n]
      /\ old \in Account /\ old.st # "none" /\ old = account[x] /\ n = loc[r].k
  BY <1>2
<1> HIDE DEF old, pend, n, new
<1>5. /\ new.st = old.st /\ new.gone = old.gone /\ new.email = old.email
      /\ new.verified = old.verified /\ new.token["change"] = n
      /\ \A other \in Kinds \ {"change"} : new.token[other] = old.token[other]
  BY <1>4 DEF Account, Kinds
<1>6. account'[x] = new /\ \A y \in Rows \ {x} : account'[y] = account[y]
  BY <1>1, <1>3 DEF TypeOK
<1>7. SameRow(x) /\ Token(x, "change", loc[r].k)
  BY <1>4, <1>5, <1>6 DEF SameRow, Token
<1>8. account'[x].email = account[x].email /\ account'[x].verified = account[x].verified
  BY <1>4, <1>5, <1>6
<1>9. Return(r) /\ UNCHANGED <<link, last, overlap, failed, moved>>
  BY DEF ChangeWrite, history
<1>10. Stands(r) /\ pc'[r] = "idle" /\ loc'[r].row = {} /\ loc'[r].email = {}
  BY <1>1, <1>9, Returning
<1> QED  BY <1>1, <1>2, <1>7, <1>8, <1>9, <1>10

\* The row that a link names, as an opening rewrites it.
LEMMA Opened ==
    ASSUME Inv, NEW r \in Requests, NEW x \in Rows, NEW new, loc[r].row = {x},
           account[x].st # "none", new.st # "none", new.gone = account[x].gone,
           new.token[loc[r].kind] = 0,
           \A other \in Kinds \ {loc[r].kind} : new.token[other] = account[x].token[other],
           account' = [account EXCEPT ![x] = new]
    PROVE  SameRow(x) /\ Token(x, loc[r].kind, 0) /\ account'[x] = new
<1>1. account'[x] = new /\ \A y \in Rows \ {x} : account'[y] = account[y]
  BY DEF Inv, TypeOK
<1> QED  BY <1>1 DEF SameRow, Token

LEMMA OpeningAll ==
    ASSUME Inv, NEW r \in Requests, VerifyWrite(r) \/ ResetWrite(r) \/ MoveWrite(r)
    PROVE  /\ Stands(r) /\ UNCHANGED <<last, overlap, failed>> /\ SameLinks
           /\ pc[r] = "open" /\ loc[r].k \in DOMAIN link /\ link'[loc[r].k].opened
           /\ \A j \in DOMAIN link : link'[j].st = link[j].st
           /\ pc'[r] = "idle" /\ loc'[r].row = {} /\ loc'[r].email = {}
           /\ moved \subseteq moved' /\ loc[r].kind \in Kinds
           /\ \E x \in loc[r].row :
                /\ x \in Rows /\ SameRow(x) /\ Token(x, loc[r].kind, 0)
                /\ account'[x].email = account[x].email \/ x \in moved'
                /\ account[x].verified \/ loc[r].kind = "verify" => account'[x].verified
<1>1. TypeOK /\ pc[r] = "open" /\ Names(loc[r]) /\ loc[r] \in Locals /\ loc[r].kind \in Kinds
  BY DEF VerifyWrite, ResetWrite, MoveWrite, At, Inv, RequestsInv, Relies, TypeOK, Locals
<1>2. PICK x \in Rows :
         /\ loc[r].row = {x} /\ account[x].st # "none" /\ account[x] \in Account
         /\ loc[r].k \in DOMAIN link /\ link[loc[r].k] \in Link
  BY <1>1, NamedFacts
<1>3. /\ SameLinks /\ link'[loc[r].k].opened
      /\ \A j \in DOMAIN link : link'[j].st = link[j].st
  <2> DEFINE k == loc[r].k
             e == [link[k] EXCEPT !.opened = TRUE]
  <2>1. e \in Link /\ link' = [link EXCEPT ![k] = e]
    BY <1>2, OpenedTyped DEF VerifyWrite, ResetWrite, MoveWrite
  <2>2. e.row = link[k].row /\ e.kind = link[k].kind /\ e.opened
        /\ e.old = link[k].old /\ e.st = link[k].st
    BY <1>2 DEF Link
  <2> HIDE DEF e
  <2>3. DOMAIN link' = DOMAIN link /\ link'[k] = e
        /\ \A j \in DOMAIN link \ {k} : link'[j] = link[j]
    BY <1>1, <1>2, <2>1, LinkWritten
  <2> QED  BY <2>2, <2>3 DEF SameLinks
<1>4. Return(r) /\ UNCHANGED <<last, overlap, failed>> /\ moved \subseteq moved'
  BY DEF VerifyWrite, ResetWrite, MoveWrite, history
<1>9. Stands(r) /\ pc'[r] = "idle" /\ loc'[r].row = {} /\ loc'[r].email = {}
  BY <1>1, <1>4, Returning
<1>10. SUFFICES /\ SameRow(x) /\ Token(x, loc[r].kind, 0)
                /\ account'[x].email = account[x].email \/ x \in moved'
                /\ account[x].verified \/ loc[r].kind = "verify" => account'[x].verified
  BY <1>1, <1>2, <1>3, <1>4, <1>9
<1> DEFINE old == account[x]
<1>5. old \in Account /\ old.st # "none" /\ old = account[x]
  BY <1>2
<1>6. CASE VerifyWrite(r)
  <2> DEFINE new == [old EXCEPT !.verified = TRUE, !.st = "active", !.token["verify"] = 0]
  <2>1. account' = [account EXCEPT ![x] = new] /\ loc[r].kind = "verify"
    BY <1>2, <1>6 DEF VerifyWrite
  <2>2. new = [old EXCEPT !.verified = TRUE, !.st = "active", !.token["verify"] = 0]
    OBVIOUS
  <2> HIDE DEF new, old
  <2>3. /\ new.st # "none" /\ new.gone = old.gone /\ new.token["verify"] = 0
        /\ new.email = old.email /\ new.verified
        /\ \A other \in Kinds \ {"verify"} : new.token[other] = old.token[other]
    BY <1>5, <2>2 DEF Account, Kinds
  <2>4. /\ new.gone = account[x].gone /\ new.token[loc[r].kind] = 0
        /\ \A other \in Kinds \ {loc[r].kind} : new.token[other] = account[x].token[other]
    BY <1>5, <2>1, <2>3
  <2>5. SameRow(x) /\ Token(x, loc[r].kind, 0) /\ account'[x] = new
    BY <1>2, <2>1, <2>3, <2>4, Opened
  <2> QED  BY <1>5, <2>3, <2>5
<1>7. CASE ResetWrite(r)
  <2> DEFINE new == [old EXCEPT !.token["reset"] = 0]
  <2>1. account' = [account EXCEPT ![x] = new] /\ loc[r].kind = "reset"
    BY <1>2, <1>7 DEF ResetWrite
  <2>2. new = [old EXCEPT !.token["reset"] = 0]
    OBVIOUS
  <2> HIDE DEF new, old
  <2>3. /\ new.st # "none" /\ new.gone = old.gone /\ new.token["reset"] = 0
        /\ new.email = old.email /\ new.verified = old.verified
        /\ \A other \in Kinds \ {"reset"} : new.token[other] = old.token[other]
    BY <1>5, <2>2 DEF Account, Kinds
  <2>4. /\ new.gone = account[x].gone /\ new.token[loc[r].kind] = 0
        /\ \A other \in Kinds \ {loc[r].kind} : new.token[other] = account[x].token[other]
    BY <1>5, <2>1, <2>3
  <2>5. SameRow(x) /\ Token(x, loc[r].kind, 0) /\ account'[x] = new
    BY <1>2, <2>1, <2>3, <2>4, Opened
  <2> QED  BY <1>5, <2>1, <2>3, <2>5
<1>8. CASE MoveWrite(r)
  <2>1. PICK e \in loc[r].email :
           /\ account' = [account EXCEPT ![x].email = e, ![x].pending = {},
                                         ![x].token["change"] = 0]
           /\ moved' = moved \cup {x} /\ loc[r].kind = "change"
    BY <1>2, <1>8 DEF MoveWrite
  <2> DEFINE new == [old EXCEPT !.email = e, !.pending = {}, !.token["change"] = 0]
  <2>2. account' = [account EXCEPT ![x] = new]
    BY <2>1 DEF Inv, TypeOK
  <2>3. new = [old EXCEPT !.email = e, !.pending = {}, !.token["change"] = 0]
    OBVIOUS
  <2> HIDE DEF new, old
  <2>4. /\ new.st # "none" /\ new.gone = old.gone /\ new.token["change"] = 0
        /\ new.verified = old.verified
        /\ \A other \in Kinds \ {"change"} : new.token[other] = old.token[other]
    BY <1>5, <2>3 DEF Account, Kinds
  <2>5. /\ new.gone = account[x].gone /\ new.token[loc[r].kind] = 0
        /\ \A other \in Kinds \ {loc[r].kind} : new.token[other] = account[x].token[other]
    BY <1>5, <2>1, <2>4
  <2>6. SameRow(x) /\ Token(x, loc[r].kind, 0) /\ account'[x] = new
    BY <1>2, <2>2, <2>4, <2>5, Opened
  <2> QED  BY <1>5, <2>1, <2>4, <2>6
<1> QED  BY <1>6, <1>7, <1>8

LEMMA Expiring ==
    ASSUME Inv, NEW k \in DOMAIN link, Expire(k)
    PROVE  /\ UNCHANGED <<account, last, pc, loc, overlap, failed, moved>> /\ SameLinks
           /\ \A j \in DOMAIN link : link'[j].st = link[j].st
<1> DEFINE e == [link[k] EXCEPT !.old = TRUE]
<1>1. TypeOK /\ link[k] \in Link
  BY LinkFacts DEF Inv
<1>2. e \in Link /\ link' = [link EXCEPT ![k] = e]
  BY <1>1, OpenedTyped DEF Expire
<1>3. e.row = link[k].row /\ e.kind = link[k].kind /\ e.opened = link[k].opened
      /\ e.old /\ e.st = link[k].st
  BY <1>1 DEF Link
<1> HIDE DEF e
<1>4. DOMAIN link' = DOMAIN link /\ link'[k] = e
      /\ \A j \in DOMAIN link \ {k} : link'[j] = link[j]
  BY <1>1, <1>2, LinkWritten
<1> QED  BY <1>3, <1>4 DEF SameLinks, Expire, history

LEMMA Aborting ==
    ASSUME Inv, NEW r \in Requests, Abort(r)
    PROVE  /\ Stands(r) /\ UNCHANGED <<account, link, last, overlap, moved>>
           /\ failed' = failed \cup loc[r].row
           /\ pc'[r] = "idle" /\ loc'[r].row = {} /\ loc'[r].email = {}
BY Returning DEF Abort, Inv, tables

----------------------------------------------------------------------------
(* Who shares what, and which link waits for its mail.                     *)

LEMMA ApartKept ==
    ASSUME Apart, NEW r \in Requests, Stands(r), Overlaps(r)
    PROVE  Apart'
<1> SUFFICES ASSUME NEW p \in Requests, NEW q \in Requests, p # q
             PROVE  /\ loc'[p].row \cap loc'[q].row \subseteq overlap'
                    /\ loc'[p].email \cap loc'[q].email \subseteq overlap'
  BY DEF Apart
<1>1. CASE p # r /\ q # r
  BY <1>1 DEF Apart, Stands, Overlaps
<1>2. CASE p = r
  BY <1>2 DEF Stands, Overlaps
<1>3. CASE q = r
  BY <1>3 DEF Stands, Overlaps
<1> QED  BY <1>1, <1>2, <1>3

\* A request that forgets, or goes on, shares no more than before.
LEMMA Sharing ==
    ASSUME Apart, NEW r \in Requests, overlap \subseteq overlap',
           loc'[r].row \subseteq loc[r].row, loc'[r].email \subseteq loc[r].email
    PROVE  Overlaps(r)
BY DEF Apart, Overlaps

LinksKeep ==
    /\ \A x \in Rows : account[x].st # "none" => account'[x].st # "none"
    /\ \A k \in DOMAIN link : /\ k \in DOMAIN link'
                              /\ link'[k].row = link[k].row /\ link'[k].kind = link[k].kind

LEMMA PlacedKept ==
    ASSUME Inv, NEW q \in Requests, Placed(q), LinksKeep, pc'[q] = pc[q], loc'[q] = loc[q],
           pc[q] \in Posting => link'[loc[q].k].st = "new"
    PROVE  Placed(q)'
<1>1. loc[q].row \subseteq Rows
  BY DEF Inv, TypeOK, Locals
<1> QED  BY <1>1 DEF Placed, LinksKeep

\* One request moves, and the links of the others wait as they did.
LEMMA PostMoves ==
    ASSUME Inv, PostInv, NEW r \in Requests, Stands(r), LinksKeep, Placed(r)',
           \A q \in Requests \ {r} : pc[q] \in Posting =>
             /\ link'[loc[q].k].st = "new"
             /\ pc'[r] \in Posting => loc'[r].k # loc[q].k
    PROVE  PostInv'
<1>1. \A q \in Requests \ {r} : Placed(q)'
  BY PlacedKept DEF PostInv, Stands
<1>2. ASSUME NEW p \in Requests, NEW q \in Requests,
             pc'[p] \in Posting, pc'[q] \in Posting, loc'[p].k = loc'[q].k
      PROVE  p = q
  BY <1>2 DEF PostInv, Stands
<1> QED  BY <1>1, <1>2 DEF PostInv

LEMMA PostStays ==
    ASSUME Inv, PostInv, UNCHANGED <<pc, loc>>, LinksKeep,
           \A j \in DOMAIN link : link'[j].st = link[j].st
    PROVE  PostInv'
<1>1. \A q \in Requests : Placed(q)'
  <2> SUFFICES ASSUME NEW q \in Requests PROVE Placed(q)'
    OBVIOUS
  <2>1. Placed(q)
    BY DEF PostInv
  <2>2. pc[q] \in Posting => link'[loc[q].k].st = "new"
    BY <2>1 DEF Placed
  <2> QED  BY <2>1, <2>2, PlacedKept
<1> QED  BY <1>1 DEF PostInv

LEMMA LastKept ==
    ASSUME LastInv, UNCHANGED last, LinksKeep,
           \A j \in DOMAIN link : link[j].st = "mailed" => link'[j].st = "mailed"
    PROVE  LastInv'
BY DEF LastInv, LinksKeep

LEMMA AddsKeep ==
    ASSUME NEW x, NEW kind, Adds(x, kind),
           \A y \in Rows : account[y].st # "none" => account'[y].st # "none"
    PROVE  /\ LinksKeep
           /\ \A j \in DOMAIN link : link'[j].st = link[j].st
BY DEF Adds, LinksKeep

LEMMA OrderByReading ==
    ASSUME Inv, OrderInv, NEW r \in Requests,
           \/ \E e \in Emails : RegisterRead(r, e)
           \/ \E e \in Emails, x \in Rows : AcceptRead(r, x, e)
           \/ \E e \in Emails, kind \in Kinds : AskRead(r, e, kind)
           \/ \E k \in DOMAIN link : OpenRead(r, k)
    PROVE  OrderInv'
<1>1. /\ Stands(r) /\ Overlaps(r) /\ UNCHANGED <<account, link, last>>
      /\ pc'[r] \notin Posting /\ (pc'[r] = "create" => loc'[r].kind = "verify")
      /\ \A x \in loc'[r].row : account[x].st # "none"
      /\ \A x, y \in loc'[r].row : x = y
  BY Reading DEF Posting
<1>2. LinksKeep /\ Placed(r)'
  BY <1>1 DEF LinksKeep, Placed
<1>3. \A q \in Requests : pc[q] \in Posting => link'[loc[q].k].st = "new"
  BY <1>1 DEF OrderInv, PostInv, Placed
<1>4. PostInv'
  BY <1>1, <1>2, <1>3, PostMoves DEF OrderInv
<1>5. LastInv'
  BY <1>1, <1>2, LastKept DEF OrderInv
<1> QED  BY <1>1, <1>4, <1>5, ApartKept DEF OrderInv

\* The link just made is that of no other request.
LEMMA PostAdds ==
    ASSUME Inv, OrderInv, NEW r \in Requests, Stands(r), Overlaps(r), NEW x, NEW kind,
           Adds(x, kind), UNCHANGED last,
           \A y \in Rows : account[y].st # "none" => account'[y].st # "none",
           account'[x].st # "none", pc'[r] # "create",
           \/ pc'[r] \notin Posting /\ loc'[r].row = {}
           \/ loc'[r].row = {x} /\ loc'[r].kind = kind /\ loc'[r].k = Len(link')
    PROVE  OrderInv'
<1>1. LinksKeep /\ \A j \in DOMAIN link : link'[j].st = link[j].st
  BY AddsKeep
<1>2. Placed(r)'
  BY DEF Placed, Adds
<1>3. \A q \in Requests : pc[q] \in Posting =>
         /\ loc[q].k \in DOMAIN link
         /\ link'[loc[q].k].st = "new"
  BY <1>1 DEF OrderInv, PostInv, Placed
<1>4. \A q \in Requests : pc[q] \in Posting => loc[q].k # Len(link')
  BY <1>3 DEF Adds
<1>5. PostInv'
  BY <1>1, <1>2, <1>3, <1>4, PostMoves DEF OrderInv
<1>6. LastInv'
  BY <1>1, LastKept DEF OrderInv
<1> QED  BY <1>5, <1>6, ApartKept DEF OrderInv

LEMMA OrderByMaking ==
    ASSUME Inv, OrderInv, NEW r \in Requests,
           \/ \E x \in Rows, e \in Emails : ChangeRead(r, x, e)
           \/ RegisterCreate(r) \/ AcceptCreate(r) \/ AskWrite(r)
    PROVE  OrderInv'
<1>1. ASSUME NEW x \in Rows, NEW e \in Emails, ChangeRead(r, x, e)
      PROVE  OrderInv'
  <2>1. /\ Stands(r) /\ Overlaps(r) /\ UNCHANGED <<account, last>>
        /\ Adds(x, "change") /\ account[x].st # "none"
        /\ pc'[r] = "mail_first" /\ loc'[r].row = {x} /\ loc'[r].kind = "change"
        /\ loc'[r].k = Len(link')
    BY <1>1, ChangeReading
  <2> QED  BY <2>1, PostAdds
<1>2. CASE RegisterCreate(r)
  <2>1. /\ Stands(r) /\ UNCHANGED <<last, overlap>>
        /\ pc[r] = "create" /\ pc'[r] = "mail"
        /\ loc'[r].kind = loc[r].kind /\ loc'[r].k = Len(link')
        /\ loc'[r].email = loc[r].email
    BY <1>2, Registering
  <2>2. PICK x \in Rows, e \in loc[r].email :
           Founds(x, e, Len(link')) /\ Adds(x, "verify") /\ loc'[r].row = {x}
    BY <1>2, Registering
  <2>3. \A q \in Requests : x \notin loc[q].row
    BY <2>2 DEF OrderInv, PostInv, Placed, Founds
  <2>4. Overlaps(r)
    BY <2>1, <2>2, <2>3 DEF OrderInv, Apart, Overlaps
  <2>5. /\ \A y \in Rows : account[y].st # "none" => account'[y].st # "none"
        /\ account'[x].st # "none"
    BY <2>2 DEF Founds
  <2>6. loc'[r].kind = "verify"
    BY <2>1 DEF OrderInv, PostInv, Placed
  <2> QED  BY <2>1, <2>2, <2>4, <2>5, <2>6, PostAdds
<1>3. CASE AcceptCreate(r)
  <2>1. /\ Stands(r) /\ UNCHANGED <<last, overlap>>
        /\ pc'[r] = "idle" /\ loc'[r].row = {} /\ loc'[r].email = {}
    BY <1>3, Accepting
  <2>2. PICK x \in Rows, e \in loc[r].email : Founds(x, e, 0) /\ Adds(x, "verify")
    BY <1>3, Accepting
  <2>3. Overlaps(r)
    BY <2>1, Sharing DEF OrderInv
  <2>4. /\ \A y \in Rows : account[y].st # "none" => account'[y].st # "none"
        /\ account'[x].st # "none" /\ pc'[r] \notin Posting /\ pc'[r] # "create"
    BY <2>1, <2>2 DEF Founds, Posting
  <2> QED  BY <2>1, <2>2, <2>3, <2>4, PostAdds
<1>4. CASE AskWrite(r)
  <2>1. /\ Stands(r) /\ UNCHANGED <<last, overlap>> /\ pc'[r] = "mail"
        /\ loc'[r].row = loc[r].row /\ loc'[r].email = loc[r].email
        /\ loc'[r].kind = loc[r].kind /\ loc'[r].k = Len(link')
    BY <1>4, Asking
  <2>2. PICK x \in loc[r].row : x \in Rows /\ Adds(x, loc[r].kind) /\ SameRow(x)
    BY <1>4, Asking
  <2>3. Overlaps(r)
    BY <2>1, Sharing DEF OrderInv
  <2>4. loc'[r].row = {x}
    BY <2>1, <2>2 DEF OrderInv, PostInv, Placed
  <2>5. /\ \A y \in Rows : account[y].st # "none" => account'[y].st # "none"
        /\ account'[x].st # "none"
    BY <2>2 DEF SameRow
  <2> QED  BY <2>1, <2>2, <2>3, <2>4, <2>5, PostAdds
<1> QED  BY <1>1, <1>2, <1>3, <1>4

\* A link that is mailed waits no more.
LEMMA OrderByMailing ==
    ASSUME Inv, OrderInv, NEW r \in Requests, SendMail(r)
    PROVE  OrderInv'
<1> DEFINE k == loc[r].k
<1>1. /\ Stands(r) /\ UNCHANGED <<account, overlap>> /\ SameLinks
      /\ pc[r] \in Posting /\ k \in DOMAIN link
      /\ \A j \in DOMAIN link \ {k} : link'[j] = link[j]
  BY Mailing
<1>2. \/ pc[r] = "mail" /\ pc'[r] = "idle" /\ loc'[r].row = {} /\ loc'[r].email = {}
      \/ pc[r] = "mail_first" /\ pc'[r] = "write" /\ loc'[r] = loc[r]
  BY Mailing
<1>3. link[k].st = "new" /\ Placed(r)
  BY <1>1 DEF OrderInv, PostInv, Placed
<1>4. LinksKeep
  BY <1>1 DEF LinksKeep, SameLinks
<1>5. Placed(r)'
  BY <1>1, <1>2, <1>3 DEF Placed, Posting
<1>6. \A q \in Requests \ {r} : pc[q] \in Posting => link'[loc[q].k].st = "new"
  BY <1>1 DEF OrderInv, PostInv, Placed
<1>7. PostInv'
  BY <1>1, <1>2, <1>4, <1>5, <1>6, PostMoves DEF OrderInv, Posting
<1>8. LastInv'
  <2>1. CASE last' = last
    BY <1>1, <1>3, <1>4, <2>1, LastKept DEF OrderInv
  <2>2. CASE /\ link'[k].st = "mailed"
             /\ last' = [last EXCEPT ![link[k].row][link[k].kind] = k]
    <3>1. link[k].row \in Rows /\ link[k].kind \in Kinds
      BY <1>1, LinkFacts DEF Inv, Link
    <3>2. \A x \in Rows, kind \in Kinds :
             IF x = link[k].row /\ kind = link[k].kind THEN last'[x][kind] = k
                                                       ELSE last'[x][kind] = last[x][kind]
      BY <2>2, <3>1 DEF Inv, TypeOK
    <3> SUFFICES ASSUME NEW x \in Rows, NEW kind \in Kinds, last'[x][kind] # 0
                 PROVE  /\ last'[x][kind] \in DOMAIN link' /\ link'[last'[x][kind]].st = "mailed"
                        /\ link'[last'[x][kind]].row = x /\ link'[last'[x][kind]].kind = kind
      BY DEF LastInv
    <3>3. CASE x = link[k].row /\ kind = link[k].kind
      BY <1>1, <2>2, <3>2, <3>3 DEF SameLinks
    <3>4. CASE ~(x = link[k].row /\ kind = link[k].kind)
      <4> DEFINE j == last[x][kind]
      <4>1. last'[x][kind] = j
        BY <3>2, <3>4
      <4>2. j \in DOMAIN link /\ link[j].st = "mailed" /\ link[j].row = x /\ link[j].kind = kind
        BY <4>1 DEF OrderInv, LastInv
      <4>3. j # k
        BY <1>3, <4>2
      <4> QED  BY <1>1, <4>1, <4>2, <4>3 DEF SameLinks
    <3> QED  BY <3>3, <3>4
  <2> QED  BY <2>1, <2>2, Mailing
<1>9. Overlaps(r)
  BY <1>1, <1>2, Sharing DEF OrderInv
<1> QED  BY <1>1, <1>7, <1>8, <1>9, ApartKept DEF OrderInv

LEMMA OrderByReturning ==
    ASSUME Inv, OrderInv, NEW r \in Requests,
           \/ ChangeWrite(r) \/ VerifyWrite(r) \/ ResetWrite(r) \/ MoveWrite(r) \/ Abort(r)
    PROVE  OrderInv'
<1>1. /\ Stands(r) /\ UNCHANGED <<last, overlap>> /\ LinksKeep
      /\ pc'[r] = "idle" /\ loc'[r].row = {} /\ loc'[r].email = {}
      /\ \A j \in DOMAIN link : link'[j].st = link[j].st
  <2>1. CASE ChangeWrite(r)
    BY <2>1, Changing DEF LinksKeep, SameRow
  <2>2. CASE VerifyWrite(r) \/ ResetWrite(r) \/ MoveWrite(r)
    BY <2>2, OpeningAll DEF LinksKeep, SameRow, SameLinks
  <2>3. CASE Abort(r)
    BY <2>3, Aborting DEF LinksKeep
  <2> QED  BY <2>1, <2>2, <2>3
<1>2. Placed(r)' /\ pc'[r] \notin Posting
  BY <1>1 DEF Placed, Posting
<1>3. \A q \in Requests : pc[q] \in Posting => link'[loc[q].k].st = "new"
  BY <1>1 DEF OrderInv, PostInv, Placed
<1>4. PostInv'
  BY <1>1, <1>2, <1>3, PostMoves DEF OrderInv
<1>5. LastInv'
  BY <1>1, LastKept DEF OrderInv
<1>6. Overlaps(r)
  BY <1>1, Sharing DEF OrderInv
<1> QED  BY <1>1, <1>4, <1>5, <1>6, ApartKept DEF OrderInv

\* Steps of no request.
LEMMA OrderByOthers ==
    ASSUME Inv, OrderInv,
           \/ \E x \in Rows : End(x) \/ Administers(x)
           \/ \E k \in DOMAIN link : Expire(k)
           \/ UNCHANGED vars
    PROVE  OrderInv'
<1>1. /\ UNCHANGED <<last, pc, loc>> /\ overlap \subseteq overlap' /\ LinksKeep
      /\ \A j \in DOMAIN link : link'[j].st = link[j].st
  <2>1. ASSUME NEW x \in Rows, End(x)
        PROVE  /\ UNCHANGED <<last, link, pc, loc>> /\ overlap \subseteq overlap' /\ LinksKeep
    BY <2>1, Ending DEF LinksKeep
  <2>4. ASSUME NEW x \in Rows, Administers(x)
        PROVE  /\ UNCHANGED <<last, link, pc, loc>> /\ overlap \subseteq overlap' /\ LinksKeep
    BY <2>4, Administering DEF LinksKeep
  <2>2. ASSUME NEW k \in DOMAIN link, Expire(k)
        PROVE  /\ UNCHANGED <<last, pc, loc, overlap>> /\ LinksKeep
               /\ \A j \in DOMAIN link : link'[j].st = link[j].st
    BY <2>2, Expiring DEF LinksKeep, SameLinks
  <2>3. CASE UNCHANGED vars
    BY <2>3 DEF vars, LinksKeep
  <2> QED  BY <2>1, <2>2, <2>3, <2>4
<1>2. PostInv' /\ LastInv'
  BY <1>1, PostStays, LastKept DEF OrderInv
<1>3. Apart'
  BY <1>1 DEF OrderInv, Apart
<1> QED  BY <1>2, <1>3 DEF OrderInv

LEMMA NextOrder == Inv /\ OrderInv /\ [Next]_vars => OrderInv'
<1> SUFFICES ASSUME Inv, OrderInv, [Next]_vars PROVE OrderInv'
  OBVIOUS
<1>1. CASE UNCHANGED vars \/ (\E x \in Rows : End(x) \/ Administers(x)) \/ (\E k \in DOMAIN link : Expire(k))
  BY <1>1, OrderByOthers
<1>2. ASSUME NEW r \in Requests, NEW e \in Emails,
             \/ RegisterRead(r, e)
             \/ \E x \in Rows : AcceptRead(r, x, e) \/ ChangeRead(r, x, e)
             \/ \E kind \in Kinds : AskRead(r, e, kind)
      PROVE  OrderInv'
  BY <1>2, OrderByReading, OrderByMaking
<1>3. ASSUME NEW r \in Requests, NEW k \in DOMAIN link, OpenRead(r, k)
      PROVE  OrderInv'
  BY <1>3, OrderByReading
<1>4. ASSUME NEW r \in Requests,
             \/ RegisterCreate(r) \/ AcceptCreate(r) \/ AskWrite(r) \/ SendMail(r)
             \/ ChangeWrite(r) \/ VerifyWrite(r) \/ ResetWrite(r) \/ MoveWrite(r) \/ Abort(r)
      PROVE  OrderInv'
  BY <1>4, OrderByMaking, OrderByMailing, OrderByReturning
<1> QED  BY <1>1, <1>2, <1>3, <1>4 DEF Next, Administers

LEMMA InitOrder == Init => OrderInv
<1> SUFFICES ASSUME Init PROVE OrderInv
  OBVIOUS
<1>1. \A r \in Requests : pc[r] = "idle" /\ loc[r].row = {} /\ loc[r].email = {}
  BY DEF Init, NoLocals
<1>2. \A x \in Rows, kind \in Kinds : last[x][kind] = 0
  BY DEF Init, NoTokens
<1> QED  BY <1>1, <1>2 DEF OrderInv, Apart, PostInv, Placed, Posting, LastInv

LEMMA AlwaysOrder == Spec => []OrderInv
BY InitOrder, NextOrder, Invariance, PTL DEF Spec

----------------------------------------------------------------------------
(* One account for each address.                                           *)

\* What a step that makes no account does to addresses.
Quiet ==
    /\ overlap \subseteq overlap' /\ moved \subseteq moved'
    /\ \A x \in Rows : account'[x].st # "none" /\ ~account'[x].gone =>
         Live(x) /\ (account'[x].email = account[x].email \/ x \in moved')

LEMMA QuietFree ==
    ASSUME NEW q \in Requests, Free(q), Quiet, pc'[q] = pc[q], loc'[q] = loc[q]
    PROVE  Free(q)'
BY DEF Free, Quiet, Found, Live

LEMMA QuietOnes ==
    ASSUME OneAccountEach, Quiet
    PROVE  OneAccountEach'
<1> SUFFICES ASSUME NEW x \in Rows, NEW y \in Rows, x # y, Live(x)', Live(y)',
                    account'[x].email = account'[y].email
             PROVE  x \in moved' \/ y \in moved' \/ account'[x].email \in overlap'
  BY DEF OneAccountEach
<1>1. /\ Live(x) /\ (account'[x].email = account[x].email \/ x \in moved')
      /\ Live(y) /\ (account'[y].email = account[y].email \/ y \in moved')
  BY DEF Quiet, Live
<1>2. CASE account'[x].email = account[x].email /\ account'[y].email = account[y].email
  <2>1. x \in moved \/ y \in moved \/ account[x].email \in overlap
    BY <1>1, <1>2 DEF OneAccountEach
  <2> QED  BY <1>2, <2>1 DEF Quiet
<1> QED  BY <1>1, <1>2

\* One request moves, and no account is made.
LEMMA QuietMove ==
    ASSUME AddressFree, OneAccountEach, Quiet, NEW r \in Requests, Stands(r), Free(r)'
    PROVE  AddressFree' /\ OneAccountEach'
<1>1. \A q \in Requests : Free(q)
  BY DEF AddressFree
<1>2. \A q \in Requests : Free(q)'
  BY <1>1, QuietFree DEF Stands
<1> QED  BY <1>2, QuietOnes DEF AddressFree

\* An account is made for an address by a request that found none.
LEMMA FoundsOne ==
    ASSUME OrderInv, AddressFree, OneAccountEach, NEW r \in Requests, Stands(r),
           pc[r] \in {"create", "join"}, pc'[r] \notin {"create", "join"},
           UNCHANGED <<overlap, moved>>,
           NEW x \in Rows, NEW e \in loc[r].email, NEW n, Founds(x, e, n)
    PROVE  AddressFree' /\ OneAccountEach'
<1>1. \A y \in Rows \ {x} : account'[y] = account[y]
  BY DEF Founds
<1>2. \A y \in Rows \ {x} : Live(y) /\ account[y].email = e => y \in moved \/ e \in overlap
  BY DEF AddressFree, Free, Found
<1>3. OneAccountEach'
  <2> SUFFICES ASSUME NEW y \in Rows, NEW z \in Rows, y # z, Live(y)', Live(z)',
                      account'[y].email = account'[z].email
               PROVE  y \in moved \/ z \in moved \/ account'[y].email \in overlap
    BY DEF OneAccountEach
  <2>1. CASE y = x
    BY <1>1, <1>2, <2>1 DEF Founds, Live
  <2>2. CASE z = x
    BY <1>1, <1>2, <2>2 DEF Founds, Live
  <2>3. CASE y # x /\ z # x
    BY <1>1, <2>3 DEF OneAccountEach, Live
  <2> QED  BY <2>1, <2>2, <2>3
<1>4. AddressFree'
  <2> SUFFICES ASSUME NEW q \in Requests, pc'[q] \in {"create", "join"},
                      NEW f \in loc'[q].email \ overlap', NEW y \in Found(f)'
               PROVE  y \in moved'
    BY DEF AddressFree, Free
  <2>1. q # r /\ pc[q] \in {"create", "join"} /\ f \in loc[q].email \ overlap
    BY DEF Stands
  <2>2. f # e
    BY <2>1 DEF OrderInv, Apart
  <2>3. y \in Rows /\ y # x /\ y \in Found(f)
    BY <1>1, <2>2 DEF Found, Live, Founds
  <2> QED  BY <2>1, <2>3 DEF AddressFree, Free
<1> QED  BY <1>3, <1>4

\* A row that is rewritten is as alive as it was.
LEMMA RowQuiet ==
    ASSUME Inv, OrderInv, NEW r \in Requests, NEW x \in loc[r].row, x \in Rows, SameRow(x),
           account'[x].email = account[x].email \/ x \in moved',
           overlap \subseteq overlap', moved \subseteq moved'
    PROVE  Quiet
<1>1. account[x].st # "none"
  BY DEF OrderInv, PostInv, Placed
<1>2. ASSUME NEW y \in Rows, account'[y].st # "none", ~account'[y].gone
      PROVE  Live(y) /\ (account'[y].email = account[y].email \/ y \in moved')
  <2>1. CASE y = x
    BY <1>1, <1>2, <2>1 DEF SameRow, Live
  <2>2. CASE y # x
    BY <1>2, <2>2 DEF SameRow, Live
  <2> QED  BY <2>1, <2>2
<1> QED  BY <1>2 DEF Quiet

LEMMA OnesByRequests ==
    ASSUME Inv, OrderInv, AddressFree, OneAccountEach, NEW r \in Requests,
           \/ \E e \in Emails : RegisterRead(r, e)
           \/ \E e \in Emails, x \in Rows : AcceptRead(r, x, e) \/ ChangeRead(r, x, e)
           \/ \E e \in Emails, kind \in Kinds : AskRead(r, e, kind)
           \/ \E k \in DOMAIN link : OpenRead(r, k)
           \/ AskWrite(r) \/ SendMail(r) \/ ChangeWrite(r)
           \/ VerifyWrite(r) \/ ResetWrite(r) \/ MoveWrite(r) \/ Abort(r)
    PROVE  AddressFree' /\ OneAccountEach'
<1>1. CASE \/ \E e \in Emails : RegisterRead(r, e)
           \/ \E e \in Emails, x \in Rows : AcceptRead(r, x, e)
           \/ \E e \in Emails, kind \in Kinds : AskRead(r, e, kind)
           \/ \E k \in DOMAIN link : OpenRead(r, k)
  <2>1. Stands(r) /\ Overlaps(r) /\ UNCHANGED <<account, moved>>
    BY <1>1, Reading
  <2>2. pc'[r] \in {"create", "join"} => \A e \in loc'[r].email : Found(e) = {}
    BY <1>1, Reading
  <2>3. Free(r)'
    BY <2>1, <2>2 DEF Free, Found, Live
  <2>4. Quiet
    BY <2>1 DEF Quiet, Overlaps, Live
  <2> QED  BY <2>1, <2>3, <2>4, QuietMove
<1>2. ASSUME NEW x \in Rows, NEW e \in Emails, ChangeRead(r, x, e)
      PROVE  AddressFree' /\ OneAccountEach'
  <2>1. Stands(r) /\ Overlaps(r) /\ UNCHANGED <<account, moved>> /\ pc'[r] = "mail_first"
    BY <1>2, ChangeReading
  <2>2. Free(r)' /\ Quiet
    BY <2>1 DEF Free, Quiet, Overlaps, Live
  <2> QED  BY <2>1, <2>2, QuietMove
<1>3. CASE AskWrite(r)
  <2>1. Stands(r) /\ UNCHANGED <<overlap, moved>> /\ pc'[r] = "mail"
    BY <1>3, Asking
  <2>2. PICK x \in loc[r].row : x \in Rows /\ SameRow(x) /\ account'[x].email = account[x].email
    BY <1>3, Asking
  <2>3. Free(r)' /\ Quiet
    BY <2>1, <2>2, RowQuiet DEF Free
  <2> QED  BY <2>1, <2>3, QuietMove
<1>4. CASE ChangeWrite(r)
  <2>1. Stands(r) /\ UNCHANGED <<overlap, moved>> /\ pc'[r] = "idle"
    BY <1>4, Changing
  <2>2. PICK x \in loc[r].row : x \in Rows /\ SameRow(x) /\ account'[x].email = account[x].email
    BY <1>4, Changing
  <2>3. Free(r)' /\ Quiet
    BY <2>1, <2>2, RowQuiet DEF Free
  <2> QED  BY <2>1, <2>3, QuietMove
<1>5. CASE VerifyWrite(r) \/ ResetWrite(r) \/ MoveWrite(r)
  <2>1. Stands(r) /\ UNCHANGED overlap /\ moved \subseteq moved' /\ pc'[r] = "idle"
    BY <1>5, OpeningAll
  <2>2. PICK x \in loc[r].row : /\ x \in Rows /\ SameRow(x)
                                /\ account'[x].email = account[x].email \/ x \in moved'
    BY <1>5, OpeningAll
  <2>3. Free(r)' /\ Quiet
    BY <2>1, <2>2, RowQuiet DEF Free
  <2> QED  BY <2>1, <2>3, QuietMove
<1>6. CASE SendMail(r) \/ Abort(r)
  <2>1. Stands(r) /\ UNCHANGED <<account, overlap, moved>> /\ pc'[r] \in {"idle", "write"}
    BY <1>6, Mailing, Aborting
  <2>2. Free(r)' /\ Quiet
    BY <2>1 DEF Free, Quiet, Live
  <2> QED  BY <2>1, <2>2, QuietMove
<1> QED  BY <1>1, <1>2, <1>3, <1>4, <1>5, <1>6

LEMMA OnesByFounding ==
    ASSUME Inv, OrderInv, AddressFree, OneAccountEach, NEW r \in Requests,
           RegisterCreate(r) \/ AcceptCreate(r)
    PROVE  AddressFree' /\ OneAccountEach'
<1>1. CASE RegisterCreate(r)
  <2>1. Stands(r) /\ UNCHANGED <<overlap, moved>> /\ pc[r] = "create" /\ pc'[r] = "mail"
    BY <1>1, Registering
  <2>2. PICK x \in Rows, e \in loc[r].email : Founds(x, e, Len(link'))
    BY <1>1, Registering
  <2> QED  BY <2>1, <2>2, FoundsOne
<1>2. CASE AcceptCreate(r)
  <2>1. Stands(r) /\ UNCHANGED <<overlap, moved>> /\ pc[r] = "join" /\ pc'[r] = "idle"
    BY <1>2, Accepting
  <2>2. PICK x \in Rows, e \in loc[r].email : Founds(x, e, 0)
    BY <1>2, Accepting
  <2> QED  BY <2>1, <2>2, FoundsOne
<1> QED  BY <1>1, <1>2

LEMMA OnesByOthers ==
    ASSUME Inv, AddressFree, OneAccountEach,
           \/ \E x \in Rows : End(x) \/ Administers(x)
           \/ \E k \in DOMAIN link : Expire(k)
           \/ UNCHANGED vars
    PROVE  AddressFree' /\ OneAccountEach'
<1>1. Quiet /\ UNCHANGED <<pc, loc>>
  <2>1. ASSUME NEW x \in Rows, End(x) PROVE Quiet /\ UNCHANGED <<pc, loc>>
    BY <2>1, Ending DEF Quiet, Live
  <2>4. ASSUME NEW x \in Rows, Administers(x) PROVE Quiet /\ UNCHANGED <<pc, loc>>
    BY <2>4, Administering DEF Quiet, Live
  <2>2. ASSUME NEW k \in DOMAIN link, Expire(k) PROVE Quiet /\ UNCHANGED <<pc, loc>>
    BY <2>2, Expiring DEF Quiet, Live
  <2>3. CASE UNCHANGED vars
    BY <2>3 DEF vars, Quiet, Live
  <2> QED  BY <2>1, <2>2, <2>3, <2>4
<1>2. \A q \in Requests : Free(q)'
  BY <1>1, QuietFree DEF AddressFree
<1> QED  BY <1>1, <1>2, QuietOnes DEF AddressFree

LEMMA NextOnes ==
    Inv /\ OrderInv /\ AddressFree /\ OneAccountEach /\ [Next]_vars
      => AddressFree' /\ OneAccountEach'
<1> SUFFICES ASSUME Inv, OrderInv, AddressFree, OneAccountEach, [Next]_vars
             PROVE  AddressFree' /\ OneAccountEach'
  OBVIOUS
<1>1. CASE UNCHANGED vars \/ (\E x \in Rows : End(x) \/ Administers(x)) \/ (\E k \in DOMAIN link : Expire(k))
  BY <1>1, OnesByOthers
<1>2. ASSUME NEW r \in Requests, NEW e \in Emails,
             \/ RegisterRead(r, e)
             \/ \E x \in Rows : AcceptRead(r, x, e) \/ ChangeRead(r, x, e)
             \/ \E kind \in Kinds : AskRead(r, e, kind)
      PROVE  AddressFree' /\ OneAccountEach'
  BY <1>2, OnesByRequests
<1>3. ASSUME NEW r \in Requests, NEW k \in DOMAIN link, OpenRead(r, k)
      PROVE  AddressFree' /\ OneAccountEach'
  BY <1>3, OnesByRequests
<1>4. ASSUME NEW r \in Requests,
             \/ RegisterCreate(r) \/ AcceptCreate(r) \/ AskWrite(r) \/ SendMail(r)
             \/ ChangeWrite(r) \/ VerifyWrite(r) \/ ResetWrite(r) \/ MoveWrite(r) \/ Abort(r)
      PROVE  AddressFree' /\ OneAccountEach'
  BY <1>4, OnesByRequests, OnesByFounding
<1> QED  BY <1>1, <1>2, <1>3, <1>4 DEF Next, Administers

\* Two live accounts have one address only if requests about it overlapped, or
\* one of them moved there: register and acceptInvitation look before they create.
THEOREM OneForEach == Spec => []OneAccountEach
<1>1. Init => AddressFree /\ OneAccountEach
  BY DEF Init, AddressFree, Free, OneAccountEach, Live, NoAccount
<1>2. AddressFree /\ OneAccountEach /\ Inv /\ OrderInv /\ [Next]_vars
        => (AddressFree /\ OneAccountEach)'
  BY NextOnes
<1> QED  BY <1>1, <1>2, Invariance, AlwaysOrder, PTL DEF Spec
----------------------------------------------------------------------------
(* The newest link works.                                                  *)

\* Links stay opened, and stay old.
LinksAge == \A k \in DOMAIN link : /\ link[k].opened => link'[k].opened
                                   /\ link[k].old => link'[k].old

LEMMA ParKept ==
    ASSUME OrderInv, LinksAge, NEW x \in Rows, NEW kind \in Kinds, OnPar(x, kind),
           last'[x][kind] = last[x][kind],
           account'[x].token[kind] = account[x].token[kind],
           account[x].verified => account'[x].verified
    PROVE  OnPar(x, kind)'
<1>1. last[x][kind] # 0 => last[x][kind] \in DOMAIN link
  BY DEF OrderInv, LastInv
<1> QED  BY <1>1 DEF OnPar, LinksAge

\* A request alone with its row answers for one kind of link.
LEMMA Alone ==
    ASSUME OrderInv, NewsInv, NEW r \in Requests, NEW x \in Rows, NEW kind \in Kinds,
           x \in loc[r].row, Undisturbed(x), ~Under(r, x, kind)
    PROVE  OnPar(x, kind)
BY DEF OrderInv, Apart, NewsInv, NewestInv, Undisturbed, Under

\* An account that is not yet has no link.
LEMMA NothingMailed ==
    ASSUME Inv, OrderInv, NEW x \in Rows, account[x].st = "none", NEW kind \in Kinds
    PROVE  last[x][kind] = 0
BY DEF Inv, LinksInv, OrderInv, LastInv

\* One request moves, and touches no row but those it is about.
LEMMA NewsMoves ==
    ASSUME Inv, OrderInv, NewsInv, NEW r \in Requests, Stands(r), LinksAge,
           overlap \subseteq overlap', failed \subseteq failed',
           NEW T \in SUBSET Rows, T \subseteq loc[r].row,
           pc[r] \in {"mail", "write"} => loc[r].row \subseteq T,
           \A x \in Rows \ T : /\ last'[x] = last[x]
                               /\ account[x].st # "none" => account'[x] = account[x],
           \A x \in T : account'[x].gone = account[x].gone,
           \A x \in T : Undisturbed(x)' =>
             \A kind \in Kinds : OnPar(x, kind)' \/ Under(r, x, kind)',
           \A x \in loc'[r].row : Undisturbed(x)' => Carries(r, x)'
    PROVE  NewsInv'
<1>1. \A x \in Rows : account[x].st # "none" /\ Undisturbed(x)' => Undisturbed(x)
  BY DEF Undisturbed, Live
<1>2. \A q \in Requests : loc[q].row \subseteq Rows /\ \A x \in loc[q].row : account[x].st # "none"
  BY DEF Inv, TypeOK, Locals, OrderInv, PostInv, Placed
<1>3. \A q \in Requests \ {r} : \A x \in loc[q].row : Undisturbed(x)' => x \notin T
  BY DEF OrderInv, Apart, Undisturbed
<1>4. NewestInv'
  <2> SUFFICES ASSUME NEW x \in Rows, Undisturbed(x)', NEW kind \in Kinds
               PROVE  OnPar(x, kind)' \/ \E q \in Requests : Under(q, x, kind)'
    BY DEF NewestInv
  <2>1. CASE x \in T
    BY <2>1
  <2>2. CASE x \notin T /\ account[x].st = "none"
    <3>1. last'[x][kind] = 0
      BY <2>2, NothingMailed
    <3> QED  BY <3>1 DEF OnPar
  <2>3. CASE x \notin T /\ account[x].st # "none"
    <3>1. last'[x] = last[x] /\ account'[x] = account[x] /\ Undisturbed(x)
      BY <1>1, <2>3
    <3>2. CASE OnPar(x, kind)
      BY <3>1, <3>2, ParKept
    <3>3. ASSUME NEW q \in Requests, Under(q, x, kind) PROVE Under(q, x, kind)'
      <4>1. q # r
        BY <2>3, <3>3 DEF Under
      <4> QED  BY <3>3, <4>1 DEF Under, Stands
    <3> QED  BY <3>1, <3>2, <3>3 DEF NewsInv, NewestInv
  <2> QED  BY <2>1, <2>2, <2>3
<1>5. CarryInv'
  <2> SUFFICES ASSUME NEW q \in Requests, NEW x \in loc'[q].row, Undisturbed(x)'
               PROVE  Carries(q, x)'
    BY DEF CarryInv
  <2>1. CASE q = r
    BY <2>1
  <2>2. CASE q # r
    <3>1. pc'[q] = pc[q] /\ loc'[q] = loc[q]
      BY <2>2 DEF Stands
    <3>2. x \in Rows /\ account'[x] = account[x] /\ last'[x] = last[x] /\ Undisturbed(x)
      BY <1>1, <1>2, <1>3, <2>2, <3>1
    <3>3. Carries(q, x)
      BY <3>1, <3>2 DEF NewsInv, CarryInv, Carries
    <3> QED  BY <3>1, <3>2, <3>3 DEF Carries
  <2> QED  BY <2>1, <2>2
<1> QED  BY <1>4, <1>5 DEF NewsInv

\* One request moves, and touches no row that there is.
LEMMA NewsUntouched ==
    ASSUME Inv, OrderInv, NewsInv, NEW r \in Requests, Stands(r), LinksAge,
           overlap \subseteq overlap', UNCHANGED <<last, failed>>,
           pc[r] \notin {"mail", "write"},
           \A x \in Rows : account[x].st # "none" => account'[x] = account[x],
           \A x \in loc'[r].row : Carries(r, x)'
    PROVE  NewsInv'
<1>1. {} \in SUBSET Rows /\ {} \subseteq loc[r].row
  OBVIOUS
<1> QED  BY <1>1, NewsMoves

LEMMA NewsByReading ==
    ASSUME Inv, OrderInv, NewsInv, NEW r \in Requests,
           \/ \E e \in Emails : RegisterRead(r, e)
           \/ \E e \in Emails, x \in Rows : AcceptRead(r, x, e)
           \/ \E e \in Emails, kind \in Kinds : AskRead(r, e, kind)
           \/ \E k \in DOMAIN link : OpenRead(r, k)
    PROVE  NewsInv'
<1>1. /\ Stands(r) /\ Overlaps(r) /\ pc[r] = "idle"
      /\ UNCHANGED <<account, link, last, failed>>
  BY Reading
<1>2. \/ loc'[r].row = {}
      \/ \E x \in Rows :
           /\ loc'[r].row = {x}
           /\ \/ pc'[r] = "join"
              \/ pc'[r] = "write" /\ loc'[r].kind # "change"
              \/ pc'[r] = "open" /\ account[x].token[loc'[r].kind] = loc'[r].k
  BY Reading
<1>3. \A x \in loc'[r].row : Carries(r, x)'
  BY <1>1, <1>2 DEF Carries
<1>4. LinksAge /\ overlap \subseteq overlap'
  BY <1>1 DEF LinksAge, Overlaps
<1> QED  BY <1>1, <1>3, <1>4, NewsUntouched

\* An account, or the link of a change of email, is new.
LEMMA NewsByMaking ==
    ASSUME Inv, OrderInv, NewsInv, NEW r \in Requests,
           \/ \E x \in Rows, e \in Emails : ChangeRead(r, x, e)
           \/ RegisterCreate(r) \/ AcceptCreate(r)
    PROVE  NewsInv'
<1>1. ASSUME NEW x \in Rows, NEW e \in Emails, ChangeRead(r, x, e)
      PROVE  NewsInv'
  <2>1. /\ Stands(r) /\ Overlaps(r) /\ pc[r] = "idle"
        /\ UNCHANGED <<account, last, failed>> /\ Adds(x, "change")
        /\ pc'[r] = "mail_first"
    BY <1>1, ChangeReading
  <2>2. LinksAge /\ overlap \subseteq overlap' /\ \A y \in loc'[r].row : Carries(r, y)'
    BY <2>1 DEF Overlaps, Adds, LinksAge, Carries
  <2> QED  BY <2>1, <2>2, NewsUntouched
<1>2. CASE RegisterCreate(r)
  <2>1. /\ Stands(r) /\ UNCHANGED <<last, overlap, failed>>
        /\ pc[r] = "create" /\ pc'[r] = "mail"
        /\ loc'[r].kind = loc[r].kind /\ loc'[r].k = Len(link')
    BY <1>2, Registering
  <2>2. PICK x \in Rows, e \in loc[r].email :
           Founds(x, e, Len(link')) /\ Adds(x, "verify") /\ loc'[r].row = {x}
    BY <1>2, Registering
  <2>3. loc'[r].kind = "verify"
    BY <2>1 DEF OrderInv, PostInv, Placed
  <2>4. LinksAge /\ \A y \in loc'[r].row : Carries(r, y)'
    BY <2>1, <2>2, <2>3 DEF Adds, LinksAge, Carries, Founds
  <2>5. \A y \in Rows : account[y].st # "none" => account'[y] = account[y]
    BY <2>2 DEF Founds
  <2> QED  BY <2>1, <2>4, <2>5, NewsUntouched
<1>3. CASE AcceptCreate(r)
  <2>1. /\ Stands(r) /\ UNCHANGED <<last, overlap, failed>>
        /\ pc[r] = "join" /\ pc'[r] = "idle" /\ loc'[r].row = {}
    BY <1>3, Accepting
  <2>2. PICK x \in Rows, e \in loc[r].email : Founds(x, e, 0) /\ Adds(x, "verify")
    BY <1>3, Accepting
  <2>3. LinksAge /\ \A y \in loc'[r].row : Carries(r, y)'
    BY <2>1, <2>2 DEF Adds, LinksAge
  <2>4. \A y \in Rows : account[y].st # "none" => account'[y] = account[y]
    BY <2>2 DEF Founds
  <2> QED  BY <2>1, <2>3, <2>4, NewsUntouched
<1> QED  BY <1>1, <1>2, <1>3

\* The request's only row is touched, and whoever else is about it has overlapped.
LEMMA NewsAbout ==
    ASSUME Inv, OrderInv, NewsInv, NEW r \in Requests, Stands(r), LinksAge,
           overlap \subseteq overlap', failed \subseteq failed',
           NEW x \in Rows, loc[r].row = {x}, loc'[r].row \subseteq {x},
           account'[x].gone = account[x].gone,
           \A y \in Rows \ {x} : last'[y] = last[y] /\ account'[y] = account[y],
           Undisturbed(x) /\ Undisturbed(x)' =>
             /\ \A kind \in Kinds : OnPar(x, kind)' \/ Under(r, x, kind)'
             /\ x \in loc'[r].row => Carries(r, x)'
    PROVE  NewsInv'
<1>1. account[x].st # "none"
  BY DEF OrderInv, PostInv, Placed
<1>2. Undisturbed(x)' => Undisturbed(x)
  BY <1>1 DEF Undisturbed, Live
<1>3. {x} \in SUBSET Rows /\ {x} \subseteq loc[r].row /\ loc[r].row \subseteq {x}
  OBVIOUS
<1>4. /\ \A y \in {x} : account'[y].gone = account[y].gone
      /\ \A y \in {x} : Undisturbed(y)' => \A kind \in Kinds : OnPar(y, kind)' \/ Under(r, y, kind)'
      /\ \A y \in loc'[r].row : Undisturbed(y)' => Carries(r, y)'
  BY <1>2
<1> QED  BY <1>3, <1>4, NewsMoves

LEMMA NewsByAsking ==
    ASSUME Inv, OrderInv, NewsInv, NEW r \in Requests, AskWrite(r)
    PROVE  NewsInv'
<1>1. /\ Stands(r) /\ UNCHANGED <<last, overlap, failed>> /\ pc'[r] = "mail"
      /\ loc'[r].row = loc[r].row /\ loc'[r].kind = loc[r].kind /\ loc'[r].k = Len(link')
  BY Asking
<1>2. PICK x \in loc[r].row : /\ x \in Rows /\ Adds(x, loc[r].kind) /\ SameRow(x)
                              /\ Token(x, loc[r].kind, Len(link'))
                              /\ account'[x].verified = account[x].verified
  BY Asking
<1>3. loc[r].row = {x}
  BY <1>2 DEF OrderInv, PostInv, Placed
<1>4. LinksAge
  BY <1>2 DEF Adds, LinksAge
<1>5. ASSUME Undisturbed(x), NEW kind \in Kinds
      PROVE  OnPar(x, kind)' \/ Under(r, x, kind)'
  <2>1. CASE kind = loc[r].kind
    BY <1>1, <1>3, <2>1 DEF Under
  <2>2. CASE kind # loc[r].kind
    <3>1. OnPar(x, kind)
      BY <1>2, <1>5, <2>2, Alone DEF Under
    <3>2. account'[x].token[kind] = account[x].token[kind] /\ last'[x][kind] = last[x][kind]
      BY <1>1, <1>2, <2>2 DEF Token
    <3> QED  BY <1>2, <1>4, <3>1, <3>2, ParKept
  <2> QED  BY <2>1, <2>2
<1>6. Carries(r, x)'
  BY <1>1, <1>2 DEF Carries, Token
<1> QED  BY <1>1, <1>2, <1>3, <1>4, <1>5, <1>6, NewsAbout DEF SameRow

LEMMA NewsByMailing ==
    ASSUME Inv, OrderInv, NewsInv, NEW r \in Requests, SendMail(r)
    PROVE  NewsInv'
<1>0. PICK k \in DOMAIN link : loc[r].k = k
  BY Mailing
<1>1. /\ Stands(r) /\ UNCHANGED <<account, overlap>> /\ SameLinks
      /\ pc[r] \in Posting
  BY Mailing
<1>2. \/ pc[r] = "mail" /\ pc'[r] = "idle" /\ loc'[r].row = {}
      \/ pc[r] = "mail_first" /\ pc'[r] = "write" /\ loc'[r] = loc[r]
  BY Mailing
<1>3. PICK x \in Rows, kind0 \in Kinds :
         /\ link[k].row = x /\ link[k].kind = kind0 /\ loc[r].row = {x} /\ loc[r].kind = kind0
  <2>1. loc[r].row = {link[k].row} /\ loc[r].kind = link[k].kind
    BY <1>0, <1>1 DEF OrderInv, PostInv, Placed
  <2>2. link[k].row \in Rows /\ link[k].kind \in Kinds
    BY LinkFacts DEF Inv, Link
  <2> QED  BY <2>1, <2>2
<1>4. LinksAge
  BY <1>1 DEF SameLinks, LinksAge
<1>5. /\ failed \subseteq failed' /\ \A y \in Rows \ {x} : last'[y] = last[y]
      /\ Undisturbed(x)' => /\ last'[x][kind0] = k
                            /\ \A kind \in Kinds \ {kind0} : last'[x][kind] = last[x][kind]
  <2>1. CASE last' = last /\ failed' = failed \cup {x}
    BY <2>1 DEF Undisturbed
  <2>2. CASE last' = [last EXCEPT ![x][kind0] = k] /\ failed' = failed
    BY <1>3, <2>2 DEF Inv, TypeOK
  <2>3. \/ last' = [last EXCEPT ![link[k].row][link[k].kind] = k] /\ failed' = failed
        \/ last' = last /\ failed' = failed \cup {link[k].row}
    BY <1>0, Mailing
  <2> QED  BY <1>3, <2>1, <2>2, <2>3
<1>6. ASSUME Undisturbed(x), Undisturbed(x)', NEW kind \in Kinds
      PROVE  OnPar(x, kind)' \/ Under(r, x, kind)'
  <2>1. CASE kind = kind0 /\ pc[r] = "mail"
    <3>1. account[x].token[kind0] = k
      BY <1>0, <1>3, <1>6, <2>1 DEF NewsInv, CarryInv, Carries
    <3> QED  BY <1>1, <1>5, <1>6, <2>1, <3>1 DEF OnPar
  <2>2. CASE kind = kind0 /\ pc[r] # "mail"
    BY <1>2, <1>3, <2>2 DEF Under
  <2>3. CASE kind # kind0
    <3>1. OnPar(x, kind)
      BY <1>3, <1>6, <2>3, Alone DEF Under
    <3> QED  BY <1>1, <1>3, <1>4, <1>5, <1>6, <2>3, <3>1, ParKept
  <2> QED  BY <2>1, <2>2, <2>3
<1>7. ASSUME Undisturbed(x)', x \in loc'[r].row PROVE Carries(r, x)'
  BY <1>0, <1>2, <1>3, <1>5, <1>7 DEF Carries
<1>8. \A y \in Rows \ {x} : account'[y] = account[y]
  BY <1>1
<1>9. loc'[r].row \subseteq {x}
  BY <1>2, <1>3
<1> QED  BY <1>1, <1>3, <1>4, <1>5, <1>6, <1>7, <1>8, <1>9, NewsAbout

LEMMA NewsByChanging ==
    ASSUME Inv, OrderInv, NewsInv, NEW r \in Requests, ChangeWrite(r)
    PROVE  NewsInv'
<1>1. /\ Stands(r) /\ UNCHANGED <<link, last, overlap, failed>>
      /\ pc[r] = "write" /\ loc[r].kind = "change" /\ pc'[r] = "idle" /\ loc'[r].row = {}
  BY Changing
<1>2. PICK x \in loc[r].row : /\ x \in Rows /\ SameRow(x) /\ Token(x, "change", loc[r].k)
                              /\ account'[x].verified = account[x].verified
  BY Changing
<1>3. loc[r].row = {x}
  BY <1>2 DEF OrderInv, PostInv, Placed
<1>4. LinksAge
  BY <1>1 DEF LinksAge
<1>5. ASSUME Undisturbed(x), NEW kind \in Kinds
      PROVE  OnPar(x, kind)'
  <2>1. CASE kind = "change"
    <3>1. last[x]["change"] = loc[r].k
      BY <1>1, <1>2, <1>5 DEF NewsInv, CarryInv, Carries
    <3> QED  BY <1>1, <1>2, <2>1, <3>1 DEF OnPar, Token
  <2>2. CASE kind # "change"
    <3>1. OnPar(x, kind)
      BY <1>1, <1>2, <1>5, <2>2, Alone DEF Under
    <3>2. account'[x].token[kind] = account[x].token[kind] /\ last'[x][kind] = last[x][kind]
      BY <1>1, <1>2, <2>2 DEF Token
    <3> QED  BY <1>2, <1>4, <3>1, <3>2, ParKept
  <2> QED  BY <2>1, <2>2
<1> QED  BY <1>1, <1>2, <1>3, <1>4, <1>5, NewsAbout DEF SameRow

\* The link that is opened is the newest one, or there is no need of it.
LEMMA NewsByOpening ==
    ASSUME Inv, OrderInv, NewsInv, NEW r \in Requests,
           VerifyWrite(r) \/ ResetWrite(r) \/ MoveWrite(r)
    PROVE  NewsInv'
<1>1. /\ Stands(r) /\ UNCHANGED <<last, overlap, failed>> /\ SameLinks
      /\ pc[r] = "open" /\ link'[loc[r].k].opened /\ pc'[r] = "idle" /\ loc'[r].row = {}
  BY OpeningAll
<1>2. PICK x \in loc[r].row :
        /\ x \in Rows /\ SameRow(x) /\ Token(x, loc[r].kind, 0)
        /\ account[x].verified \/ loc[r].kind = "verify" => account'[x].verified
  BY OpeningAll
<1>3. loc[r].row = {x}
  BY <1>2 DEF OrderInv, PostInv, Placed
<1>4. LinksAge
  BY <1>1 DEF SameLinks, LinksAge
<1>5. ASSUME Undisturbed(x), NEW kind \in Kinds
      PROVE  OnPar(x, kind)'
  <2>1. OnPar(x, kind)
    BY <1>1, <1>2, <1>5, Alone DEF Under
  <2>2. CASE kind = loc[r].kind
    <3>1. account[x].token[kind] = loc[r].k
      BY <1>1, <1>2, <1>5, <2>2 DEF NewsInv, CarryInv, Carries
    <3>2. last[x][kind] # 0 => last[x][kind] \in DOMAIN link
      BY <1>2 DEF OrderInv, LastInv
    <3> QED  BY <1>1, <1>2, <1>4, <2>1, <3>1, <3>2 DEF OnPar, LinksAge
  <2>3. CASE kind # loc[r].kind
    <3>1. account'[x].token[kind] = account[x].token[kind] /\ last'[x][kind] = last[x][kind]
      BY <1>1, <1>2, <2>3 DEF Token
    <3> QED  BY <1>2, <1>4, <2>1, <3>1, ParKept
  <2> QED  BY <2>2, <2>3
<1> QED  BY <1>1, <1>2, <1>3, <1>4, <1>5, NewsAbout DEF SameRow

\* A request that fails leaves its account on record.
LEMMA NewsByAborting ==
    ASSUME Inv, OrderInv, NewsInv, NEW r \in Requests, Abort(r)
    PROVE  NewsInv'
<1>1. /\ Stands(r) /\ UNCHANGED <<account, link, last, overlap>>
      /\ failed' = failed \cup loc[r].row /\ loc'[r].row = {}
  BY Aborting
<1>2. loc[r].row \in SUBSET Rows /\ LinksAge
  BY <1>1 DEF Inv, TypeOK, Locals, LinksAge
<1>3. \A x \in loc[r].row : ~Undisturbed(x)'
  BY <1>1 DEF Undisturbed
<1> QED  BY <1>1, <1>2, <1>3, NewsMoves

LEMMA NewsByOthers ==
    ASSUME Inv, OrderInv, NewsInv,
           \/ \E x \in Rows : End(x) \/ Administers(x)
           \/ \E k \in DOMAIN link : Expire(k)
           \/ UNCHANGED vars
    PROVE  NewsInv'
<1>1. /\ UNCHANGED <<last, pc, loc>> /\ LinksAge
      /\ \A x \in Rows : Undisturbed(x)' =>
           /\ Undisturbed(x) /\ account'[x].token = account[x].token
           /\ account[x].verified => account'[x].verified
  <2>1. ASSUME NEW x \in Rows, End(x)
        PROVE  /\ UNCHANGED <<last, pc, loc>> /\ LinksAge
               /\ \A y \in Rows : Undisturbed(y)' => Undisturbed(y) /\ account'[y] = account[y]
    BY <2>1, Ending DEF LinksAge, Undisturbed, Live
  <2>4. ASSUME NEW x \in Rows, Administers(x)
        PROVE  /\ UNCHANGED <<last, pc, loc>> /\ LinksAge
               /\ \A y \in Rows : Undisturbed(y)' =>
                    /\ Undisturbed(y) /\ account'[y].token = account[y].token
                    /\ account[y].verified => account'[y].verified
    BY <2>4, Administering DEF LinksAge, Undisturbed, Live
  <2>2. ASSUME NEW k \in DOMAIN link, Expire(k)
        PROVE  UNCHANGED <<last, pc, loc, account, overlap, failed>> /\ LinksAge
    BY <2>2, Expiring DEF LinksAge, SameLinks
  <2>3. CASE UNCHANGED vars
    BY <2>3 DEF vars, LinksAge, Undisturbed, Live
  <2> QED  BY <2>1, <2>2, <2>3, <2>4 DEF Undisturbed, Live
<1>2. NewestInv'
  <2> SUFFICES ASSUME NEW x \in Rows, Undisturbed(x)', NEW kind \in Kinds
               PROVE  OnPar(x, kind)' \/ \E q \in Requests : Under(q, x, kind)'
    BY DEF NewestInv
  <2>1. /\ Undisturbed(x) /\ last'[x] = last[x] /\ account'[x].token = account[x].token
        /\ account[x].verified => account'[x].verified
    BY <1>1
  <2>2. OnPar(x, kind) => OnPar(x, kind)'
    BY <1>1, <2>1, ParKept
  <2>3. \A q \in Requests : Under(q, x, kind) => Under(q, x, kind)'
    BY <1>1 DEF Under
  <2> QED  BY <2>1, <2>2, <2>3 DEF NewsInv, NewestInv
<1>3. CarryInv'
  <2>1. \A q \in Requests : loc[q].row \subseteq Rows
    BY DEF Inv, TypeOK, Locals
  <2> QED  BY <1>1, <2>1 DEF NewsInv, CarryInv, Carries
<1> QED  BY <1>2, <1>3 DEF NewsInv

LEMMA NextNews == Inv /\ OrderInv /\ NewsInv /\ [Next]_vars => NewsInv'
<1> SUFFICES ASSUME Inv, OrderInv, NewsInv, [Next]_vars PROVE NewsInv'
  OBVIOUS
<1>1. CASE UNCHANGED vars \/ (\E x \in Rows : End(x) \/ Administers(x)) \/ (\E k \in DOMAIN link : Expire(k))
  BY <1>1, NewsByOthers
<1>2. ASSUME NEW r \in Requests, NEW e \in Emails,
             \/ RegisterRead(r, e)
             \/ \E x \in Rows : AcceptRead(r, x, e) \/ ChangeRead(r, x, e)
             \/ \E kind \in Kinds : AskRead(r, e, kind)
      PROVE  NewsInv'
  BY <1>2, NewsByReading, NewsByMaking
<1>3. ASSUME NEW r \in Requests, NEW k \in DOMAIN link, OpenRead(r, k)
      PROVE  NewsInv'
  BY <1>3, NewsByReading
<1>4. ASSUME NEW r \in Requests,
             \/ RegisterCreate(r) \/ AcceptCreate(r) \/ AskWrite(r) \/ SendMail(r)
             \/ ChangeWrite(r) \/ VerifyWrite(r) \/ ResetWrite(r) \/ MoveWrite(r) \/ Abort(r)
      PROVE  NewsInv'
  BY <1>4, NewsByMaking, NewsByAsking, NewsByMailing, NewsByChanging, NewsByOpening,
     NewsByAborting
<1> QED  BY <1>1, <1>2, <1>3, <1>4 DEF Next, Administers

LEMMA NewsWorks == OrderInv /\ NewsInv => NewestLinkWorks
<1> SUFFICES ASSUME OrderInv, NewsInv, NEW x \in Rows, NEW kind \in Kinds,
                    last[x][kind] # 0, Live(x), x \notin overlap \cup failed,
                    ~link[last[x][kind]].opened, ~link[last[x][kind]].old,
                    \A r \in Requests : x \notin loc[r].row
             PROVE  Opens(last[x][kind]) \/ (kind = "verify" /\ account[x].verified)
  BY DEF NewestLinkWorks
<1>1. OnPar(x, kind)
  BY DEF NewsInv, NewestInv, Undisturbed, Under
<1>2. /\ link[last[x][kind]].st = "mailed" /\ link[last[x][kind]].row = x
      /\ link[last[x][kind]].kind = kind
  BY DEF OrderInv, LastInv
<1> QED  BY <1>1, <1>2 DEF OnPar, Opens, Live

\* Of each kind, the link that reached the mailbox last is the one that works:
\* resend, requestPasswordReset and updateProfile each replace the one before.
THEOREM NewestWorks == Spec => []NewestLinkWorks
<1>1. Init => NewsInv
  <2> SUFFICES ASSUME Init PROVE NewsInv
    OBVIOUS
  <2>1. \A x \in Rows : ~Live(x)
    BY DEF Init, Live, NoAccount
  <2>2. \A r \in Requests : loc[r].row = {}
    BY DEF Init, NoLocals
  <2> QED  BY <2>1, <2>2 DEF NewsInv, NewestInv, CarryInv, Undisturbed
<1>2. NewsInv /\ Inv /\ OrderInv /\ [Next]_vars => NewsInv'
  BY NextNews
<1> QED  BY <1>1, <1>2, NewsWorks, Invariance, AlwaysOrder, PTL DEF Spec
==============================================================================
