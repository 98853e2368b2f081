--------------------------- MODULE WebhookProofs ---------------------------
(***************************************************************************)
(* Theorems about WebhookDelivery, for every set of workers and            *)
(* subscriptions, whoever executes a delivery and wherever workers die.    *)
(*                                                                         *)
(*   TypeCorrect       rows and locals keep their types                    *)
(*   AttemptsAreSent   every recorded attempt was POSTed, every POSTed     *)
(*                     attempt was counted                                 *)
(*   PostedOnce        no attempt of a delivery is POSTed twice            *)
(*                                                                         *)
(* and, while one worker at a time executes what is due, without faults,   *)
(*                                                                         *)
(*   StatesAreVerdicts     the state is the verdict on the last attempt    *)
(*   DeadLettersAreListed  the dead letters are the deliveries given up    *)
(***************************************************************************)
EXTENDS WebhookDelivery, FiniteSetTheorems, TLAPS

----------------------------------------------------------------------------
(* The strengthening.  The lease version runs one ahead of the attempt      *)
(* count, so that the compare-and-set on the one hands out each number of   *)
(* the other once.                                                          *)

\* A worker past its read works on a delivery that exists.
Busy == {"cancel", "claim", "send", "record", "finish", "bury",
         "replay_create", "replay_mark", "replay_exec"}

\* What the worker at p with locals l may rely on.
Fits(p, l) ==
    /\ p \in Busy => l.d \in Delivery /\ Exists(l.d)
    /\ p \in {"replay_create", "replay_mark", "replay_exec"} => Replayed(l.d) \in Delivery
    /\ p \in {"replay_mark", "replay_exec"} => Exists(Replayed(l.d))
    /\ p \in {"claim", "send", "record"} => l.n \in Nat \ {0}
    /\ p = "claim" => l.lease = l.n /\ l.lease <= del[l.d].lease
    /\ p = "send" => l.n <= del[l.d].count /\ <<l.d, l.n>> \notin sent
    /\ p = "record" => <<l.d, l.n>> \in sent

\* Two workers about to POST hold different attempts.
Apart == \A w, v \in Workers :
            pc[w] = "send" /\ pc[v] = "send" /\ w # v
                => <<loc[w].d, loc[w].n>> # <<loc[v].d, loc[v].n>>

LeaseAhead == \A d \in Delivery : IF Exists(d) THEN del[d].lease = del[d].count + 1
                                              ELSE del[d] = NoRow

IInv ==
    /\ TypeOK
    /\ \A w \in Workers : Fits(pc[w], loc[w])
    /\ Apart
    /\ LeaseAhead
    /\ AttemptsSent

LEMMA NoLocalsTyped == NoLocals \in Locals
BY DEF NoLocals, Locals, Outcomes

LEMMA InitInv == Init => IInv
<1> SUFFICES ASSUME Init PROVE IInv
  OBVIOUS
<1>1. TypeOK
  BY NoLocalsTyped DEF Init, TypeOK, Row, States, NoRow, PCs
<1>2. \A w \in Workers : Fits(pc[w], loc[w])
  BY DEF Init, Fits, Busy
<1> QED  BY <1>1, <1>2 DEF Init, IInv, Apart, LeaseAhead, AttemptsSent, Exists, NoRow

\* Moving one worker keeps the locals typed.
LEMMA MoveTyped ==
    ASSUME TypeOK, NEW w \in Workers, NEW p \in PCs, NEW l \in Locals, Move(w, p, l)
    PROVE  pc' \in [Workers -> PCs] /\ loc' \in [Workers -> Locals]
BY DEF Move, Goto, TypeOK

----------------------------------------------------------------------------
(* Type correctness of each step.                                           *)

LEMMA FanTyped ==
    ASSUME TypeOK, NEW w \in Workers, FanOut(w) \/ FanCreate(w) \/ FanDone(w)
    PROVE  TypeOK'
<1>1. CASE FanOut(w)
  <2>1. [NoLocals EXCEPT !.subs = {s \in Subs : sub[s] = "active"}] \in Locals
    BY NoLocalsTyped DEF NoLocals, Locals
  <2> QED  BY <1>1, <2>1, MoveTyped DEF FanOut, PCs, TypeOK
<1>2. CASE FanCreate(w)
  <2>1. PICK s \in loc[w].subs : loc' = [loc EXCEPT ![w].subs = @ \ {s}]
    BY <1>2 DEF FanCreate
  <2>2. loc' \in [Workers -> Locals]
    BY <2>1 DEF TypeOK, Locals
  <2>3. NewRow \in Row
    BY DEF NewRow, Row, States
  <2>4. PICK s1 \in loc[w].subs : del' = del \/ del' = [del EXCEPT ![<<s1, 1>>] = NewRow]
    BY <1>2 DEF FanCreate
  <2>5. del' \in [Delivery -> Row]
    BY <2>3, <2>4 DEF TypeOK
  <2> QED  BY <1>2, <2>2, <2>5 DEF FanCreate, TypeOK
<1>3. CASE FanDone(w)
  BY <1>3, MoveTyped, NoLocalsTyped DEF FanDone, Return, PCs, TypeOK
<1> QED  BY <1>1, <1>2, <1>3

LEMMA ReadTyped ==
    ASSUME TypeOK, NEW w \in Workers, NEW d \in Delivery, Read(w, d)
    PROVE  pc' \in [Workers -> PCs] /\ loc' \in [Workers -> Locals]
<1>1. [NoLocals EXCEPT !.d = d, !.n = del[d].count + 1, !.lease = del[d].lease] \in Locals
  <2>1. del[d].count + 1 \in Nat /\ del[d].lease \in Nat
    BY DEF TypeOK, Row
  <2> QED  BY <2>1, NoLocalsTyped DEF NoLocals, Locals
<1> QED  BY <1>1, MoveTyped DEF Read, PCs

LEMMA DeliverTyped ==
    ASSUME TypeOK, NEW w \in Workers, Fits(pc[w], loc[w]),
           Cancel(w) \/ Claim(w) \/ Send(w) \/ Record(w) \/ Finish(w) \/ Bury(w)
    PROVE  TypeOK'
<1> DEFINE d == loc[w].d
<1>1. pc[w] \in Busy
  BY DEF Cancel, Claim, Send, Record, Finish, Bury, Busy, Goto
<1>2. d \in Delivery /\ loc[w].n \in Nat /\ loc[w].lease \in Nat /\ loc[w].out \in Outcomes
  BY <1>1 DEF Fits, TypeOK, Locals
<1>3. ASSUME Return(w) PROVE pc' \in [Workers -> PCs] /\ loc' \in [Workers -> Locals]
  BY <1>3, MoveTyped, NoLocalsTyped DEF Return, PCs
<1>4. ASSUME NEW p \in PCs, Goto(w, p) PROVE pc' \in [Workers -> PCs]
  BY <1>4 DEF Goto, TypeOK
<1>5. ASSUME NEW s \in States, del' = [del EXCEPT ![d].state = s] PROVE del' \in [Delivery -> Row]
  BY <1>5, <1>2 DEF TypeOK, Row
<1>6. Verdict(loc[w].n, loc[w].out) \in States
  BY DEF Verdict, States
<1>7. CASE Cancel(w)
  BY <1>7, <1>3, <1>5 DEF Cancel, TypeOK, States
<1>8. CASE Claim(w)
  <2>1. [state |-> "IN_FLIGHT", count |-> loc[w].n, lease |-> loc[w].lease + 1] \in Row
    BY <1>2 DEF Row, States
  <2>2. del' \in [Delivery -> Row]
    BY <1>8, <2>1 DEF Claim, TypeOK
  <2>3. pc' \in [Workers -> PCs] /\ loc' \in [Workers -> Locals]
    BY <1>8, <1>3, <1>4 DEF Claim, PCs, TypeOK
  <2> QED  BY <1>8, <2>2, <2>3 DEF Claim, TypeOK
<1>9. CASE Send(w)
  <2>1. loc' \in [Workers -> Locals]
    BY <1>9 DEF Send, TypeOK, Locals
  <2>2. unfilable' \subseteq Delivery \X Nat
    BY <1>9, <1>2 DEF Send, TypeOK
  <2> QED  BY <1>9, <2>1, <2>2, <1>2, <1>4 DEF Send, PCs, TypeOK
<1>10. CASE Record(w)
  <2>1. [d |-> d, n |-> loc[w].n, out |-> loc[w].out] \in [d : Delivery, n : Nat, out : Outcomes]
    BY <1>2
  <2>2. attempts' \subseteq [d : Delivery, n : Nat, out : Outcomes]
    BY <1>10, <2>1 DEF Record, TypeOK
  <2>3. pc' \in [Workers -> PCs] /\ loc' \in [Workers -> Locals]
    BY <1>10, <1>3, <1>4 DEF Record, PCs, TypeOK
  <2> QED  BY <1>10, <2>2, <2>3 DEF Record, TypeOK
<1>11. CASE Finish(w)
  <2>1. del' \in [Delivery -> Row]
    BY <1>11, <1>5, <1>6 DEF Finish
  <2>2. pc' \in [Workers -> PCs] /\ loc' \in [Workers -> Locals]
    BY <1>11, <1>3, <1>4 DEF Finish, PCs, TypeOK
  <2> QED  BY <1>11, <2>1, <2>2 DEF Finish, TypeOK
<1>12. CASE Bury(w)
  <2>1. dead' \in [Delivery -> {"NONE", "DEAD", "REPLAYED"}]
    BY <1>12 DEF Bury, TypeOK
  <2> QED  BY <1>12, <2>1, <1>3 DEF Bury, TypeOK
<1> QED  BY <1>7, <1>8, <1>9, <1>10, <1>11, <1>12

LEMMA ReplayTyped ==
    ASSUME TypeOK, NEW w \in Workers, Fits(pc[w], loc[w]),
           ReplayCreate(w) \/ ReplayMark(w) \/ ReplayExecute(w)
    PROVE  TypeOK'
<1>1. loc[w].d \in Delivery /\ Replayed(loc[w].d) \in Delivery
  BY DEF Fits, Busy, ReplayCreate, ReplayMark, ReplayExecute
<1>2. CASE ReplayCreate(w)
  <2>1. del' \in [Delivery -> Row]
    BY <1>2 DEF ReplayCreate, TypeOK, NewRow, Row, States
  <2>2. pc' \in [Workers -> PCs] /\ loc' \in [Workers -> Locals]
    BY <1>2, MoveTyped, NoLocalsTyped DEF ReplayCreate, Return, Goto, PCs, TypeOK
  <2> QED  BY <1>2, <2>1, <2>2 DEF ReplayCreate, TypeOK
<1>3. CASE ReplayMark(w)
  <2>1. dead' \in [Delivery -> {"NONE", "DEAD", "REPLAYED"}]
    BY <1>3 DEF ReplayMark, TypeOK
  <2>2. pc' \in [Workers -> PCs]
    BY <1>3 DEF ReplayMark, Goto, PCs, TypeOK
  <2> QED  BY <1>3, <2>1, <2>2 DEF ReplayMark, TypeOK
<1>4. CASE ReplayExecute(w)
  BY <1>1, <1>4, ReadTyped DEF ReplayExecute, TypeOK
<1> QED  BY <1>2, <1>3, <1>4

LEMMA RequestTyped ==
    ASSUME TypeOK, NEW w \in Workers,
           \/ \E d \in Delivery : Execute(w, d) \/ ReplayRead(w, d)
           \/ \E s \in Subs : PatchRead(w, s) \/ DeleteRead(w, s)
           \/ SubWrite(w) \/ Abort(w)
    PROVE  TypeOK'
<1>1. ASSUME NEW d \in Delivery, Execute(w, d) PROVE TypeOK'
  BY <1>1, ReadTyped DEF Execute, TypeOK
<1>2. ASSUME NEW d \in Delivery, ReplayRead(w, d) PROVE TypeOK'
  <2>1. [NoLocals EXCEPT !.d = d] \in Locals
    BY NoLocalsTyped DEF NoLocals, Locals
  <2> QED  BY <1>2, <2>1, MoveTyped DEF ReplayRead, PCs, TypeOK
<1>3. ASSUME NEW s \in Subs, NEW status \in {"active", "disabled", "deleted"}
      PROVE  [NoLocals EXCEPT !.subs = {s}, !.status = status] \in Locals
  BY NoLocalsTyped DEF NoLocals, Locals
<1>4. ASSUME NEW s \in Subs, PatchRead(w, s) PROVE TypeOK'
  <2>1. PICK status \in {sub[s], "active", "disabled"} :
          Move(w, "sub_write", [NoLocals EXCEPT !.subs = {s}, !.status = status])
    BY <1>4 DEF PatchRead
  <2>2. status \in {"active", "disabled", "deleted"}
    BY DEF TypeOK
  <2>3. pc' \in [Workers -> PCs] /\ loc' \in [Workers -> Locals]
    BY <2>1, <2>2, <1>3, MoveTyped DEF PCs
  <2> QED  BY <1>4, <2>3 DEF PatchRead, TypeOK
<1>5. ASSUME NEW s \in Subs, DeleteRead(w, s) PROVE TypeOK'
  BY <1>5, <1>3, MoveTyped DEF DeleteRead, PCs, TypeOK
<1>6. CASE SubWrite(w)
  <2>1. sub' \in [Subs -> {"active", "disabled", "deleted"}]
    BY <1>6 DEF SubWrite, TypeOK, Locals
  <2> QED  BY <1>6, <2>1, MoveTyped, NoLocalsTyped DEF SubWrite, Return, PCs, TypeOK
<1>7. CASE Abort(w)
  BY <1>7, MoveTyped, NoLocalsTyped DEF Abort, Return, PCs, TypeOK
<1> QED  BY <1>1, <1>2, <1>4, <1>5, <1>6, <1>7

----------------------------------------------------------------------------
(* What every step of a worker w owes the invariant.                        *)

RowsGrow == \A d \in Delivery : /\ Exists(d) => Exists(d)'
                                /\ del[d].count <= del'[d].count
                                /\ del[d].lease <= del'[d].lease

OthersRest(w) == \A v \in Workers : v # w => pc'[v] = pc[v] /\ loc'[v] = loc[v]

Attempt(w) == <<loc[w].d, loc[w].n>>

\* Another worker keeps what it relies on: rows only grow, and what is newly
\* POSTed is not what it is about to POST.
LEMMA OthersFit ==
    ASSUME TypeOK, TypeOK', RowsGrow, sent \subseteq sent',
           NEW p \in PCs, NEW l \in Locals, Fits(p, l),
           p = "send" => <<l.d, l.n>> \notin sent'
    PROVE  Fits(p, l)'
<1>1. l.n \in Nat /\ l.lease \in Nat
  BY DEF Locals
<1>2. p \in Busy => l.d \in Delivery /\ Exists(l.d)'
  BY DEF Fits, RowsGrow
<1>3. p \in {"replay_mark", "replay_exec"} => Exists(Replayed(l.d))'
  BY DEF Fits, RowsGrow
<1>4. \A d \in Delivery : /\ del[d].count \in Nat /\ del'[d].count \in Nat
                          /\ del[d].lease \in Nat /\ del'[d].lease \in Nat
  BY DEF TypeOK, Row
<1>5. p = "claim" => l.lease = l.n /\ l.lease <= del'[l.d].lease
  BY <1>1, <1>2, <1>4 DEF Fits, RowsGrow, Busy
<1>6. p = "send" => l.n <= del'[l.d].count
  BY <1>1, <1>2, <1>4 DEF Fits, RowsGrow, Busy
<1>7. p = "record" => <<l.d, l.n>> \in sent'
  BY DEF Fits
<1> QED  BY <1>2, <1>3, <1>5, <1>6, <1>7 DEF Fits

LEMMA WorkerStep ==
    ASSUME IInv, TypeOK', LeaseAhead', AttemptsSent', RowsGrow,
           NEW w \in Workers, OthersRest(w), Fits(pc[w], loc[w])',
           sent \subseteq sent',
           \A x \in sent' : x \in sent \/ (pc[w] = "send" /\ x = Attempt(w)),
           pc'[w] = "send" => \A v \in Workers \ {w} :
               pc[v] = "send" => Attempt(v) # Attempt(w)'
    PROVE  IInv'
<1>1. \A v \in Workers : Fits(pc[v], loc[v])'
  <2> SUFFICES ASSUME NEW v \in Workers, v # w PROVE Fits(pc[v], loc[v])'
    OBVIOUS
  <2>1. pc'[v] = pc[v] /\ loc'[v] = loc[v] /\ pc[v] \in PCs /\ loc[v] \in Locals
    BY DEF OthersRest, IInv, TypeOK
  <2>2. Fits(pc[v], loc[v])
    BY DEF IInv
  <2>3. pc[v] = "send" => <<loc[v].d, loc[v].n>> \notin sent'
    BY <2>2 DEF IInv, Apart, Fits, Attempt
  <2>4. PICK p \in PCs, l \in Locals : p = pc[v] /\ l = loc[v]
    BY <2>1
  <2>5. Fits(p, l)'
    BY <2>2, <2>3, <2>4, OthersFit DEF IInv
  <2> QED  BY <2>1, <2>4, <2>5 DEF Fits
<1>2. Apart'
  <2> SUFFICES ASSUME NEW u \in Workers, NEW v \in Workers, u # v,
                      pc'[u] = "send", pc'[v] = "send"
               PROVE  Attempt(u)' # Attempt(v)'
    BY DEF Apart, Attempt
  <2>1. CASE u # w /\ v # w
    BY <2>1 DEF OthersRest, IInv, Apart, Attempt
  <2>2. CASE u = w
    BY <2>2 DEF OthersRest, Attempt
  <2>3. CASE v = w
    BY <2>3 DEF OthersRest, Attempt
  <2> QED  BY <2>1, <2>2, <2>3
<1> QED  BY <1>1, <1>2 DEF IInv

\* The steps that POST and record nothing owe less.
LEMMA QuietStep ==
    ASSUME IInv, TypeOK', LeaseAhead', RowsGrow,
           NEW w \in Workers, OthersRest(w), Fits(pc[w], loc[w])', pc'[w] # "send",
           sent' = sent, attempts' = attempts
    PROVE  IInv'
<1>1. AttemptsSent'
  <2>1. \A p \in sent : p[1] \in Delivery /\ p[2] \in Nat
    BY DEF IInv, TypeOK
  <2>2. \A d \in Delivery : del[d].count \in Nat /\ del'[d].count \in Nat
    BY DEF IInv, TypeOK, Row
  <2> QED  BY <2>1, <2>2 DEF IInv, AttemptsSent, RowsGrow
<1> QED  BY <1>1, WorkerStep

\* No row is lost, and none taken back, where the rows are left alone or one
\* is replaced by a state.
LEMMA SameRows ==
    ASSUME IInv, del' = del
    PROVE  RowsGrow /\ LeaseAhead'
<1>1. \A d \in Delivery : del[d].count \in Nat /\ del[d].lease \in Nat
  BY DEF IInv, TypeOK, Row
<1> QED  BY <1>1 DEF IInv, RowsGrow, LeaseAhead, Exists

LEMMA StateWritten ==
    ASSUME IInv, NEW d \in Delivery, NEW s \in States \ {"NONE"}, Exists(d),
           del' = [del EXCEPT ![d].state = s]
    PROVE  RowsGrow /\ LeaseAhead'
<1>1. \A c \in Delivery : del[c].count \in Nat /\ del[c].lease \in Nat
  BY DEF IInv, TypeOK, Row
<1>2. \A c \in Delivery : /\ del'[c].count = del[c].count
                          /\ del'[c].lease = del[c].lease
                          /\ Exists(c) <=> Exists(c)'
  BY DEF IInv, TypeOK, Row, Exists
<1> QED  BY <1>1, <1>2 DEF IInv, RowsGrow, LeaseAhead

LEMMA RowCreated ==
    ASSUME IInv, NEW d \in Delivery, ~Exists(d), del' = [del EXCEPT ![d] = NewRow]
    PROVE  RowsGrow /\ LeaseAhead' /\ Exists(d)'
<1>1. \A c \in Delivery : del[c].count \in Nat /\ del[c].lease \in Nat
  BY DEF IInv, TypeOK, Row
<1>2. \A c \in Delivery : c # d => del'[c] = del[c]
  BY DEF IInv, TypeOK
<1>3. del'[d] = NewRow /\ del[d] = NoRow
  BY DEF IInv, TypeOK, LeaseAhead
<1>4. /\ Exists(d)' /\ del'[d].count = 0 /\ del'[d].lease = 1
      /\ del[d].count = 0 /\ del[d].lease = 0
  BY <1>3 DEF Exists, NewRow, NoRow
<1>5. LeaseAhead'
  BY <1>2, <1>4 DEF IInv, LeaseAhead, Exists
<1> QED  BY <1>1, <1>2, <1>4, <1>5 DEF RowsGrow, Exists

----------------------------------------------------------------------------
(* One lemma per group of actions.                                          *)

\* A worker that returns relies on nothing.
LEMMA Returned ==
    ASSUME TypeOK, NEW w \in Workers, Return(w)
    PROVE  OthersRest(w) /\ Fits(pc[w], loc[w])' /\ pc'[w] # "send"
BY DEF TypeOK, Return, Move, Goto, OthersRest, Fits, Busy

\* What a worker relies on after its read.
LEMMA ReadFits ==
    ASSUME IInv, NEW w \in Workers, NEW d \in Delivery, Exists(d), Read(w, d), del' = del
    PROVE  OthersRest(w) /\ Fits(pc[w], loc[w])' /\ pc'[w] # "send"
<1>1. PICK p, l :
        /\ p \in {"claim", "cancel"}
        /\ pc'[w] = p /\ loc'[w] = l /\ OthersRest(w)
        /\ l = [NoLocals EXCEPT !.d = d, !.n = del[d].count + 1, !.lease = del[d].lease]
  BY DEF IInv, TypeOK, Read, Move, Goto, OthersRest
<1>2. l.d = d /\ l.n = del[d].count + 1 /\ l.lease = del[d].lease
  BY <1>1 DEF NoLocals
<1>3. del[d].count \in Nat /\ del[d].lease = del[d].count + 1
  BY DEF IInv, TypeOK, Row, LeaseAhead
<1>4. l.n \in Nat \ {0} /\ l.lease = l.n /\ l.lease <= del'[d].lease
  BY <1>2, <1>3
<1>5. Exists(d)'
  BY DEF Exists
<1>6. Fits(p, l)'
  BY <1>1, <1>2, <1>4, <1>5 DEF Fits
<1> QED  BY <1>1, <1>6 DEF Fits

LEMMA FanKeeps ==
    ASSUME IInv, TypeOK', NEW w \in Workers, FanOut(w) \/ FanCreate(w) \/ FanDone(w)
    PROVE  IInv'
<1>1. CASE FanOut(w)
  <2>1. OthersRest(w) /\ pc'[w] = "fan_create"
    BY <1>1 DEF IInv, TypeOK, FanOut, Move, Goto, OthersRest
  <2>2. Fits(pc[w], loc[w])' /\ del' = del /\ sent' = sent /\ attempts' = attempts
    BY <1>1, <2>1 DEF FanOut, Fits, Busy
  <2> QED  BY <2>1, <2>2, SameRows, QuietStep
<1>2. CASE FanCreate(w)
  <2>1. OthersRest(w) /\ pc'[w] = "fan_create"
    BY <1>2 DEF IInv, TypeOK, FanCreate, OthersRest
  <2>2. Fits(pc[w], loc[w])' /\ sent' = sent /\ attempts' = attempts
    BY <1>2, <2>1 DEF FanCreate, Fits, Busy
  <2>3. RowsGrow /\ LeaseAhead'
    <3>1. PICK s \in loc[w].subs : del' = del \/ (~Exists(<<s, 1>>) /\ del' = [del EXCEPT ![<<s, 1>>] = NewRow])
      BY <1>2 DEF FanCreate
    <3>2. <<s, 1>> \in Delivery
      BY BoundsAssumption DEF IInv, TypeOK, Locals, Delivery
    <3> QED  BY <3>1, <3>2, SameRows, RowCreated
  <2> QED  BY <2>1, <2>2, <2>3, QuietStep
<1>3. CASE FanDone(w)
  <2>1. Return(w) /\ del' = del /\ sent' = sent /\ attempts' = attempts
    BY <1>3 DEF FanDone
  <2> QED  BY <2>1, Returned, SameRows, QuietStep DEF IInv
<1> QED  BY <1>1, <1>2, <1>3

LEMMA RequestKeeps ==
    ASSUME IInv, TypeOK', NEW w \in Workers,
           \/ \E d \in Delivery : Execute(w, d) \/ ReplayRead(w, d)
           \/ \E s \in Subs : PatchRead(w, s) \/ DeleteRead(w, s)
           \/ SubWrite(w) \/ Abort(w)
    PROVE  IInv'
<1>1. del' = del /\ sent' = sent /\ attempts' = attempts
  BY DEF Execute, ReplayRead, PatchRead, DeleteRead, SubWrite, Abort
<1>2. OthersRest(w) /\ Fits(pc[w], loc[w])' /\ pc'[w] # "send"
  <2>1. ASSUME NEW d \in Delivery, Execute(w, d)
        PROVE  OthersRest(w) /\ Fits(pc[w], loc[w])' /\ pc'[w] # "send"
    BY <2>1, <1>1, ReadFits DEF Execute
  <2>2. ASSUME NEW d \in Delivery, ReplayRead(w, d)
        PROVE  OthersRest(w) /\ Fits(pc[w], loc[w])' /\ pc'[w] # "send"
    <3>1. OthersRest(w) /\ pc'[w] = "replay_create" /\ loc'[w].d = d
      BY <2>2 DEF IInv, TypeOK, ReplayRead, Move, Goto, OthersRest, NoLocals
    <3>2. Replayed(d) \in Delivery
      BY <2>2, BoundsAssumption DEF ReplayRead, Replayed, Delivery
    <3>3. Exists(d)'
      BY <2>2, <1>1 DEF ReplayRead, Exists
    <3> QED  BY <3>1, <3>2, <3>3 DEF Fits, Replayed
  <2>3. ASSUME NEW s \in Subs, PatchRead(w, s) \/ DeleteRead(w, s)
        PROVE  OthersRest(w) /\ Fits(pc[w], loc[w])' /\ pc'[w] # "send"
    <3>1. OthersRest(w) /\ pc'[w] = "sub_write"
      BY <2>3 DEF IInv, TypeOK, PatchRead, DeleteRead, Move, Goto, OthersRest
    <3> QED  BY <3>1 DEF Fits, Busy
  <2>4. CASE SubWrite(w) \/ Abort(w)
    BY <2>4, Returned DEF IInv, SubWrite, Abort
  <2> QED  BY <2>1, <2>2, <2>3, <2>4
<1> QED  BY <1>1, <1>2, SameRows, QuietStep

LEMMA ReplayKeeps ==
    ASSUME IInv, TypeOK', NEW w \in Workers,
           ReplayCreate(w) \/ ReplayMark(w) \/ ReplayExecute(w)
    PROVE  IInv'
<1>1. PICK d \in Delivery : d = loc[w].d /\ Exists(d) /\ Replayed(d) \in Delivery
  BY DEF IInv, Fits, Busy, ReplayCreate, ReplayMark, ReplayExecute
<1>2. sent' = sent /\ attempts' = attempts
  BY DEF ReplayCreate, ReplayMark, ReplayExecute
<1>3. CASE ReplayCreate(w) /\ Exists(Replayed(d))
  BY <1>1, <1>2, <1>3, Returned, SameRows, QuietStep DEF IInv, ReplayCreate
<1>4. CASE ReplayCreate(w) /\ ~Exists(Replayed(d))
  <2>1. OthersRest(w) /\ pc'[w] = "replay_mark" /\ loc'[w].d = d
    BY <1>1, <1>4 DEF IInv, TypeOK, ReplayCreate, Goto, OthersRest
  <2>2. RowsGrow /\ LeaseAhead'
    BY <1>1, <1>4, RowCreated DEF ReplayCreate
  <2>3. Exists(d)'
    BY <1>1, <2>2 DEF RowsGrow
  <2>4. Exists(Replayed(d))'
    BY <1>1, <1>4, RowCreated DEF ReplayCreate
  <2>5. Fits(pc[w], loc[w])'
    BY <1>1, <2>1, <2>3, <2>4 DEF Fits, Replayed
  <2> QED  BY <1>2, <2>1, <2>2, <2>5, QuietStep
<1>5. CASE ReplayMark(w)
  <2>1. OthersRest(w) /\ pc'[w] = "replay_exec" /\ loc' = loc /\ del' = del
    BY <1>5 DEF IInv, TypeOK, ReplayMark, Goto, OthersRest
  <2>2. Exists(Replayed(d))
    BY <1>1, <1>5 DEF IInv, Fits, ReplayMark
  <2>3. Exists(d)' /\ Exists(Replayed(d))'
    BY <1>1, <2>1, <2>2 DEF Exists, Replayed
  <2>4. Fits(pc[w], loc[w])'
    BY <1>1, <2>1, <2>3 DEF Fits, Replayed
  <2> QED  BY <1>2, <2>1, <2>4, SameRows, QuietStep
<1>6. CASE ReplayExecute(w)
  <2>1. Exists(Replayed(d))
    BY <1>1, <1>6 DEF IInv, Fits, ReplayExecute
  <2> QED  BY <1>1, <1>2, <1>6, <2>1, ReadFits, SameRows, QuietStep DEF ReplayExecute
<1> QED  BY <1>3, <1>4, <1>5, <1>6

\* The claim: the lease is still the one that was read, so the attempt count
\* is still one below the number that was read, and nobody holds that number.
LEMMA ClaimKeeps ==
    ASSUME IInv, TypeOK', NEW w \in Workers, Claim(w)
    PROVE  IInv'
<1>1. PICK d \in Delivery, n \in Nat \ {0} :
        d = loc[w].d /\ n = loc[w].n /\ n = loc[w].lease /\ Exists(d)
  BY DEF IInv, Fits, Busy, Claim
<1>2. sent' = sent /\ attempts' = attempts
  BY DEF Claim
<1>3. CASE del[d].lease # n
  BY <1>1, <1>2, <1>3, Returned, SameRows, QuietStep DEF IInv, Claim
<1>4. CASE del[d].lease = n
  <2>1. /\ del' = [del EXCEPT ![d] = [state |-> "IN_FLIGHT", count |-> n, lease |-> n + 1]]
        /\ OthersRest(w) /\ pc'[w] = "send" /\ loc' = loc
    BY <1>1, <1>4 DEF IInv, TypeOK, Claim, Goto, OthersRest
  <2>2. \A c \in Delivery : del[c].count \in Nat /\ del[c].lease \in Nat
    BY DEF IInv, TypeOK, Row
  <2>3. del[d].count = n - 1
    BY <1>1, <1>4, <2>2 DEF IInv, LeaseAhead
  <2>4. /\ \A c \in Delivery : c # d => del'[c] = del[c]
        /\ del'[d].state = "IN_FLIGHT" /\ del'[d].count = n /\ del'[d].lease = n + 1
    BY <2>1 DEF IInv, TypeOK
  <2>5. RowsGrow
    BY <1>1, <1>4, <2>2, <2>3, <2>4 DEF RowsGrow, Exists
  <2>6. LeaseAhead'
    BY <2>4 DEF IInv, LeaseAhead, Exists
  <2>7. <<d, n>> \notin sent
    BY <1>1, <2>3 DEF IInv, AttemptsSent
  <2>8. Fits(pc[w], loc[w])'
    <3>1. pc'[w] = "send" /\ loc'[w].d = d /\ loc'[w].n = n
      BY <1>1, <2>1
    <3>2. Exists(d)' /\ n <= del'[d].count /\ <<d, n>> \notin sent'
      BY <1>2, <2>4, <2>7 DEF Exists
    <3> QED  BY <3>1, <3>2 DEF Fits
  <2>9. \A v \in Workers \ {w} : pc[v] = "send" => Attempt(v) # Attempt(w)'
    <3> SUFFICES ASSUME NEW v \in Workers, pc[v] = "send" PROVE Attempt(v) # Attempt(w)'
      OBVIOUS
    <3>1. loc[v].n \in Nat /\ loc[v].n <= del[loc[v].d].count
      BY DEF IInv, Fits
    <3>2. Attempt(w)' = <<d, n>>
      BY <1>1, <2>1 DEF Attempt
    <3>3. loc[v].d = d => loc[v].n # n
      BY <3>1, <2>3
    <3> QED  BY <3>2, <3>3 DEF Attempt
  <2>10. AttemptsSent'
    <3>1. \A p \in sent : p[1] \in Delivery /\ p[2] \in Nat
      BY DEF IInv, TypeOK
    <3>2. \A c \in Delivery : del'[c].count \in Nat
      BY DEF TypeOK, Row
    <3> QED  BY <1>2, <3>1, <3>2, <2>2, <2>5 DEF IInv, AttemptsSent, RowsGrow
  <2> QED  BY <1>2, <2>1, <2>5, <2>6, <2>8, <2>9, <2>10, WorkerStep
<1> QED  BY <1>3, <1>4

LEMMA PostKeeps ==
    ASSUME IInv, TypeOK', NEW w \in Workers, Send(w) \/ Record(w)
    PROVE  IInv'
<1>1. PICK d \in Delivery, n \in Nat \ {0} : d = loc[w].d /\ n = loc[w].n /\ Exists(d)
  BY DEF IInv, Fits, Busy, Send, Record
<1>2. del' = del
  BY DEF Send, Record
<1>3. RowsGrow /\ LeaseAhead'
  BY <1>2, SameRows
<1>4. CASE Send(w)
  <2>1. /\ sent' = sent \cup {<<d, n>>} /\ attempts' = attempts
        /\ OthersRest(w) /\ pc'[w] = "record" /\ loc'[w].d = d /\ loc'[w].n = n
    BY <1>1, <1>4 DEF IInv, TypeOK, Send, Goto, OthersRest, Locals
  <2>2. Fits(pc[w], loc[w])'
    BY <1>1, <1>2, <2>1 DEF Fits, Exists
  <2>3. n <= del[d].count
    BY <1>1, <1>4 DEF IInv, Fits, Send
  <2>4. AttemptsSent'
    BY <1>2, <2>1, <2>3 DEF IInv, AttemptsSent
  <2>5. pc[w] = "send" /\ Attempt(w) = <<d, n>>
    BY <1>1, <1>4 DEF Send, Attempt
  <2> QED  BY <1>3, <2>1, <2>2, <2>4, <2>5, WorkerStep
<1>5. CASE Record(w) /\ (Recorded(d, n) \/ <<d, n>> \in unfilable)
  <2>1. Return(w) /\ sent' = sent /\ attempts' = attempts
    BY <1>1, <1>5 DEF Record
  <2> QED  BY <1>3, <2>1, Returned, QuietStep DEF IInv
<1>6. CASE Record(w) /\ ~Recorded(d, n) /\ <<d, n>> \notin unfilable
  <2>1. /\ sent' = sent /\ attempts' = attempts \cup {[d |-> d, n |-> n, out |-> loc[w].out]}
        /\ OthersRest(w) /\ pc'[w] = "finish" /\ loc' = loc
    BY <1>1, <1>6 DEF IInv, TypeOK, Record, Goto, OthersRest
  <2>2. <<d, n>> \in sent
    BY <1>1, <1>6 DEF IInv, Fits, Record
  <2>3. AttemptsSent'
    BY <1>2, <2>1, <2>2 DEF IInv, AttemptsSent
  <2>4. Fits(pc[w], loc[w])'
    BY <1>1, <1>2, <2>1 DEF Fits, Exists
  <2> QED  BY <1>3, <2>1, <2>3, <2>4, WorkerStep
<1> QED  BY <1>4, <1>5, <1>6

LEMMA SettleKeeps ==
    ASSUME IInv, TypeOK', NEW w \in Workers, Cancel(w) \/ Finish(w) \/ Bury(w)
    PROVE  IInv'
<1>1. PICK d \in Delivery : d = loc[w].d /\ Exists(d)
  BY DEF IInv, Fits, Busy, Cancel, Finish, Bury
<1>2. sent' = sent /\ attempts' = attempts
  BY DEF Cancel, Finish, Bury
<1>3. CASE Cancel(w)
  <2>1. RowsGrow /\ LeaseAhead'
    BY <1>1, <1>3, StateWritten DEF Cancel, States
  <2> QED  BY <1>2, <1>3, <2>1, Returned, QuietStep DEF IInv, Cancel
<1>4. CASE Finish(w)
  <2>1. Verdict(loc[w].n, loc[w].out) \in States \ {"NONE"}
    BY DEF Verdict, States
  <2>2. RowsGrow /\ LeaseAhead'
    BY <1>1, <1>4, <2>1, StateWritten DEF Finish
  <2>3. CASE Return(w)
    BY <1>2, <2>2, <2>3, Returned, QuietStep DEF IInv
  <2>4. CASE Goto(w, "bury") /\ loc' = loc
    <3>1. OthersRest(w) /\ pc'[w] = "bury" /\ loc'[w].d = d
      BY <1>1, <2>4 DEF IInv, TypeOK, Goto, OthersRest
    <3>2. Exists(d)'
      BY <1>1, <2>2 DEF RowsGrow
    <3>3. Fits(pc[w], loc[w])'
      BY <3>1, <3>2 DEF Fits
    <3> QED  BY <1>2, <2>2, <3>1, <3>3, QuietStep
  <2> QED  BY <1>4, <2>3, <2>4 DEF Finish
<1>5. CASE Bury(w)
  BY <1>2, <1>5, Returned, SameRows, QuietStep DEF IInv, Bury
<1> QED  BY <1>3, <1>4, <1>5

----------------------------------------------------------------------------
(* The theorems.                                                            *)

LEMMA StepKeeps == IInv /\ [Next]_vars => IInv'
<1> SUFFICES ASSUME IInv, [Next]_vars PROVE IInv'
  OBVIOUS
<1>1. CASE UNCHANGED vars
  BY <1>1 DEF vars, IInv, TypeOK, Fits, Apart, LeaseAhead, AttemptsSent, Exists
<1>2. ASSUME NEW w \in Workers, Request(w) \/ Continue(w) \/ Abort(w) PROVE IInv'
  <2>1. TypeOK /\ Fits(pc[w], loc[w])
    BY DEF IInv
  <2>2. CASE FanOut(w) \/ FanCreate(w) \/ FanDone(w)
    BY <2>1, <2>2, FanTyped, FanKeeps
  <2>3. CASE \/ \E d \in Delivery : Execute(w, d) \/ ReplayRead(w, d)
             \/ \E s \in Subs : PatchRead(w, s) \/ DeleteRead(w, s)
             \/ SubWrite(w) \/ Abort(w)
    BY <2>1, <2>3, RequestTyped, RequestKeeps
  <2>4. CASE ReplayCreate(w) \/ ReplayMark(w) \/ ReplayExecute(w)
    BY <2>1, <2>4, ReplayTyped, ReplayKeeps
  <2>5. CASE Cancel(w) \/ Claim(w) \/ Send(w) \/ Record(w) \/ Finish(w) \/ Bury(w)
    BY <2>1, <2>5, DeliverTyped, ClaimKeeps, PostKeeps, SettleKeeps
  <2> QED  BY <1>2, <2>2, <2>3, <2>4, <2>5 DEF Request, Continue
<1> QED  BY <1>1, <1>2 DEF Next

LEMMA AlwaysInv == Spec => []IInv
BY InitInv, StepKeeps, PTL DEF Spec

\* Rows and locals keep the shape the schema gives them.
THEOREM TypeCorrect == Spec => []TypeOK
<1>1. IInv => TypeOK
  BY DEF IInv
<1> QED  BY <1>1, AlwaysInv, PTL

\* The attempts on record are attempts that were POSTed, and each was counted
\* on its delivery before it was POSTed.
THEOREM AttemptsAreSent == Spec => []AttemptsSent
<1>1. IInv => AttemptsSent
  BY DEF IInv
<1> QED  BY <1>1, AlwaysInv, PTL

\* However many workers execute a delivery at once, in whatever state, and
\* wherever they die, the lease hands out each attempt number once.
THEOREM PostedOnce == Spec => SentOnce
<1>1. IInv /\ [Next]_vars =>
        [\A w \in Workers : pc[w] = "send" /\ pc'[w] = "record" =>
           <<loc[w].d, loc[w].n>> \notin sent]_vars
  BY DEF IInv, Fits
<1> QED  BY <1>1, AlwaysInv, PTL DEF Spec, SentOnce

----------------------------------------------------------------------------
(* One worker at a time, no faults, and deliveries executed only when they  *)
(* are due.  The strengthening: what the state of a row says of its last    *)
(* attempt and of the dead letters, and what the worker has read is so.     *)

DueStates == {"PENDING", "RETRY_SCHEDULED"}

Working(w, d) == pc[w] \in {"send", "record", "finish"} /\ loc[w].d = d

Burying(w, d) == pc[w] = "bury" /\ loc[w].d = d

\* The state of the row is the verdict on its last attempt.
Judged(d) == \E a \in attempts : /\ a.d = d /\ a.n = del[d].count
                                 /\ del[d].state = Verdict(a.n, a.out)

RowTells(w, d) ==
    /\ del[d].count <= MaxAttempts
    /\ del[d].state = "IN_FLIGHT" <=> Working(w, d) \/ Unjudged(d)
    /\ del[d].state \in {"NONE", "PENDING"} => del[d].count = 0
    /\ del[d].state \in {"SUCCEEDED", "RETRY_SCHEDULED", "DEAD_LETTER"} => Judged(d)
    /\ Burying(w, d) => del[d].state = "DEAD_LETTER"
    /\ dead[d] # "NONE" => del[d].state = "DEAD_LETTER"
    /\ del[d].state = "DEAD_LETTER" => dead[d] # "NONE" \/ Burying(w, d)

\* What the worker at p with locals l has read is still so.
ReadTells(p, l) ==
    /\ p \in {"cancel", "claim"} => del[l.d].state \in DueStates
    /\ p = "claim" => l.lease = del[l.d].lease
    /\ p \in {"send", "record", "finish"} => l.n = del[l.d].count
    /\ p \in {"send", "record"} => \A a \in attempts : a.d = l.d => a.n # l.n
    /\ p \in {"send", "finish"} => <<l.d, l.n>> \notin unfilable
    /\ p = "finish" => [d |-> l.d, n |-> l.n, out |-> l.out] \in attempts
    /\ p \in {"replay_mark", "replay_exec"} => del[Replayed(l.d)].state = "PENDING"

SInv(w) ==
    /\ IInv
    /\ unfilable \subseteq sent
    /\ \A d \in Delivery : RowTells(w, d)
    /\ ReadTells(pc[w], loc[w])

\* The assumptions under which one worker serves deliveries that are due.
LoneWorker(w) == Workers = {w} /\ Faults = FALSE /\ Callable \subseteq DueStates

Resting == PCs \ {"send", "record", "finish", "bury"}

LEMMA SerialInit ==
    ASSUME Init, NEW w \in Workers PROVE SInv(w)
<1>1. \A d \in Delivery : RowTells(w, d)
  BY DEF Init, RowTells, Working, Burying, Unjudged, NoRow, MaxAttempts
<1>2. ReadTells(pc[w], loc[w])
  BY DEF Init, ReadTells
<1>3. unfilable \subseteq sent
  BY DEF Init
<1> QED  BY <1>1, <1>2, <1>3, InitInv DEF SInv

\* Rows tell the same while a worker that is at none of them reads or returns.
LEMMA RowsTellOn ==
    ASSUME NEW w \in Workers, SInv(w), pc[w] \in Resting, pc'[w] \in Resting,
           del' = del, attempts' = attempts, unfilable' = unfilable, dead' = dead
    PROVE  \A d \in Delivery : RowTells(w, d)'
BY DEF SInv, RowTells, Working, Burying, Judged, Unjudged, Resting

\* A row that is created has not been attempted, and is no dead letter.
LEMMA CreatedTells ==
    ASSUME NEW w \in Workers, SInv(w), pc[w] \in Resting, pc'[w] \in Resting,
           NEW c \in Delivery, ~Exists(c), del' = [del EXCEPT ![c] = NewRow],
           attempts' = attempts, unfilable' = unfilable, dead' = dead
    PROVE  /\ \A d \in Delivery : RowTells(w, d)'
           /\ del'[c].state = "PENDING"
<1>1. del'[c] = NewRow /\ \A d \in Delivery : d # c => del'[d] = del[d]
  BY DEF SInv, IInv, TypeOK
<1>2. del'[c].state = "PENDING" /\ del'[c].count = 0
  BY <1>1 DEF NewRow
<1>3. RowTells(w, c)'
  <2>1. dead[c] = "NONE"
    BY DEF SInv, RowTells, Exists
  <2>2. <<c, 0>> \notin unfilable
    BY DEF SInv, IInv, AttemptsSent
  <2> QED  BY <1>2, <2>1, <2>2 DEF RowTells, Working, Burying, Unjudged, Resting, MaxAttempts
<1>4. \A d \in Delivery : d # c => RowTells(w, d)'
  BY <1>1 DEF SInv, RowTells, Working, Burying, Judged, Unjudged, Resting
<1> QED  BY <1>2, <1>3, <1>4

\* A handler at a place where nothing was read may rely on nothing.
LEMMA NothingRead ==
    ASSUME NEW w \in Workers, pc'[w] \in {"idle", "fan_create", "sub_write", "replay_create", "bury"}
    PROVE  ReadTells(pc[w], loc[w])'
BY DEF ReadTells

LEMMA Rested ==
    ASSUME TypeOK, NEW w \in Workers, Return(w)
    PROVE  pc'[w] = "idle"
BY DEF TypeOK, Return, Move, Goto

\* The read of a delivery that is due.
LEMMA ReadDue ==
    ASSUME NEW w \in Workers, SInv(w), NEW d \in Delivery, del[d].state \in DueStates,
           Read(w, d), del' = del
    PROVE  ReadTells(pc[w], loc[w])' /\ pc'[w] \in Resting
<1>1. PICK p, l : /\ p \in {"claim", "cancel"} /\ pc'[w] = p /\ loc'[w] = l
                  /\ l = [NoLocals EXCEPT !.d = d, !.n = del[d].count + 1, !.lease = del[d].lease]
  BY DEF SInv, IInv, TypeOK, Read, Move, Goto
<1>2. l.d = d /\ l.lease = del[d].lease
  BY <1>1 DEF NoLocals
<1> QED  BY <1>1, <1>2 DEF ReadTells, Resting, PCs

LEMMA SerialRequests ==
    ASSUME NEW w \in Workers, LoneWorker(w), SInv(w), IInv',
           \/ FanOut(w) \/ FanDone(w) \/ SubWrite(w)
           \/ \E d \in Delivery : Execute(w, d) \/ ReplayRead(w, d)
           \/ \E s \in Subs : PatchRead(w, s) \/ DeleteRead(w, s)
    PROVE  SInv(w)'
<1>1. /\ del' = del /\ attempts' = attempts /\ unfilable' = unfilable /\ dead' = dead
      /\ sent' = sent /\ pc[w] \in Resting
  BY DEF FanOut, FanDone, SubWrite, Execute, ReplayRead, PatchRead, DeleteRead, Idle, Resting, PCs
<1>2. pc'[w] \in Resting /\ ReadTells(pc[w], loc[w])'
  <2>1. CASE FanDone(w) \/ SubWrite(w)
    BY <2>1, Rested, NothingRead DEF FanDone, SubWrite, SInv, IInv, Resting, PCs
  <2>2. CASE FanOut(w) \/ \E s \in Subs : PatchRead(w, s) \/ DeleteRead(w, s)
    <3>1. pc'[w] \in {"fan_create", "sub_write"}
      BY <2>2 DEF FanOut, PatchRead, DeleteRead, Move, Goto, SInv, IInv, TypeOK
    <3> QED  BY <3>1, NothingRead DEF Resting, PCs
  <2>3. ASSUME NEW d \in Delivery, ReplayRead(w, d)
        PROVE  pc'[w] \in Resting /\ ReadTells(pc[w], loc[w])'
    <3>1. pc'[w] = "replay_create"
      BY <2>3 DEF ReplayRead, Move, Goto, SInv, IInv, TypeOK
    <3> QED  BY <3>1, NothingRead DEF Resting, PCs
  <2>4. ASSUME NEW d \in Delivery, Execute(w, d)
        PROVE  pc'[w] \in Resting /\ ReadTells(pc[w], loc[w])'
    BY <1>1, <2>4, ReadDue DEF Execute, LoneWorker
  <2> QED  BY <2>1, <2>2, <2>3, <2>4
<1> QED  BY <1>1, <1>2, RowsTellOn DEF SInv

LEMMA SerialCreates ==
    ASSUME NEW w \in Workers, LoneWorker(w), SInv(w), IInv', FanCreate(w) \/ ReplayCreate(w)
    PROVE  SInv(w)'
<1>1. /\ attempts' = attempts /\ unfilable' = unfilable /\ dead' = dead
      /\ sent' = sent /\ pc[w] \in Resting
  BY DEF FanCreate, ReplayCreate, Resting, PCs
<1>2. CASE FanCreate(w)
  <2>1. pc'[w] = "fan_create" /\ pc'[w] \in Resting
    BY <1>2 DEF FanCreate, Resting, PCs
  <2>2. PICK s \in loc[w].subs : \/ del' = del
                                 \/ ~Exists(<<s, 1>>) /\ del' = [del EXCEPT ![<<s, 1>>] = NewRow]
    BY <1>2 DEF FanCreate, LoneWorker
  <2>3. <<s, 1>> \in Delivery
    BY BoundsAssumption DEF SInv, IInv, TypeOK, Locals, Delivery
  <2>4. \A d \in Delivery : RowTells(w, d)'
    BY <1>1, <2>1, <2>2, <2>3, RowsTellOn, CreatedTells
  <2> QED  BY <1>1, <2>1, <2>4, NothingRead DEF SInv
<1>3. CASE ReplayCreate(w) /\ Exists(Replayed(loc[w].d))
  <2>1. del' = del /\ pc'[w] = "idle"
    BY <1>3, Rested DEF ReplayCreate, SInv, IInv
  <2> QED  BY <1>1, <2>1, RowsTellOn, NothingRead DEF SInv, Resting, PCs
<1>4. CASE ReplayCreate(w) /\ ~Exists(Replayed(loc[w].d))
  <2>1. PICK c \in Delivery : c = Replayed(loc[w].d)
    BY <1>4 DEF SInv, IInv, Fits, Busy, ReplayCreate
  <2>2. /\ ~Exists(c) /\ del' = [del EXCEPT ![c] = NewRow]
        /\ pc'[w] = "replay_mark" /\ loc' = loc
    BY <1>4, <2>1 DEF ReplayCreate, Goto, SInv, IInv, TypeOK
  <2>3. pc'[w] \in Resting
    BY <2>2 DEF Resting, PCs
  <2>4. (\A d \in Delivery : RowTells(w, d)') /\ del'[c].state = "PENDING"
    BY <1>1, <2>2, <2>3, CreatedTells
  <2>5. ReadTells(pc[w], loc[w])'
    BY <2>1, <2>2, <2>4 DEF ReadTells, Replayed
  <2> QED  BY <1>1, <2>4, <2>5 DEF SInv
<1> QED  BY <1>2, <1>3, <1>4

LEMMA SerialReplays ==
    ASSUME NEW w \in Workers, LoneWorker(w), SInv(w), IInv', ReplayMark(w) \/ ReplayExecute(w)
    PROVE  SInv(w)'
<1>1. PICK c \in Delivery : c = Replayed(loc[w].d) /\ del[c].state = "PENDING"
  BY DEF SInv, IInv, Fits, ReadTells, ReplayMark, ReplayExecute
<1>2. CASE ReplayMark(w)
  <2>1. /\ pc[w] = "replay_mark" /\ pc'[w] = "replay_exec" /\ loc' = loc
        /\ del' = del /\ attempts' = attempts /\ unfilable' = unfilable /\ sent' = sent
    BY <1>2 DEF ReplayMark, Goto, SInv, IInv, TypeOK
  <2>2. \A d \in Delivery : dead'[d] = "NONE" <=> dead[d] = "NONE"
    BY <1>2 DEF ReplayMark, LoneWorker, SInv, IInv, TypeOK
  <2>3. \A d \in Delivery : RowTells(w, d)'
    BY <2>1, <2>2 DEF SInv, RowTells, Working, Burying, Judged, Unjudged
  <2>4. ReadTells(pc[w], loc[w])'
    BY <1>1, <2>1 DEF ReadTells, Replayed
  <2> QED  BY <2>1, <2>3, <2>4 DEF SInv
<1>3. CASE ReplayExecute(w)
  <2>1. /\ pc[w] \in Resting /\ del' = del /\ attempts' = attempts
        /\ unfilable' = unfilable /\ sent' = sent /\ dead' = dead
    BY <1>3 DEF ReplayExecute, Resting, PCs
  <2>2. ReadTells(pc[w], loc[w])' /\ pc'[w] \in Resting
    BY <1>1, <1>3, <2>1, ReadDue DEF ReplayExecute, DueStates
  <2> QED  BY <2>1, <2>2, RowsTellOn DEF SInv
<1> QED  BY <1>2, <1>3

\* A delivery that is due has an attempt left.
LEMMA DueHasLeft ==
    ASSUME NEW w \in Workers, SInv(w), NEW d \in Delivery, del[d].state \in DueStates
    PROVE  del[d].count + 1 \in 1 .. MaxAttempts
<1>1. del[d].count \in Nat
  BY DEF SInv, IInv, TypeOK, Row
<1>2. CASE del[d].state = "PENDING"
  BY <1>2 DEF SInv, RowTells, MaxAttempts
<1>3. CASE del[d].state = "RETRY_SCHEDULED"
  <2>1. PICK a \in attempts : a.n = del[d].count /\ Verdict(a.n, a.out) = "RETRY_SCHEDULED"
    BY <1>3 DEF SInv, RowTells, Judged
  <2>2. a.n < MaxAttempts
    BY <2>1 DEF Verdict
  <2> QED  BY <1>1, <2>1, <2>2 DEF MaxAttempts
<1> QED  BY <1>2, <1>3 DEF DueStates

LEMMA SerialClaims ==
    ASSUME NEW w \in Workers, LoneWorker(w), SInv(w), IInv', Claim(w) \/ Cancel(w)
    PROVE  SInv(w)'
<1>1. PICK d \in Delivery : d = loc[w].d /\ del[d].state \in DueStates
  BY DEF SInv, IInv, Fits, Busy, ReadTells, Claim, Cancel
<1>2. /\ attempts' = attempts /\ unfilable' = unfilable /\ sent' = sent /\ dead' = dead
      /\ dead[d] = "NONE" /\ ~Unjudged(d)
  BY <1>1 DEF Claim, Cancel, SInv, RowTells, DueStates
<1>3. CASE Cancel(w)
  <2>1. del' = [del EXCEPT ![d].state = "CANCELLED"] /\ pc[w] = "cancel" /\ pc'[w] = "idle"
    BY <1>1, <1>3, Rested DEF Cancel, SInv, IInv
  <2>2. /\ \A c \in Delivery : c # d => del'[c] = del[c]
        /\ del'[d].state = "CANCELLED" /\ del'[d].count = del[d].count
    BY <2>1 DEF SInv, IInv, TypeOK, Row
  <2>3. RowTells(w, d)'
    BY <1>2, <2>1, <2>2 DEF SInv, RowTells, Working, Burying, Unjudged
  <2>4. \A c \in Delivery : c # d => RowTells(w, c)'
    BY <1>2, <2>1, <2>2 DEF SInv, RowTells, Working, Burying, Judged, Unjudged
  <2> QED  BY <1>2, <2>1, <2>3, <2>4, NothingRead DEF SInv
<1>4. CASE Claim(w)
  <2>1. loc[w].lease = del[d].lease
    BY <1>1, <1>4 DEF SInv, ReadTells, Claim
  <2>2. PICK n \in Nat : n = loc[w].n /\ n = del[d].count + 1
    <3>1. loc[w].n \in Nat \ {0} /\ loc[w].lease = loc[w].n
      BY <1>4 DEF SInv, IInv, Fits, Claim
    <3>2. del[d].lease = del[d].count + 1
      BY <1>1 DEF SInv, IInv, LeaseAhead, Exists, DueStates
    <3> QED  BY <2>1, <3>1, <3>2
  <2>3. /\ pc[w] = "claim" /\ pc'[w] = "send" /\ loc' = loc
        /\ del' = [del EXCEPT ![d] = [state |-> "IN_FLIGHT", count |-> n, lease |-> loc[w].lease + 1]]
    BY <1>1, <1>4, <2>1, <2>2 DEF Claim, Goto, SInv, IInv, TypeOK
  <2>4. /\ \A c \in Delivery : c # d => del'[c] = del[c]
        /\ del'[d].state = "IN_FLIGHT" /\ del'[d].count = n
    BY <2>3 DEF SInv, IInv, TypeOK
  <2>5. n <= MaxAttempts
    BY <1>1, <2>2, DueHasLeft
  <2>6. RowTells(w, d)'
    BY <1>1, <1>2, <2>3, <2>4, <2>5 DEF RowTells, Working, Burying
  <2>7. \A c \in Delivery : c # d => RowTells(w, c)'
    BY <1>1, <1>2, <2>3, <2>4 DEF SInv, RowTells, Working, Burying, Judged, Unjudged
  <2>8. \A a \in attempts : a.d = d => a.n # n
    <3>1. \A a \in attempts : a.d = d => a.n <= del[d].count /\ a.n \in Nat
      BY DEF SInv, IInv, AttemptsSent, TypeOK
    <3>2. del[d].count \in Nat
      BY DEF SInv, IInv, TypeOK, Row
    <3> QED  BY <2>2, <3>1, <3>2
  <2>9. <<d, n>> \notin unfilable
    <3>1. \A p \in sent : p[2] <= del[p[1]].count
      BY DEF SInv, IInv, AttemptsSent
    <3>2. del[d].count \in Nat
      BY DEF SInv, IInv, TypeOK, Row
    <3> QED  BY <2>2, <3>1, <3>2 DEF SInv
  <2>10. ReadTells(pc[w], loc[w])'
    BY <1>1, <1>2, <2>2, <2>3, <2>4, <2>8, <2>9 DEF ReadTells
  <2> QED  BY <1>2, <2>6, <2>7, <2>10 DEF SInv
<1> QED  BY <1>3, <1>4

LEMMA SerialPosts ==
    ASSUME NEW w \in Workers, LoneWorker(w), SInv(w), IInv', Send(w) \/ Record(w)
    PROVE  SInv(w)'
<1>1. PICK d \in Delivery : d = loc[w].d
  BY DEF SInv, IInv, Fits, Busy, Send, Record
<1>2. /\ loc[w].n = del[d].count /\ del' = del /\ dead' = dead
      /\ \A a \in attempts : a.d = d => a.n # loc[w].n
  BY <1>1 DEF SInv, ReadTells, Send, Record
<1>3. CASE Send(w)
  <2>1. /\ pc[w] = "send" /\ pc'[w] = "record" /\ attempts' = attempts
        /\ loc'[w].d = d /\ loc'[w].n = loc[w].n
        /\ unfilable' \in {unfilable, unfilable \cup {<<d, loc[w].n>>}}
        /\ sent' = sent \cup {<<d, loc[w].n>>}
    BY <1>1, <1>3 DEF Send, Goto, SInv, IInv, TypeOK, Locals
  <2>2. \A c \in Delivery : RowTells(w, c)'
    BY <1>1, <1>2, <2>1 DEF SInv, RowTells, Working, Burying, Judged, Unjudged
  <2>3. ReadTells(pc[w], loc[w])'
    BY <1>2, <2>1 DEF ReadTells
  <2>4. unfilable' \subseteq sent'
    BY <2>1 DEF SInv
  <2> QED  BY <2>2, <2>3, <2>4 DEF SInv
<1>4. CASE Record(w) /\ <<d, loc[w].n>> \in unfilable
  <2>1. /\ pc[w] = "record" /\ pc'[w] = "idle" /\ attempts' = attempts
        /\ unfilable' = unfilable /\ sent' = sent
    BY <1>1, <1>4, Rested DEF Record, SInv, IInv
  <2>2. \A c \in Delivery : RowTells(w, c)'
    BY <1>1, <1>2, <1>4, <2>1 DEF SInv, RowTells, Working, Burying, Judged, Unjudged
  <2> QED  BY <2>1, <2>2, NothingRead DEF SInv
<1>5. CASE Record(w) /\ <<d, loc[w].n>> \notin unfilable
  <2>1. ~Recorded(d, loc[w].n)
    BY <1>2 DEF Recorded
  <2>2. /\ unfilable' = unfilable /\ sent' = sent
        /\ pc[w] = "record" /\ pc'[w] = "finish" /\ loc' = loc
        /\ attempts' = attempts \cup {[d |-> d, n |-> loc[w].n, out |-> loc[w].out]}
    BY <1>1, <1>5, <2>1 DEF Record, Goto, SInv, IInv, TypeOK
  <2>3. \A c \in Delivery : RowTells(w, c)'
    <3>1. \A c \in Delivery : Judged(c) => Judged(c)'
      BY <1>2, <2>2 DEF Judged
    <3> QED  BY <1>1, <1>2, <2>2, <3>1 DEF SInv, RowTells, Working, Burying, Unjudged
  <2>4. ReadTells(pc[w], loc[w])'
    BY <1>1, <1>2, <1>5, <2>2 DEF ReadTells
  <2> QED  BY <2>2, <2>3, <2>4 DEF SInv
<1> QED  BY <1>1, <1>3, <1>4, <1>5

LEMMA SerialSettles ==
    ASSUME NEW w \in Workers, LoneWorker(w), SInv(w), IInv', Finish(w) \/ Bury(w)
    PROVE  SInv(w)'
<1>1. PICK d \in Delivery : d = loc[w].d
  BY DEF SInv, IInv, Fits, Busy, Finish, Bury
<1>2. attempts' = attempts /\ unfilable' = unfilable /\ sent' = sent
  BY DEF Finish, Bury
<1>3. CASE Finish(w)
  <2>1. PICK to : to = Verdict(loc[w].n, loc[w].out)
    OBVIOUS
  <2>2. to \in {"SUCCEEDED", "RETRY_SCHEDULED", "DEAD_LETTER"}
    BY <2>1 DEF Verdict
  <2>3. /\ pc[w] = "finish" /\ dead' = dead /\ del' = [del EXCEPT ![d].state = to]
        /\ \/ to = "DEAD_LETTER" /\ pc'[w] = "bury" /\ loc' = loc
           \/ to # "DEAD_LETTER" /\ pc'[w] = "idle"
    BY <1>1, <1>3, <2>1, Rested DEF Finish, Goto, SInv, IInv, TypeOK
  <2>4. /\ \A c \in Delivery : c # d => del'[c] = del[c]
        /\ del'[d].state = to /\ del'[d].count = del[d].count
    BY <2>3 DEF SInv, IInv, TypeOK, Row
  <2>5. del[d].state = "IN_FLIGHT" /\ dead[d] = "NONE" /\ del[d].count <= MaxAttempts
    BY <1>1, <2>3 DEF SInv, RowTells, Working, Unjudged
  <2>6. Judged(d)'
    <3>1. [d |-> d, n |-> loc[w].n, out |-> loc[w].out] \in attempts /\ loc[w].n = del[d].count
      BY <1>1, <2>3 DEF SInv, ReadTells
    <3> QED  BY <1>2, <2>1, <2>4, <3>1 DEF Judged
  <2>7. RowTells(w, d)'
    <3>1. ~Unjudged(d)'
      BY <1>1, <1>2, <2>3, <2>4 DEF SInv, ReadTells, Unjudged
    <3> QED  BY <1>1, <2>2, <2>3, <2>4, <2>5, <2>6, <3>1 DEF RowTells, Working, Burying
  <2>8. \A c \in Delivery : c # d => RowTells(w, c)'
    BY <1>1, <1>2, <2>3, <2>4 DEF SInv, RowTells, Working, Burying, Judged, Unjudged
  <2> QED  BY <1>2, <2>3, <2>7, <2>8, NothingRead DEF SInv
<1>4. CASE Bury(w)
  <2>1. /\ pc[w] = "bury" /\ pc'[w] = "idle" /\ del' = del
        /\ dead' = [dead EXCEPT ![d] = IF @ = "NONE" THEN "DEAD" ELSE @]
    BY <1>1, <1>4, Rested DEF Bury, LoneWorker, SInv, IInv
  <2>2. (\A c \in Delivery : c # d => dead'[c] = dead[c]) /\ dead'[d] # "NONE"
    BY <2>1 DEF SInv, IInv, TypeOK
  <2>3. RowTells(w, d)'
    BY <1>1, <1>2, <2>1, <2>2 DEF SInv, RowTells, Working, Burying, Judged, Unjudged
  <2>4. \A c \in Delivery : c # d => RowTells(w, c)'
    BY <1>1, <1>2, <2>1, <2>2 DEF SInv, RowTells, Working, Burying, Judged, Unjudged
  <2> QED  BY <1>2, <2>1, <2>3, <2>4, NothingRead DEF SInv
<1> QED  BY <1>3, <1>4

LEMMA SerialKeeps ==
    ASSUME NEW w \in Workers, LoneWorker(w), SInv(w), [Next]_vars
    PROVE  SInv(w)'
<1>1. IInv'
  BY StepKeeps DEF SInv
<1>2. CASE UNCHANGED vars
  BY <1>1, <1>2 DEF vars, SInv, RowTells, ReadTells, Working, Burying, Judged, Unjudged
<1>3. CASE Request(w) \/ Continue(w)
  BY <1>1, <1>3, SerialRequests, SerialCreates, SerialReplays, SerialClaims, SerialPosts,
     SerialSettles DEF Request, Continue
<1> QED  BY <1>2, <1>3 DEF Next, LoneWorker, Abort

LEMMA AlwaysTells ==
    ASSUME NEW w \in Workers, LoneWorker(w)
    PROVE  Spec => []SInv(w)
<1>1. Init => SInv(w)
  BY SerialInit
<1>2. SInv(w) /\ [Next]_vars => SInv(w)'
  BY SerialKeeps
<1> QED  BY <1>1, <1>2, PTL DEF Spec

\* With a single worker, whatever becomes of the subscription, the state of a
\* delivery is the verdict on its last attempt, or IN_FLIGHT if the answer to
\* that attempt could not be filed, and no delivery is POSTed more than four
\* times, however many requests execute or replay it.
THEOREM StatesAreVerdicts ==
    ASSUME NEW w, LoneWorker(w)
    PROVE  Spec => []StateIsVerdict
<1>1. w \in Workers
  BY DEF LoneWorker
<1>2. SInv(w) => StateIsVerdict
  <2> SUFFICES ASSUME SInv(w), NEW d \in Delivery
               PROVE  /\ Exists(d) /\ ~At(d) /\ del[d].state \notin {"PENDING", "CANCELLED"} =>
                           \/ del[d].state = "IN_FLIGHT" /\ Unjudged(d)
                           \/ \E a \in attempts : /\ a.d = d /\ a.n = del[d].count
                                                  /\ del[d].state = Verdict(a.n, a.out)
                      /\ Cardinality({p \in sent : p[1] = d}) <= 4
    BY DEF StateIsVerdict
  <2>1. ASSUME Exists(d), ~At(d), del[d].state \notin {"PENDING", "CANCELLED"}
        PROVE  \/ del[d].state = "IN_FLIGHT" /\ Unjudged(d)
               \/ \E a \in attempts : /\ a.d = d /\ a.n = del[d].count
                                      /\ del[d].state = Verdict(a.n, a.out)
    <3>1. ~Working(w, d)
      BY <1>1, <2>1 DEF At, Working
    <3>2. CASE del[d].state = "IN_FLIGHT"
      BY <3>1, <3>2 DEF SInv, RowTells
    <3>3. CASE del[d].state # "IN_FLIGHT"
      <4>1. del[d].state \in {"SUCCEEDED", "RETRY_SCHEDULED", "DEAD_LETTER"}
        BY <2>1, <3>3 DEF SInv, IInv, TypeOK, Row, States, Exists
      <4> QED  BY <4>1 DEF SInv, RowTells, Judged
    <3> QED  BY <3>2, <3>3
  <2>2. Cardinality({p \in sent : p[1] = d}) <= 4
    <3>1. \A p \in sent : p[1] = d => p \in {d} \X (1 .. 4)
      <4>1. del[d].count \in Nat /\ del[d].count <= 4
        BY DEF SInv, IInv, TypeOK, Row, RowTells, MaxAttempts
      <4>2. \A p \in sent : p \in Delivery \X Nat /\ 1 <= p[2] /\ p[2] <= del[p[1]].count
        BY DEF SInv, IInv, TypeOK, AttemptsSent
      <4> QED  BY <4>1, <4>2
    <3>2. IsFiniteSet({d} \X (1 .. 4)) /\ Cardinality({d} \X (1 .. 4)) = 4
      <4>1. IsFiniteSet({d}) /\ Cardinality({d}) = 1
        BY FS_Singleton
      <4>2. IsFiniteSet(1 .. 4) /\ Cardinality(1 .. 4) = 4
        <5>1. 1 \in Int /\ 4 \in Int
          OBVIOUS
        <5>2. IsFiniteSet(1 .. 4) /\ Cardinality(1 .. 4) = IF 1 > 4 THEN 0 ELSE 4 - 1 + 1
          BY <5>1, FS_Interval, Zenon
        <5>3. (IF 1 > 4 THEN 0 ELSE 4 - 1 + 1) = 4
          OBVIOUS
        <5> QED  BY <5>2, <5>3
      <4> QED  BY <4>1, <4>2, FS_Product
    <3>3. {p \in sent : p[1] = d} \subseteq {d} \X (1 .. 4)
      BY <3>1
    <3> QED  BY <3>2, <3>3, FS_Subset
  <2> QED  BY <2>1, <2>2
<1> QED  BY <1>1, <1>2, AlwaysTells, PTL

\* With a single worker and no failing statement the deliveries given up are
\* those that an operator finds among the dead letters.
THEOREM DeadLettersAreListed ==
    ASSUME NEW w, LoneWorker(w)
    PROVE  Spec => []DeadLettersListed
<1>1. w \in Workers
  BY DEF LoneWorker
<1>2. SInv(w) => DeadLettersListed
  BY <1>1 DEF SInv, RowTells, DeadLettersListed, At, Burying
<1> QED  BY <1>1, <1>2, AlwaysTells, PTL
=============================================================================
