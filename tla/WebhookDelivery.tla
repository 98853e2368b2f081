-------------------------- MODULE WebhookDelivery --------------------------
(***************************************************************************)
(* Delivery of ONE domain event to the organisation's webhooks, as         *)
(* WebhookDispatchService.fanOutEvent, WebhookDeliveryService              *)
(* .executeDelivery and the routes that replay a delivery or change a      *)
(* subscription run it.                                                    *)
(*                                                                         *)
(* Workers share only the Postgres rows: the event's dispatch state, one   *)
(* delivery row per subscription and replay generation, the append-only    *)
(* attempts and the dead letters.  One action is one database statement,   *)
(* or the POST to the receiver, of one worker.                             *)
(*                                                                         *)
(* The repository holds no queue consumer: in src/ only a replay executes  *)
(* a delivery.  Whoever else calls fanOutEvent and executeDelivery is the  *)
(* environment here (Ops, Callable), and may call them twice at once.      *)
(*                                                                         *)
(* Abstracted: filters and projections (every subscription wants the       *)
(* event), signing, headers, metrics, the owner's alert, the back-off time *)
(* (a scheduled retry may come at any time).                               *)
(***************************************************************************)
EXTENDS Naturals, FiniteSets

CONSTANTS
    Workers,    \* workers that may be executing at once
    Subs,       \* webhook subscriptions of the organisation
    Ops,        \* requests that may arrive
    Callable,   \* states of a delivery in which the environment executes it
    Faults,     \* TRUE: a worker may die, or a statement throw, anywhere
    MaxGen,     \* bound: replay generations
    MaxCount    \* bound: attempts begun per delivery

ASSUME FaultsAssumption == Faults \in BOOLEAN
ASSUME BoundsAssumption == MaxGen \in Nat \ {0} /\ MaxCount \in Nat

VARIABLES
    event,      \* dispatchState of the domain event
    sub,        \* sub[s]: status of the subscription ("deleted": deletedAt is set)
    del,        \* the webhookDelivery rows; state = "NONE" where there is none
    attempts,   \* the webhookAttempt rows: delivery, attempt number, outcome
    sent,       \* attempts POSTed to a receiver
    unfilable,  \* those of them whose answer no webhookAttempt row can hold
    dead,       \* the webhookDeadLetter rows: "NONE", "DEAD" or "REPLAYED"
    pc,         \* where each worker is
    loc         \* what each worker remembers from its earlier reads

vars == <<event, sub, del, attempts, sent, unfilable, dead, pc, loc>>

----------------------------------------------------------------------------
(* Rows *)

\* A delivery is identified by its subscription and replay generation.
Delivery == Subs \X (1 .. MaxGen)

States == {"NONE", "PENDING", "IN_FLIGHT", "SUCCEEDED", "RETRY_SCHEDULED",
           "DEAD_LETTER", "CANCELLED"}

Row == [state : States, count : Nat, lease : Nat]

NoRow  == [state |-> "NONE", count |-> 0, lease |-> 0]
NewRow == [state |-> "PENDING", count |-> 0, lease |-> 1]

\* ok: 2xx; retriable: no answer, 408, 429, 5xx; terminal: anything else.
Outcomes == {"ok", "retriable", "terminal"}

MaxAttempts == 4    \* 1 initial + 3 retries

Exists(d) == del[d].state # "NONE"

----------------------------------------------------------------------------
(* Workers *)

PCs == {"idle", "fan_create", "replay_create", "replay_mark", "replay_exec",
        "cancel", "claim", "send", "record", "finish", "bury", "sub_write"}

NoDelivery == <<>>

\* d: the delivery at hand; n, lease: attempt number and lease version from
\* its read; out: the receiver's answer; subs: subscriptions still to fan out
\* to, or the one to write, with its new status.
NoLocals == [d |-> NoDelivery, n |-> 0, lease |-> 0, out |-> "ok", subs |-> {},
             status |-> "active"]

Locals == [d : Delivery \cup {NoDelivery}, n : Nat, lease : Nat, out : Outcomes,
           subs : SUBSET Subs, status : {"active", "disabled", "deleted"}]

Goto(w, label) == pc' = [pc EXCEPT ![w] = label]

Move(w, label, l) == Goto(w, label) /\ loc' = [loc EXCEPT ![w] = l]

Return(w) == Move(w, "idle", NoLocals)

Idle(w, op) == op \in Ops /\ pc[w] = "idle"

Init ==
    /\ event = "PENDING"
    /\ sub = [s \in Subs |-> "active"]
    /\ del = [d \in Delivery |-> NoRow]
    /\ attempts = {} /\ sent = {} /\ unfilable = {}
    /\ dead = [d \in Delivery |-> "NONE"]
    /\ pc = [w \in Workers |-> "idle"]
    /\ loc = [w \in Workers |-> NoLocals]

----------------------------------------------------------------------------
(* Fan-out *)

FanOut(w) ==
    /\ Idle(w, "fanOutEvent")
    /\ Move(w, "fan_create", [NoLocals EXCEPT !.subs = {s \in Subs : sub[s] = "active"}])
    /\ UNCHANGED <<event, sub, del, attempts, sent, unfilable, dead>>

\* One row per subscription; an existing one is left alone (P2002), and any
\* other failure is logged and skipped.
FanCreate(w) ==
    /\ pc[w] = "fan_create"
    /\ \E s \in loc[w].subs :
         /\ loc' = [loc EXCEPT ![w].subs = @ \ {s}]
         /\ \/ del' = IF Exists(<<s, 1>>) THEN del ELSE [del EXCEPT ![<<s, 1>>] = NewRow]
            \/ Faults /\ UNCHANGED del
    /\ UNCHANGED <<event, sub, attempts, sent, unfilable, dead, pc>>

FanDone(w) ==
    /\ pc[w] = "fan_create"
    /\ loc[w].subs = {}
    /\ event' = "DISPATCHED"
    /\ Return(w)
    /\ UNCHANGED <<sub, del, attempts, sent, unfilable, dead>>

----------------------------------------------------------------------------
(* executeDelivery *)

\* The read: attempt number and lease version are remembered from here on.
Read(w, d) ==
    Move(w, IF sub[d[1]] = "active" THEN "claim" ELSE "cancel",
         [NoLocals EXCEPT !.d = d, !.n = del[d].count + 1, !.lease = del[d].lease])

Execute(w, d) ==
    /\ Idle(w, "executeDelivery")
    /\ Exists(d) /\ del[d].state \in Callable
    /\ del[d].count < MaxCount
    /\ Read(w, d)
    /\ UNCHANGED <<event, sub, del, attempts, sent, unfilable, dead>>

Cancel(w) ==
    /\ pc[w] = "cancel"
    /\ del' = [del EXCEPT ![loc[w].d].state = "CANCELLED"]
    /\ Return(w)
    /\ UNCHANGED <<event, sub, attempts, sent, unfilable, dead>>

\* Fault: the update is by id alone, without the lease version.
ClaimUnfenced(w) ==
    /\ pc[w] = "claim"
    /\ del' = [del EXCEPT ![loc[w].d] =
                 [state |-> "IN_FLIGHT", count |-> loc[w].n, lease |-> loc[w].lease + 1]]
    /\ Goto(w, "send")
    /\ UNCHANGED <<event, sub, attempts, sent, unfilable, dead, loc>>

\* updateMany on the lease version that was read: a compare-and-set.
Claim(w) ==
    LET d == loc[w].d
    IN  /\ pc[w] = "claim"
        /\ \/ /\ del[d].lease = loc[w].lease
              /\ del' = [del EXCEPT ![d] = [state |-> "IN_FLIGHT", count |-> loc[w].n,
                                            lease |-> loc[w].lease + 1]]
              /\ Goto(w, "send")
              /\ UNCHANGED loc
           \/ /\ del[d].lease # loc[w].lease
              /\ Return(w)
              /\ UNCHANGED del
        /\ UNCHANGED <<event, sub, attempts, sent, unfilable, dead>>

\* The POST; the receiver may answer anything, or nothing.  The transport
\* cuts an answer at 2048 characters, the row holds 2000, and no zero byte.
Send(w) ==
    /\ pc[w] = "send"
    /\ sent' = sent \cup {<<loc[w].d, loc[w].n>>}
    /\ unfilable' \in {unfilable, unfilable \cup {<<loc[w].d, loc[w].n>>}}
    /\ \E out \in Outcomes : loc' = [loc EXCEPT ![w].out = out]
    /\ Goto(w, "record")
    /\ UNCHANGED <<event, sub, del, attempts, dead>>

Recorded(d, n) == \E a \in attempts : a.d = d /\ a.n = n

\* Attempts are append-only, and unique by delivery and number.  A second
\* insert throws out of the worker, and so does an answer that the row cannot
\* hold: the delivery stays IN_FLIGHT, and nobody comes back to it.
Record(w) ==
    LET d == loc[w].d
        n == loc[w].n
        throws == Recorded(d, n) \/ <<d, n>> \in unfilable
    IN  /\ pc[w] = "record"
        /\ \/ /\ ~throws
              /\ attempts' = attempts \cup {[d |-> d, n |-> n, out |-> loc[w].out]}
              /\ Goto(w, "finish")
              /\ UNCHANGED loc
           \/ /\ throws
              /\ Return(w)
              /\ UNCHANGED attempts
        /\ UNCHANGED <<event, sub, del, sent, unfilable, dead>>

\* Fault: one attempt too many is allowed.
VerdictOffByOne(n, out) ==
    CASE out = "ok" -> "SUCCEEDED"
      [] out = "retriable" /\ n <= MaxAttempts -> "RETRY_SCHEDULED"
      [] OTHER -> "DEAD_LETTER"

\* Fault: a delivery given up gets the state of a failed dispatch.
VerdictFailed(n, out) ==
    CASE out = "ok" -> "SUCCEEDED"
      [] out = "retriable" /\ n < MaxAttempts -> "RETRY_SCHEDULED"
      [] OTHER -> "FAILED"

\* What the n-th attempt, answered out, makes of the delivery.
Verdict(n, out) ==
    CASE out = "ok" -> "SUCCEEDED"
      [] out = "retriable" /\ n < MaxAttempts -> "RETRY_SCHEDULED"
      [] OTHER -> "DEAD_LETTER"

\* Fault: a retriable answer returns before the retry is scheduled.
FinishForgetsRetry(w) ==
    LET to == Verdict(loc[w].n, loc[w].out)
    IN  /\ pc[w] = "finish"
        /\ del' = [del EXCEPT ![loc[w].d].state = IF to = "RETRY_SCHEDULED" THEN @ ELSE to]
        /\ IF to = "DEAD_LETTER" THEN Goto(w, "bury") /\ UNCHANGED loc ELSE Return(w)
        /\ UNCHANGED <<event, sub, attempts, sent, unfilable, dead>>

\* Fault: the worker stops once the state is written.
FinishForgetsQueue(w) ==
    /\ pc[w] = "finish"
    /\ del' = [del EXCEPT ![loc[w].d].state = Verdict(loc[w].n, loc[w].out)]
    /\ Return(w)
    /\ UNCHANGED <<event, sub, attempts, sent, unfilable, dead>>

\* The state is written by id, whoever holds the lease by now.
Finish(w) ==
    LET to == Verdict(loc[w].n, loc[w].out)
    IN  /\ pc[w] = "finish"
        /\ del' = [del EXCEPT ![loc[w].d].state = to]
        /\ IF to = "DEAD_LETTER" THEN Goto(w, "bury") /\ UNCHANGED loc ELSE Return(w)
        /\ UNCHANGED <<event, sub, attempts, sent, unfilable, dead>>

\* The upsert into the dead letters leaves an entry that is there; a failure
\* is swallowed.
Bury(w) ==
    LET d == loc[w].d
    IN  /\ pc[w] = "bury"
        /\ \/ dead' = [dead EXCEPT ![d] = IF @ = "NONE" THEN "DEAD" ELSE @]
           \/ Faults /\ UNCHANGED dead
        /\ Return(w)
        /\ UNCHANGED <<event, sub, del, attempts, sent, unfilable>>

----------------------------------------------------------------------------
(* Replay, and changes of a subscription *)

ReplayRead(w, d) ==
    /\ Idle(w, "replay")
    /\ Exists(d)
    /\ d[2] < MaxGen
    /\ Move(w, "replay_create", [NoLocals EXCEPT !.d = d])
    /\ UNCHANGED <<event, sub, del, attempts, sent, unfilable, dead>>

Replayed(d) == <<d[1], d[2] + 1>>

\* The next generation; a second replay of the same one throws (P2002).
ReplayCreate(w) ==
    LET r == Replayed(loc[w].d)
    IN  /\ pc[w] = "replay_create"
        /\ \/ /\ ~Exists(r)
              /\ del' = [del EXCEPT ![r] = NewRow]
              /\ Goto(w, "replay_mark")
              /\ UNCHANGED loc
           \/ /\ Exists(r)
              /\ Return(w)
              /\ UNCHANGED del
        /\ UNCHANGED <<event, sub, attempts, sent, unfilable, dead>>

\* Where there is no dead letter the update throws, and that is swallowed.
ReplayMark(w) ==
    LET d == loc[w].d
    IN  /\ pc[w] = "replay_mark"
        /\ \/ dead' = [dead EXCEPT ![d] = IF @ = "NONE" THEN @ ELSE "REPLAYED"]
           \/ Faults /\ UNCHANGED dead
        /\ Goto(w, "replay_exec")
        /\ UNCHANGED <<event, sub, del, attempts, sent, unfilable, loc>>

ReplayExecute(w) ==
    /\ pc[w] = "replay_exec"
    /\ Read(w, Replayed(loc[w].d))
    /\ UNCHANGED <<event, sub, del, attempts, sent, unfilable, dead>>

\* PATCH writes back the status it read unless the body names one.
PatchRead(w, s) ==
    /\ Idle(w, "patch")
    /\ sub[s] # "deleted"
    /\ \E status \in {sub[s], "active", "disabled"} :
         Move(w, "sub_write", [NoLocals EXCEPT !.subs = {s}, !.status = status])
    /\ UNCHANGED <<event, sub, del, attempts, sent, unfilable, dead>>

DeleteRead(w, s) ==
    /\ Idle(w, "delete")
    /\ sub[s] # "deleted"
    /\ Move(w, "sub_write", [NoLocals EXCEPT !.subs = {s}, !.status = "deleted"])
    /\ UNCHANGED <<event, sub, del, attempts, sent, unfilable, dead>>

\* deletedAt is never taken back.
SubWrite(w) ==
    /\ pc[w] = "sub_write"
    /\ sub' = [s \in Subs |-> IF s \in loc[w].subs /\ sub[s] # "deleted"
                               THEN loc[w].status ELSE sub[s]]
    /\ Return(w)
    /\ UNCHANGED <<event, del, attempts, sent, unfilable, dead>>

\* The worker dies, or a statement throws out of it.
Abort(w) ==
    /\ Faults
    /\ pc[w] # "idle"
    /\ Return(w)
    /\ UNCHANGED <<event, sub, del, attempts, sent, unfilable, dead>>

Request(w) ==
    \/ FanOut(w)
    \/ \E d \in Delivery : Execute(w, d) \/ ReplayRead(w, d)
    \/ \E s \in Subs : PatchRead(w, s) \/ DeleteRead(w, s)

Continue(w) ==
    \/ FanCreate(w) \/ FanDone(w)
    \/ Cancel(w) \/ Claim(w) \/ Send(w) \/ Record(w) \/ Finish(w) \/ Bury(w)
    \/ ReplayCreate(w) \/ ReplayMark(w) \/ ReplayExecute(w)
    \/ SubWrite(w)

Next == \E w \in Workers : Request(w) \/ Continue(w) \/ Abort(w)

Spec == Init /\ [][Next]_vars

\* A worker that has started runs on.  Nobody is bound to execute what is due.
FairSpec == Spec /\ \A w \in Workers : WF_vars(Continue(w))

----------------------------------------------------------------------------
(* Properties *)

\* Rows and locals keep the shape the schema gives them.
TypeOK ==
    /\ event \in {"PENDING", "DISPATCHED"}
    /\ sub \in [Subs -> {"active", "disabled", "deleted"}]
    /\ del \in [Delivery -> Row]
    /\ attempts \subseteq [d : Delivery, n : Nat, out : Outcomes]
    /\ sent \subseteq Delivery \X Nat
    /\ unfilable \subseteq Delivery \X Nat
    /\ dead \in [Delivery -> {"NONE", "DEAD", "REPLAYED"}]
    /\ pc \in [Workers -> PCs]
    /\ loc \in [Workers -> Locals]

\* The lease fences the POST: no attempt of a delivery is ever POSTed twice,
\* however many workers execute it at once and wherever they die.
SentOnce ==
    [][\A w \in Workers : pc[w] = "send" /\ pc'[w] = "record" =>
         <<loc[w].d, loc[w].n>> \notin sent]_vars

\* Every recorded attempt was POSTed, under the number it is recorded with,
\* and every POSTed attempt was counted before (append-only WebhookAttempt).
AttemptsSent ==
    /\ \A a \in attempts : <<a.d, a.n>> \in sent
    /\ \A p \in sent : 1 <= p[2] /\ p[2] <= del[p[1]].count

At(d) == \E w \in Workers : pc[w] # "idle" /\ loc[w].d = d

\* The answer to the last attempt could not be filed.
Unjudged(d) == <<d, del[d].count>> \in unfilable

\* With one worker on a delivery at a time, its state is the verdict on its
\* last attempt: retried while attempts are left, dead after a terminal answer
\* or the fourth attempt, which is the last that is POSTed.  Only an answer
\* that could not be filed leaves it without one, IN_FLIGHT.
StateIsVerdict ==
    \A d \in Delivery :
        /\ Exists(d) /\ ~At(d) /\ del[d].state \notin {"PENDING", "CANCELLED"} =>
             \/ del[d].state = "IN_FLIGHT" /\ Unjudged(d)
             \/ \E a \in attempts : /\ a.d = d /\ a.n = del[d].count
                                    /\ del[d].state = Verdict(a.n, a.out)
        /\ Cardinality({p \in sent : p[1] = d}) <= 4

\* A delivery given up is in the dead letters, where it can be replayed, and
\* nothing else is.
DeadLettersListed ==
    \A d \in Delivery : ~At(d) => (del[d].state = "DEAD_LETTER" <=> dead[d] # "NONE")

\* A replay is carried out, whatever becomes of the subscription and of the
\* delivery it repeats: the delivery it creates is POSTed and judged, or
\* cancelled, unless the answer cannot be filed.  (A delivery that is due, or
\* that fan-out has created, is executed by nothing in the repository.)
ReplaySettles ==
    \A d \in Delivery :
        Exists(d) /\ d[2] > 1 ~>
            \/ del[d].state \in {"SUCCEEDED", "RETRY_SCHEDULED", "DEAD_LETTER", "CANCELLED"}
            \/ del[d].state = "IN_FLIGHT" /\ Unjudged(d)
=============================================================================
