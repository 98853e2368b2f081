--------------------------- MODULE DocumentRequests ---------------------------
(***************************************************************************)
(* POST /api/v1/documents: what a client that retries, a quota and the     *)
(* audit trail may rely on.  The idempotency middleware wraps the handler, *)
(* which checks the quotas, creates the agreement, counts its bytes, logs  *)
(* it and publishes document.created, each by a statement of its own.      *)
(*                                                                         *)
(* One action is one statement with what is decided on its result.  An     *)
(* error that the handler throws is made into an answer before it reaches  *)
(* the middleware, whose catch therefore sees only its own failures.       *)
(* One client, one key and one organisation; documents all have one size.  *)
(* A copy of a document, or one made from a template, is not checked and   *)
(* not counted by the code; a document once stored is not taken back here. *)
(***************************************************************************)
EXTENDS Naturals, Sequences, FiniteSets

CONSTANTS
    Payloads,     \* bodies the client may send
    Requests,     \* requests in flight at once
    MaxDocuments, \* the organisation's maxDocuments
    StorageQuota, \* the user's storageQuotaBytes, in documents
    Lease,        \* leaseSeconds, in ticks
    MaxTime,      \* bound: the clock
    MaxReqs,      \* bound: requests
    Faults        \* TRUE: a statement may fail

ASSUME QuotaAssumption == MaxDocuments \in Nat \ {0} /\ StorageQuota \in Nat \ {0}
ASSUME LeaseAssumption == Lease \in Nat \ {0}
ASSUME BoundsAssumption == MaxTime \in Nat /\ MaxReqs \in Nat
ASSUME FaultsAssumption == Faults \in BOOLEAN

VARIABLES
    record,     \* the idempotency record of the key
    docs,       \* agreements, in the order of their creation
    used,       \* storageUsedBytes, in documents
    copied,     \* history: documents made without a check
    uncounted,  \* history: documents whose bytes have not been added
    log,        \* audit_logs of the organisation
    announced,  \* documents with a document.created event
    clock,
    pc, loc,    \* where each request is, and what it knows
    told,       \* history: documents the client was told of under the key
    lapsed,     \* history: a lease has run out, or the key was given up
    raced,      \* history: checks or logs that another request came between
    left        \* bound: requests still to come

vars == <<record, docs, used, copied, uncounted, log, announced, clock, pc, loc,
          told, lapsed, raced, left>>

bytes   == <<used, copied, uncounted>>
history == <<told, lapsed, raced, left>>

----------------------------------------------------------------------------
(* State *)

Record == [st : {"none", "IN_PROGRESS", "COMPLETED"}, hash : Payloads,
           until : Nat, doc : Nat]

\* keyed: made under the key.
Document == [hash : Payloads, keyed : BOOLEAN]

\* prev: the entry whose hash this one continues, 0 for the first.
Entry == [prev : Nat, at : Nat]

\* doc: the document to be announced, 0 for a copy, which is not.
Locals == [hash : Payloads, keyed : BOOLEAN, until : Nat, doc : Nat, prev : Nat]

PCs == {"idle", "reserve", "reclaim", "count", "storage", "create", "usage",
        "last", "append", "publish", "complete", "drop"}

Init ==
    /\ \E p \in Payloads :
         /\ record = [st |-> "none", hash |-> p, until |-> 0, doc |-> 0]
         /\ loc = [r \in Requests |-> [hash |-> p, keyed |-> FALSE, until |-> 0,
                                       doc |-> 0, prev |-> 0]]
    /\ docs = <<>> /\ used = 0 /\ copied = 0 /\ uncounted = 0
    /\ log = <<>> /\ announced = {} /\ clock = 0
    /\ pc = [r \in Requests |-> "idle"]
    /\ told = {} /\ lapsed = FALSE /\ raced = {} /\ left = MaxReqs

----------------------------------------------------------------------------
(* Requests *)

At(r, label) == pc[r] = label

Goto(r, label) == pc' = [pc EXCEPT ![r] = label]

Move(r, label, l) == Goto(r, label) /\ loc' = [loc EXCEPT ![r] = l]

Return(r) == Move(r, "idle", [loc[r] EXCEPT !.keyed = FALSE, !.until = 0, !.doc = 0, !.prev = 0])

Begin(r) == At(r, "idle") /\ left > 0 /\ left' = left - 1

RanOut == record.st = "IN_PROGRESS" /\ record.until <= clock

\* A lease may have run out before it is written.
Watch == lapsed' = (lapsed \/ RanOut')

Others(r, labels) == \E q \in Requests \ {r} : pc[q] \in labels

----------------------------------------------------------------------------
(* The idempotency middleware *)

\* Without a key the middleware stands aside.
Unkeyed(r, p) ==
    /\ Begin(r)
    /\ Move(r, "count", [loc[r] EXCEPT !.hash = p])
    /\ UNCHANGED <<record, docs, bytes, log, announced, clock, told, lapsed, raced>>

\* Fault: a retry starts over whatever became of the first try.
ReceiveForgetful(r, p) ==
    /\ Begin(r)
    /\ \/ record.st = "none" /\ Goto(r, "reserve")
       \/ record.st # "none" /\ Goto(r, "reclaim")
    /\ loc' = [loc EXCEPT ![r] = [@ EXCEPT !.hash = p, !.keyed = TRUE, !.until = clock + Lease]]
    /\ UNCHANGED <<record, docs, bytes, log, announced, clock, told, lapsed, raced>>

\* Others are refused: the lease is held, or the key had another payload.
Receive(r, p) ==
    /\ Begin(r)
    /\ \/ record.st = "none" /\ Goto(r, "reserve")
       \/ RanOut /\ Goto(r, "reclaim")
    /\ loc' = [loc EXCEPT ![r] = [@ EXCEPT !.hash = p, !.keyed = TRUE, !.until = clock + Lease]]
    /\ UNCHANGED <<record, docs, bytes, log, announced, clock, told, lapsed, raced>>

\* The answer kept is given again.
Replay(r, p) ==
    /\ Begin(r)
    /\ record.st = "COMPLETED" /\ record.hash = p
    /\ told' = told \cup {record.doc}
    /\ UNCHANGED <<record, docs, bytes, log, announced, clock, pc, loc, lapsed, raced>>

\* The unique key lets one request in.
Reserve(r) ==
    /\ At(r, "reserve")
    /\ \/ /\ record.st = "none"
          /\ record' = [record EXCEPT !.st = "IN_PROGRESS", !.hash = loc[r].hash,
                                      !.until = loc[r].until]
          /\ Goto(r, "count") /\ UNCHANGED loc
       \/ record.st # "none" /\ Return(r) /\ UNCHANGED record
    /\ UNCHANGED <<docs, bytes, log, announced, clock, told, raced, left>>
    /\ Watch

\* The record read by its id; another may have taken it over, or dropped it.
Reclaim(r) ==
    /\ At(r, "reclaim")
    /\ \/ /\ record.st # "none"
          /\ record' = [record EXCEPT !.st = "IN_PROGRESS", !.hash = loc[r].hash,
                                      !.until = loc[r].until]
          /\ Goto(r, "count") /\ UNCHANGED loc
       \/ record.st = "none" /\ Return(r) /\ UNCHANGED record
    /\ UNCHANGED <<docs, bytes, log, announced, clock, told, raced, left>>
    /\ Watch

----------------------------------------------------------------------------
(* The handler: uploadAgreementFile or createFromScratch, and the event *)

Room == Len(docs) < MaxDocuments

CountDocuments(r) ==
    /\ At(r, "count")
    /\ IF Room THEN Goto(r, "storage") /\ UNCHANGED loc ELSE Return(r)
    /\ UNCHANGED <<record, docs, bytes, log, announced, clock, history>>

\* Fault: what is added does not count.
CheckStorageBefore(r) ==
    /\ At(r, "storage")
    /\ IF used <= StorageQuota THEN Goto(r, "create") /\ UNCHANGED loc ELSE Return(r)
    /\ UNCHANGED <<record, docs, bytes, log, announced, clock, history>>

CheckStorage(r) ==
    /\ At(r, "storage")
    /\ IF used + 1 <= StorageQuota THEN Goto(r, "create") /\ UNCHANGED loc ELSE Return(r)
    /\ UNCHANGED <<record, docs, bytes, log, announced, clock, history>>

Create(r) ==
    /\ At(r, "create")
    /\ docs' = Append(docs, [hash |-> loc[r].hash, keyed |-> loc[r].keyed])
    /\ Move(r, "usage", [loc[r] EXCEPT !.doc = Len(docs')])
    /\ raced' = IF Others(r, {"storage", "create", "usage"}) THEN raced \cup {"quota"} ELSE raced
    /\ UNCHANGED <<record, bytes, log, announced, clock, told, lapsed, left>>

CountBytes(r) ==
    /\ At(r, "usage")
    /\ used' = used + 1
    /\ Goto(r, "last")
    /\ raced' = IF Others(r, {"create", "usage"}) THEN raced \cup {"quota"} ELSE raced
    /\ UNCHANGED <<record, docs, copied, uncounted, log, announced, clock, loc, told, lapsed, left>>

\* Fault: the oldest entry is continued.
NewestReversed == {k \in 1 .. Len(log) : \A j \in 1 .. Len(log) : log[j].at >= log[k].at}

\* Entries of one instant have no order.
Newest == {k \in 1 .. Len(log) : \A j \in 1 .. Len(log) : log[j].at <= log[k].at}

LogRead(r) ==
    /\ At(r, "last")
    /\ \E k \in IF log = <<>> THEN {0} ELSE Newest : Move(r, "append", [loc[r] EXCEPT !.prev = k])
    /\ UNCHANGED <<record, docs, bytes, log, announced, clock, history>>

LogAppend(r) ==
    /\ At(r, "append")
    /\ log' = Append(log, [prev |-> loc[r].prev, at |-> clock])
    /\ IF loc[r].doc # 0 THEN Goto(r, "publish") /\ UNCHANGED loc ELSE Return(r)
    /\ raced' = IF Others(r, {"append"}) THEN raced \cup {"log"} ELSE raced
    /\ UNCHANGED <<record, docs, bytes, announced, clock, told, lapsed, left>>

Publish(r) ==
    /\ At(r, "publish")
    /\ announced' = announced \cup {loc[r].doc}
    /\ IF loc[r].keyed THEN Goto(r, "complete") /\ UNCHANGED loc ELSE Return(r)
    /\ UNCHANGED <<record, docs, bytes, log, clock, history>>

----------------------------------------------------------------------------
(* The end of a request *)

\* The answer is kept, under the hash the record has by now.
Complete(r) ==
    /\ At(r, "complete")
    /\ \/ /\ record.st # "none"
          /\ record' = [record EXCEPT !.st = "COMPLETED", !.doc = loc[r].doc]
          /\ told' = told \cup {loc[r].doc}
          /\ Return(r)
       \/ /\ record.st = "none" \/ Faults
          /\ Goto(r, "drop")
          /\ UNCHANGED <<record, told, loc>>
    /\ UNCHANGED <<docs, bytes, log, announced, clock, lapsed, raced, left>>

\* The catch gives the key up; a failure to do so is ignored.
Drop(r) ==
    /\ At(r, "drop")
    /\ \/ record' = [record EXCEPT !.st = "none"]
       \/ Faults /\ UNCHANGED record
    /\ lapsed' = TRUE
    /\ Return(r)
    /\ UNCHANGED <<docs, bytes, log, announced, clock, told, raced, left>>

\* A statement fails and the handler answers with the error, or the isolate
\* dies: the record keeps the state it has.
Fail(r) ==
    /\ Faults
    /\ pc[r] \notin {"idle", "drop"}
    /\ uncounted' = IF At(r, "usage") THEN uncounted + 1 ELSE uncounted
    /\ Return(r)
    /\ UNCHANGED <<record, docs, used, copied, log, announced, clock, history>>

----------------------------------------------------------------------------
(* The rest of the system, and the specification *)

\* cloneAgreement and instantiateTemplate, which log like the others.
Copy(r, p) ==
    /\ Begin(r)
    /\ docs' = Append(docs, [hash |-> p, keyed |-> FALSE])
    /\ copied' = copied + 1 /\ uncounted' = uncounted + 1
    /\ Goto(r, "last")
    /\ UNCHANGED <<record, used, log, announced, clock, loc, told, lapsed, raced>>

\* A handler that logs inside its transaction, under the tenant's lock.
LogLocked ==
    /\ left > 0 /\ left' = left - 1
    /\ \E k \in IF log = <<>> THEN {0} ELSE Newest :
         log' = Append(log, [prev |-> k, at |-> clock])
    /\ raced' = IF \E q \in Requests : At(q, "append") THEN raced \cup {"log"} ELSE raced
    /\ UNCHANGED <<record, docs, bytes, announced, clock, pc, loc, told, lapsed>>

Tick ==
    /\ clock < MaxTime /\ clock' = clock + 1
    /\ UNCHANGED <<record, docs, bytes, log, announced, pc, loc, told, raced, left>>
    /\ Watch

Handler(r) ==
    \/ CountDocuments(r) \/ CheckStorage(r) \/ Create(r) \/ CountBytes(r)
    \/ LogRead(r) \/ LogAppend(r) \/ Publish(r)

Next ==
    \/ \E r \in Requests, p \in Payloads : Unkeyed(r, p) \/ Receive(r, p) \/ Replay(r, p) \/ Copy(r, p)
    \/ \E r \in Requests :
         Reserve(r) \/ Reclaim(r) \/ Handler(r) \/ Complete(r) \/ Drop(r) \/ Fail(r)
    \/ LogLocked \/ Tick

Spec == Init /\ [][Next]_vars

----------------------------------------------------------------------------
(* Properties *)

\* The variables have the types of schema and code.
TypeOK ==
    /\ record \in Record /\ docs \in Seq(Document)
    /\ used \in Nat /\ copied \in Nat /\ uncounted \in Nat
    /\ log \in Seq(Entry)
    /\ announced \subseteq 1 .. Len(docs) /\ told \subseteq 1 .. Len(docs)
    /\ clock \in 0 .. MaxTime
    /\ pc \in [Requests -> PCs] /\ loc \in [Requests -> Locals]
    /\ lapsed \in BOOLEAN /\ raced \subseteq {"quota", "log"} /\ left \in 0 .. MaxReqs

Keyed == {k \in 1 .. Len(docs) : docs[k].keyed}

\* "Ensures safe retries": however often and however closely a client retries
\* while the lease lasts, and ever after if the answer could be kept, a key makes
\* one document and all answers name it.
OneDocument == ~lapsed => Cardinality(Keyed) <= 1 /\ Cardinality(told) <= 1

\* What is stored, and not only what has been counted, exceeds a quota by no more
\* than the documents that the code never held against it: copies, and those whose
\* creation was not followed by the addition of their bytes; unless a request
\* creates or adds between another's check and its own creation or addition
\* (uploadAgreementFile counts, creates, and then adds, in separate statements).
QuotaKept ==
    "quota" \notin raced =>
      Len(docs) <= MaxDocuments + copied /\ Len(docs) <= StorageQuota + uncounted

\* The audit trail is one chain, each entry continuing the one before, unless a
\* log came between another's look-up and its entry, or two entries are of the
\* same instant (PrismaAuditService.log orders by createdAt).
ChainLinear ==
    \/ "log" \in raced
    \/ \E j, k \in 1 .. Len(log) : j # k /\ log[j].at = log[k].at
    \/ \A k \in 1 .. Len(log) : log[k].prev = k - 1
=============================================================================
