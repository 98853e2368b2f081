------------------------ MODULE DocumentRequestsProofs ------------------------
(***************************************************************************)
(* What DocumentRequests keeps for any requests, bodies, quotas and lease, *)
(* with or without faults:                                                 *)
(*                                                                         *)
(*   TypeCorrect        TypeOK                                             *)
(*   KeyMakesOne        OneDocument: a key makes one document              *)
(*   QuotasAreKept      QuotaKept                                          *)
(*   TrailIsAChain      ChainLinear                                        *)
(*                                                                         *)
(* None of the last three is inductive: each needs what is true of the     *)
(* requests that are still between their check and their write.            *)
(***************************************************************************)
EXTENDS DocumentRequests, FiniteSetTheorems, TLAPS

----------------------------------------------------------------------------
(* The strengthenings                                                      *)

USE DEF bytes

\* The places of a request that has made its document, and of one that has not; a
\* request that logs has made one, or a copy.
After == {"usage", "publish", "complete", "drop"}
Before == {"count", "storage", "create"}

\* What a request knows at a place, with n documents made.
Fits(p, l, n) ==
    /\ p = "idle" => ~l.keyed /\ l.doc = 0
    /\ p \in {"reserve", "reclaim", "complete", "drop"} => l.keyed
    /\ p \in After => l.doc \in 1 .. n
    /\ p \in {"last", "append"} => l.doc \in 0 .. n

Typed ==
    /\ TypeOK
    /\ \A r \in Requests : Fits(pc[r], loc[r], Len(docs))
    /\ record.st = "COMPLETED" => record.doc \in 1 .. Len(docs)

\* The request has been let in under the key.
InFlight(r) == loc[r].keyed /\ pc[r] \notin {"idle", "reserve"}

\* While no lease has run out, whoever is let in under the key is alone, the key
\* is IN_PROGRESS for it, and no document is made under the key but its own.
KeyInv ==
    ~lapsed =>
      /\ ~RanOut
      /\ \A r \in Requests : pc[r] # "reclaim"
      /\ \A q, r \in Requests : InFlight(q) /\ InFlight(r) => q = r
      /\ \A r \in Requests : InFlight(r) => /\ record.st = "IN_PROGRESS"
                                            /\ pc[r] \in Before => Keyed = {}
      /\ \A j, k \in Keyed : j = k
      /\ record.st = "none" => Keyed = {}
      /\ record.st # "COMPLETED" => told = {}
      /\ record.st = "COMPLETED" => told \subseteq {record.doc}

\* What a request has been told by the checks of the quotas is still so, and what
\* is stored and not held against them is the document of one request at most.
QuotaInv ==
    "quota" \notin raced =>
      /\ QuotaKept
      /\ \A r \in Requests : pc[r] \in {"storage", "create"} => Len(docs) < MaxDocuments + copied
      /\ \A r \in Requests : pc[r] = "create" => used + 1 <= StorageQuota
      /\ \A q, r \in Requests : pc[q] = "usage" /\ pc[r] = "usage" => q = r
      /\ (\A r \in Requests : pc[r] # "usage") => Len(docs) <= used + uncounted
      /\ Len(docs) <= used + uncounted + 1

\* Entries are filed in the order of time.
TimeInv ==
    /\ \A k \in 1 .. Len(log) : log[k].at <= clock
    /\ \A j, k \in 1 .. Len(log) : j <= k => log[j].at <= log[k].at

OneInstant == \E j, k \in 1 .. Len(log) : j # k /\ log[j].at = log[k].at

\* The log is a chain, and the entries about to be added continue it.
ChainInv ==
    "log" \notin raced /\ ~OneInstant =>
      /\ \A k \in 1 .. Len(log) : log[k].prev = k - 1
      /\ \A r \in Requests : pc[r] = "append" => loc[r].prev = Len(log)

----------------------------------------------------------------------------
(* Types and places                                                        *)

\* Requests other than r stay where they are, and r comes to a place.
Moves(r, label, l) ==
    /\ \A q \in Requests \ {r} : pc'[q] = pc[q] /\ loc'[q] = loc[q]
    /\ pc'[r] = label /\ loc'[r] = l

Forgotten(l) == [l EXCEPT !.keyed = FALSE, !.until = 0, !.doc = 0, !.prev = 0]

\* A request that moves leaves every other at its place, whatever documents come.
LEMMA MoveTyped ==
  ASSUME Typed, NEW r \in Requests, NEW label \in PCs, NEW l \in Locals, NEW n \in Nat,
         Len(docs) <= n, Fits(label, l, n), Move(r, label, l)
  PROVE  /\ pc' \in [Requests -> PCs] /\ loc' \in [Requests -> Locals]
         /\ \A q \in Requests : Fits(pc'[q], loc'[q], n)
         /\ Moves(r, label, l)
<1>1. /\ pc' \in [Requests -> PCs] /\ loc' \in [Requests -> Locals]
      /\ Moves(r, label, l)
  BY DEF Typed, TypeOK, Move, Goto, Moves
<1>2. Len(docs) \in Nat
  BY DEF Typed, TypeOK
<1>3. \A q \in Requests : loc[q] \in Locals /\ Fits(pc[q], loc[q], Len(docs))
  BY DEF Typed, TypeOK
<1>4. \A q \in Requests : Fits(pc[q], loc[q], n)
  BY <1>2, <1>3 DEF Fits, Locals
<1> QED  BY <1>1, <1>4 DEF Moves

LEMMA GotoTyped ==
  ASSUME Typed, NEW r \in Requests, NEW label \in PCs, NEW n \in Nat,
         Len(docs) <= n, Fits(label, loc[r], n), Goto(r, label), UNCHANGED loc
  PROVE  /\ pc' \in [Requests -> PCs] /\ loc' \in [Requests -> Locals]
         /\ \A q \in Requests : Fits(pc'[q], loc'[q], n)
         /\ Moves(r, label, loc[r])
<1>1. loc[r] \in Locals /\ Move(r, label, loc[r])
  BY DEF Typed, TypeOK, Move
<1> QED  BY <1>1, MoveTyped

LEMMA ReturnTyped ==
  ASSUME Typed, NEW r \in Requests, Return(r)
  PROVE  /\ pc' \in [Requests -> PCs] /\ loc' \in [Requests -> Locals]
         /\ \A q \in Requests : Fits(pc'[q], loc'[q], Len(docs))
         /\ Moves(r, "idle", Forgotten(loc[r])) /\ ~loc'[r].keyed
<1>1. loc[r] \in Locals /\ Len(docs) \in Nat /\ "idle" \in PCs
  BY DEF Typed, TypeOK, PCs
<1>2. Forgotten(loc[r]) \in Locals /\ ~Forgotten(loc[r]).keyed
  BY <1>1 DEF Locals, Forgotten
<1>3. Fits("idle", Forgotten(loc[r]), Len(docs))
  BY <1>1, <1>2 DEF Fits, After, Forgotten, Locals
<1>4. Move(r, "idle", Forgotten(loc[r]))
  BY DEF Return, Forgotten
<1>5. Len(docs) <= Len(docs)
  BY <1>1
<1> QED  BY <1>1, <1>2, <1>3, <1>4, <1>5, MoveTyped DEF Moves

\* What is typed when the documents, the record and the trail stay as they are.
LEMMA RowsTyped ==
  ASSUME Typed, UNCHANGED <<record, docs, bytes, log, announced, clock>>,
         pc' \in [Requests -> PCs], loc' \in [Requests -> Locals],
         \A q \in Requests : Fits(pc'[q], loc'[q], Len(docs)),
         told' \subseteq 1 .. Len(docs), lapsed' \in BOOLEAN,
         raced' \subseteq {"quota", "log"}, left' \in 0 .. MaxReqs
  PROVE  Typed'
  BY DEF Typed, TypeOK

\* The statements of the middleware that reads the key.
LEMMA UnkeyedStep ==
  ASSUME Typed, NEW r \in Requests, NEW p \in Payloads, Unkeyed(r, p)
  PROVE  Typed' /\ Moves(r, "count", [loc[r] EXCEPT !.hash = p]) /\ ~loc'[r].keyed
<1>1. loc[r] \in Locals /\ ~loc[r].keyed /\ Len(docs) \in Nat /\ "count" \in PCs
  BY DEF Typed, TypeOK, PCs, Fits, Unkeyed, Begin, At
<1>2. [loc[r] EXCEPT !.hash = p] \in Locals /\ ~[loc[r] EXCEPT !.hash = p].keyed
  BY <1>1 DEF Locals
<1>3. Fits("count", [loc[r] EXCEPT !.hash = p], Len(docs)) /\ Len(docs) <= Len(docs)
  BY <1>1 DEF Fits, After
<1>4. Move(r, "count", [loc[r] EXCEPT !.hash = p])
  BY DEF Unkeyed
<1>5. /\ pc' \in [Requests -> PCs] /\ loc' \in [Requests -> Locals]
      /\ \A q \in Requests : Fits(pc'[q], loc'[q], Len(docs))
      /\ Moves(r, "count", [loc[r] EXCEPT !.hash = p])
  BY <1>1, <1>2, <1>3, <1>4, MoveTyped
<1>6. left' \in 0 .. MaxReqs
  BY BoundsAssumption DEF Unkeyed, Begin, Typed, TypeOK
<1>7. Typed'
  BY <1>5, <1>6, RowsTyped DEF Unkeyed, Typed, TypeOK
<1> QED  BY <1>2, <1>5, <1>7 DEF Moves

LEMMA ReceiveStep ==
  ASSUME Typed, NEW r \in Requests, NEW p \in Payloads, Receive(r, p)
  PROVE  /\ Typed' /\ loc'[r].keyed
         /\ \/ record.st = "none" /\ Moves(r, "reserve", loc'[r])
            \/ RanOut /\ Moves(r, "reclaim", loc'[r])
<1> DEFINE l == [loc[r] EXCEPT !.hash = p, !.keyed = TRUE, !.until = clock + Lease]
<1>1. loc[r] \in Locals /\ Len(docs) \in Nat /\ clock + Lease \in Nat
  BY LeaseAssumption, BoundsAssumption DEF Typed, TypeOK
<1>2. l \in Locals /\ l.keyed
  BY <1>1 DEF Locals
<1>3. PICK label \in {"reserve", "reclaim"} :
        /\ Goto(r, label)
        /\ label = "reserve" => record.st = "none"
        /\ label = "reclaim" => RanOut
  BY DEF Receive
<1>4. Move(r, label, l)
  BY <1>3 DEF Receive, Move
<1>5. label \in PCs /\ Fits(label, l, Len(docs)) /\ Len(docs) <= Len(docs)
  BY <1>1, <1>2 DEF PCs, Fits, After
<1> HIDE DEF l
<1>6. /\ pc' \in [Requests -> PCs] /\ loc' \in [Requests -> Locals]
      /\ \A q \in Requests : Fits(pc'[q], loc'[q], Len(docs))
      /\ Moves(r, label, l)
  BY <1>1, <1>2, <1>4, <1>5, MoveTyped
<1>7. left' \in 0 .. MaxReqs
  BY BoundsAssumption DEF Receive, Begin, Typed, TypeOK
<1>8. Typed'
  BY <1>6, <1>7, RowsTyped DEF Receive, Typed, TypeOK
<1> QED  BY <1>2, <1>3, <1>6, <1>8 DEF Moves

LEMMA ReplayStep ==
  ASSUME Typed, NEW r \in Requests, NEW p \in Payloads, Replay(r, p)
  PROVE  Typed' /\ told' = told \cup {record.doc}
<1>1. record.doc \in 1 .. Len(docs)
  BY DEF Replay, Typed
<1>2. told' \subseteq 1 .. Len(docs)
  BY <1>1 DEF Replay, Typed, TypeOK
<1>3. left' \in 0 .. MaxReqs
  BY BoundsAssumption DEF Replay, Begin, Typed, TypeOK
<1>4. \A q \in Requests : Fits(pc'[q], loc'[q], Len(docs))
  BY DEF Replay, Typed
<1>5. Typed'
  BY <1>2, <1>3, <1>4, RowsTyped DEF Replay, Typed, TypeOK
<1> QED  BY <1>5 DEF Replay


\* The key is taken: the request goes on to the handler, or is refused.
LEMMA TakeStep ==
  ASSUME Typed, NEW r \in Requests, Reserve(r) \/ Reclaim(r)
  PROVE  /\ Typed'
         /\ \/ /\ Moves(r, "count", loc[r])
               /\ record' = [record EXCEPT !.st = "IN_PROGRESS", !.hash = loc[r].hash,
                                           !.until = loc[r].until]
            \/ Moves(r, "idle", Forgotten(loc[r])) /\ ~loc'[r].keyed /\ record' = record
<1>1. loc[r] \in Locals /\ Len(docs) \in Nat /\ Len(docs) <= Len(docs) /\ record \in Record
  BY DEF Typed, TypeOK
<1>2. left' \in 0 .. MaxReqs /\ lapsed' \in BOOLEAN
  BY DEF Reserve, Reclaim, Typed, TypeOK, Watch, RanOut
<1>3. CASE Return(r) /\ record' = record
  <2>1. /\ pc' \in [Requests -> PCs] /\ loc' \in [Requests -> Locals]
        /\ \A q \in Requests : Fits(pc'[q], loc'[q], Len(docs))
        /\ Moves(r, "idle", Forgotten(loc[r])) /\ ~loc'[r].keyed
    BY <1>3, ReturnTyped
  <2>2. Typed'
    BY <1>2, <1>3, <2>1, RowsTyped DEF Reserve, Reclaim, Typed, TypeOK
  <2> QED  BY <1>3, <2>1, <2>2
<1>4. CASE /\ Goto(r, "count") /\ UNCHANGED loc
           /\ record' = [record EXCEPT !.st = "IN_PROGRESS", !.hash = loc[r].hash,
                                       !.until = loc[r].until]
  <2>1. "count" \in PCs /\ Fits("count", loc[r], Len(docs))
    BY DEF PCs, Fits, After
  <2>2. /\ pc' \in [Requests -> PCs] /\ loc' \in [Requests -> Locals]
        /\ \A q \in Requests : Fits(pc'[q], loc'[q], Len(docs))
        /\ Moves(r, "count", loc[r])
    BY <1>1, <1>4, <2>1, GotoTyped
  <2>3. record' \in Record /\ record'.st = "IN_PROGRESS"
    BY <1>1, <1>4 DEF Record, Locals
  <2>4. Typed'
    BY <1>2, <2>2, <2>3 DEF Reserve, Reclaim, Typed, TypeOK
  <2> QED  BY <1>4, <2>2, <2>4
<1> QED  BY <1>3, <1>4 DEF Reserve, Reclaim

\* A statement that fails, and with it perhaps the addition of the bytes.
LEMMA FailStep ==
  ASSUME Typed, NEW r \in Requests, Fail(r)
  PROVE  Typed' /\ Moves(r, "idle", Forgotten(loc[r])) /\ ~loc'[r].keyed
<1>1. /\ pc' \in [Requests -> PCs] /\ loc' \in [Requests -> Locals]
      /\ \A q \in Requests : Fits(pc'[q], loc'[q], Len(docs))
      /\ Moves(r, "idle", Forgotten(loc[r])) /\ ~loc'[r].keyed
  BY ReturnTyped DEF Fail
<1>2. uncounted' \in Nat
  BY DEF Fail, Typed, TypeOK
<1>3. TypeOK'
  BY <1>1, <1>2 DEF Fail, history, Typed, TypeOK
<1>4. Typed'
  BY <1>1, <1>3 DEF Fail, Typed
<1> QED  BY <1>1, <1>4

\* A copy goes to the log at once.
LEMMA CopyStep ==
  ASSUME Typed, NEW r \in Requests, NEW p \in Payloads, Copy(r, p)
  PROVE  /\ Typed' /\ Moves(r, "last", loc[r]) /\ ~loc[r].keyed
         /\ Len(docs') = Len(docs) + 1
         /\ \A k \in 1 .. Len(docs) : docs'[k] = docs[k]
         /\ ~docs'[Len(docs) + 1].keyed
<1> DEFINE d == [hash |-> p, keyed |-> FALSE]
<1>1. loc[r] \in Locals /\ ~loc[r].keyed /\ loc[r].doc = 0 /\ Len(docs) \in Nat
  BY DEF Typed, TypeOK, Fits, Copy, Begin, At
<1>2. /\ docs' \in Seq(Document) /\ Len(docs') = Len(docs) + 1
      /\ \A k \in 1 .. Len(docs) : docs'[k] = docs[k]
      /\ docs'[Len(docs) + 1] = d
  <2>1. d \in Document /\ docs \in Seq(Document) /\ docs' = Append(docs, d)
    BY DEF Document, Copy, Typed, TypeOK
  <2> HIDE DEF d
  <2> QED  BY <2>1
<1>3. Len(docs) + 1 \in Nat /\ Len(docs) <= Len(docs) + 1 /\ "last" \in PCs
  BY <1>1 DEF PCs
<1>4. Fits("last", loc[r], Len(docs) + 1)
  BY <1>1 DEF Fits, After
<1>5. Move(r, "last", loc[r])
  BY <1>1 DEF Copy, Move, Typed, TypeOK
<1>6. /\ pc' \in [Requests -> PCs] /\ loc' \in [Requests -> Locals]
      /\ \A q \in Requests : Fits(pc'[q], loc'[q], Len(docs) + 1)
      /\ Moves(r, "last", loc[r])
  BY <1>1, <1>3, <1>4, <1>5, MoveTyped
<1>7. 1 .. Len(docs) \subseteq 1 .. Len(docs')
  BY <1>1, <1>2
<1>8. left' \in 0 .. MaxReqs /\ copied' \in Nat /\ uncounted' \in Nat
  BY BoundsAssumption DEF Copy, Begin, Typed, TypeOK
<1>9. TypeOK'
  BY <1>2, <1>6, <1>7, <1>8 DEF Copy, Typed, TypeOK
<1>10. Typed'
  BY <1>2, <1>6, <1>7, <1>9 DEF Copy, Typed
<1> QED  BY <1>1, <1>2, <1>6, <1>10

\* The checks of the quotas.
LEMMA CheckStep ==
  ASSUME Typed, NEW r \in Requests, CountDocuments(r) \/ CheckStorage(r)
  PROVE  /\ Typed'
         /\ \/ Moves(r, "idle", Forgotten(loc[r])) /\ ~loc'[r].keyed
            \/ Moves(r, "storage", loc[r]) /\ At(r, "count") /\ Room
            \/ Moves(r, "create", loc[r]) /\ At(r, "storage") /\ used + 1 <= StorageQuota
<1>1. loc[r] \in Locals /\ Len(docs) \in Nat /\ Len(docs) <= Len(docs)
  BY DEF Typed, TypeOK
<1>2. UNCHANGED <<record, docs, bytes, log, announced, clock, history>>
  BY DEF CountDocuments, CheckStorage
<1>3. CASE Return(r)
  <2>1. /\ pc' \in [Requests -> PCs] /\ loc' \in [Requests -> Locals]
        /\ \A q \in Requests : Fits(pc'[q], loc'[q], Len(docs))
        /\ Moves(r, "idle", Forgotten(loc[r])) /\ ~loc'[r].keyed
    BY <1>3, ReturnTyped
  <2>2. Typed'
    BY <1>2, <2>1, RowsTyped DEF history, Typed, TypeOK
  <2> QED  BY <2>1, <2>2
<1>4. ASSUME NEW label \in {"storage", "create"}, Goto(r, label), UNCHANGED loc
      PROVE  Typed' /\ Moves(r, label, loc[r])
  <2>1. label \in PCs /\ Fits(label, loc[r], Len(docs))
    BY DEF PCs, Fits, After
  <2>2. /\ pc' \in [Requests -> PCs] /\ loc' \in [Requests -> Locals]
        /\ \A q \in Requests : Fits(pc'[q], loc'[q], Len(docs))
        /\ Moves(r, label, loc[r])
    BY <1>1, <1>4, <2>1, GotoTyped
  <2>3. Typed'
    BY <1>2, <2>2, RowsTyped DEF history, Typed, TypeOK
  <2> QED  BY <2>2, <2>3
<1> QED  BY <1>3, <1>4 DEF CountDocuments, CheckStorage

LEMMA CreateStep ==
  ASSUME Typed, NEW r \in Requests, Create(r)
  PROVE  /\ Typed' /\ Moves(r, "usage", loc'[r]) /\ loc'[r].keyed = loc[r].keyed
         /\ Len(docs') = Len(docs) + 1 /\ loc'[r].doc = Len(docs) + 1
         /\ \A k \in 1 .. Len(docs) : docs'[k] = docs[k]
         /\ docs'[Len(docs) + 1].keyed = loc[r].keyed
<1> DEFINE d == [hash |-> loc[r].hash, keyed |-> loc[r].keyed]
<1> DEFINE l == [loc[r] EXCEPT !.doc = Len(docs')]
<1>1. loc[r] \in Locals /\ Len(docs) \in Nat /\ docs \in Seq(Document)
  BY DEF Typed, TypeOK
<1>2. d \in Document /\ d.keyed = loc[r].keyed
  BY <1>1 DEF Locals, Document
<1>3. docs' = Append(docs, d) /\ Move(r, "usage", l)
  BY DEF Create
<1> HIDE DEF d
<1>4. /\ docs' \in Seq(Document) /\ Len(docs') = Len(docs) + 1
      /\ \A k \in 1 .. Len(docs) : docs'[k] = docs[k]
      /\ docs'[Len(docs) + 1] = d
  BY <1>1, <1>2, <1>3
<1>5. l \in Locals /\ l.doc = Len(docs) + 1 /\ l.keyed = loc[r].keyed
  BY <1>1, <1>4 DEF Locals
<1> HIDE DEF l
<1>6. Len(docs) + 1 \in Nat /\ Len(docs) <= Len(docs) + 1 /\ "usage" \in PCs
  BY <1>1 DEF PCs
<1>7. Fits("usage", l, Len(docs) + 1)
  BY <1>1, <1>5 DEF Fits
<1>8. /\ pc' \in [Requests -> PCs] /\ loc' \in [Requests -> Locals]
      /\ \A q \in Requests : Fits(pc'[q], loc'[q], Len(docs) + 1)
      /\ Moves(r, "usage", l)
  BY <1>3, <1>5, <1>6, <1>7, MoveTyped
<1>9. 1 .. Len(docs) \subseteq 1 .. Len(docs')
  BY <1>1, <1>4
<1>10. raced' \subseteq {"quota", "log"}
  BY DEF Create, Typed, TypeOK
<1>11. TypeOK'
  BY <1>4, <1>8, <1>9, <1>10 DEF Create, Typed, TypeOK
<1>12. Typed'
  BY <1>4, <1>8, <1>9, <1>11 DEF Create, Typed
<1> QED  BY <1>2, <1>4, <1>5, <1>8, <1>12 DEF Moves

LEMMA CountBytesStep ==
  ASSUME Typed, NEW r \in Requests, CountBytes(r)
  PROVE  Typed' /\ Moves(r, "last", loc[r])
<1>1. loc[r] \in Locals /\ Len(docs) \in Nat /\ Len(docs) <= Len(docs)
  BY DEF Typed, TypeOK
<1>2. "last" \in PCs /\ Fits("last", loc[r], Len(docs)) /\ Goto(r, "last") /\ UNCHANGED loc
  BY DEF PCs, Fits, After, CountBytes, At, Typed
<1>3. /\ pc' \in [Requests -> PCs] /\ loc' \in [Requests -> Locals]
      /\ \A q \in Requests : Fits(pc'[q], loc'[q], Len(docs))
      /\ Moves(r, "last", loc[r])
  BY <1>1, <1>2, GotoTyped
<1>4. raced' \subseteq {"quota", "log"}
  BY DEF CountBytes, Typed, TypeOK
<1>5. TypeOK'
  BY <1>3, <1>4 DEF CountBytes, Typed, TypeOK
<1> QED  BY <1>3, <1>5 DEF CountBytes, Typed

LEMMA LogReadStep ==
  ASSUME Typed, NEW r \in Requests, LogRead(r)
  PROVE  /\ Typed' /\ Moves(r, "append", loc'[r]) /\ loc'[r].keyed = loc[r].keyed
         /\ loc'[r].prev \in IF log = <<>> THEN {0} ELSE Newest
<1>1. loc[r] \in Locals /\ Len(docs) \in Nat /\ Len(docs) <= Len(docs) /\ Len(log) \in Nat
  BY DEF Typed, TypeOK
<1>2. PICK k \in IF log = <<>> THEN {0} ELSE Newest :
         Move(r, "append", [loc[r] EXCEPT !.prev = k])
  BY DEF LogRead
<1> DEFINE l == [loc[r] EXCEPT !.prev = k]
<1>3. k \in Nat
  BY <1>1 DEF Newest
<1>4. l \in Locals /\ l.keyed = loc[r].keyed /\ l.doc = loc[r].doc /\ l.prev = k
  BY <1>1, <1>3 DEF Locals
<1>5. Move(r, "append", l)
  BY <1>2
<1> HIDE DEF l
<1>6. "append" \in PCs /\ Fits("append", l, Len(docs))
  BY <1>4 DEF PCs, Fits, After, LogRead, At, Typed
<1>7. /\ pc' \in [Requests -> PCs] /\ loc' \in [Requests -> Locals]
      /\ \A q \in Requests : Fits(pc'[q], loc'[q], Len(docs))
      /\ Moves(r, "append", l)
  BY <1>1, <1>4, <1>5, <1>6, MoveTyped
<1>8. Typed'
  BY <1>7, RowsTyped DEF LogRead, history, Typed, TypeOK
<1> QED  BY <1>4, <1>7, <1>8 DEF Moves

LEMMA LogAppendStep ==
  ASSUME Typed, NEW r \in Requests, LogAppend(r)
  PROVE  /\ Typed'
         /\ \/ Moves(r, "publish", loc[r])
            \/ Moves(r, "idle", Forgotten(loc[r])) /\ ~loc'[r].keyed
<1>1. loc[r] \in Locals /\ Len(docs) \in Nat /\ Len(docs) <= Len(docs)
  BY DEF Typed, TypeOK
<1>3. /\ pc' \in [Requests -> PCs] /\ loc' \in [Requests -> Locals]
      /\ \A q \in Requests : Fits(pc'[q], loc'[q], Len(docs))
      /\ \/ Moves(r, "publish", loc[r])
         \/ Moves(r, "idle", Forgotten(loc[r])) /\ ~loc'[r].keyed
  <2>1. CASE loc[r].doc # 0 /\ Goto(r, "publish") /\ UNCHANGED loc
    <3>1. loc[r].doc \in 0 .. Len(docs)
      BY DEF Fits, LogAppend, At, Typed
    <3>2. "publish" \in PCs /\ Fits("publish", loc[r], Len(docs))
      BY <1>1, <2>1, <3>1 DEF PCs, Fits, After
    <3> QED  BY <1>1, <2>1, <3>2, GotoTyped
  <2>2. CASE Return(r)
    BY <2>2, ReturnTyped
  <2> QED  BY <2>1, <2>2 DEF LogAppend
<1>4. raced' \subseteq {"quota", "log"}
  BY DEF LogAppend, Typed, TypeOK
<1>5. [prev |-> loc[r].prev, at |-> clock] \in Entry
  BY <1>1, BoundsAssumption DEF Entry, Locals, Typed, TypeOK
<1>6. log' \in Seq(Entry)
  BY <1>5 DEF LogAppend, Typed, TypeOK
<1>7. TypeOK'
  BY <1>3, <1>4, <1>6 DEF LogAppend, Typed, TypeOK
<1> QED  BY <1>3, <1>7 DEF LogAppend, Typed

LEMMA PublishStep ==
  ASSUME Typed, NEW r \in Requests, Publish(r)
  PROVE  /\ Typed'
         /\ \/ Moves(r, "complete", loc[r])
            \/ Moves(r, "idle", Forgotten(loc[r])) /\ ~loc'[r].keyed
<1>1. /\ loc[r] \in Locals /\ Len(docs) \in Nat /\ Len(docs) <= Len(docs)
      /\ loc[r].doc \in 1 .. Len(docs)
  BY DEF Typed, TypeOK, Fits, After, Publish, At
<1>2. announced' \subseteq 1 .. Len(docs)
  BY <1>1 DEF Publish, Typed, TypeOK
<1>3. ASSUME pc' \in [Requests -> PCs], loc' \in [Requests -> Locals],
             \A q \in Requests : Fits(pc'[q], loc'[q], Len(docs))
      PROVE  Typed'
  <2>1. TypeOK'
    BY <1>2, <1>3 DEF Publish, history, Typed, TypeOK
  <2> QED  BY <1>3, <2>1 DEF Publish, Typed
<1>4. CASE Return(r)
  BY <1>3, <1>4, ReturnTyped
<1>5. CASE loc[r].keyed /\ Goto(r, "complete") /\ UNCHANGED loc
  <2>1. "complete" \in PCs /\ Fits("complete", loc[r], Len(docs))
    BY <1>1, <1>5 DEF PCs, Fits
  <2> QED  BY <1>1, <1>3, <1>5, <2>1, GotoTyped
<1> QED  BY <1>4, <1>5 DEF Publish


LEMMA CompleteStep ==
  ASSUME Typed, NEW r \in Requests, Complete(r)
  PROVE  /\ Typed'
         /\ \/ /\ Moves(r, "idle", Forgotten(loc[r])) /\ ~loc'[r].keyed
               /\ record' = [record EXCEPT !.st = "COMPLETED", !.doc = loc[r].doc]
               /\ record'.st = "COMPLETED" /\ record'.doc = loc[r].doc
               /\ told' = told \cup {loc[r].doc}
            \/ Moves(r, "drop", loc[r]) /\ UNCHANGED <<record, told>>
<1>1. /\ loc[r] \in Locals /\ Len(docs) \in Nat /\ Len(docs) <= Len(docs)
      /\ loc[r].doc \in 1 .. Len(docs) /\ record \in Record /\ loc[r].keyed
  BY DEF Typed, TypeOK, Fits, After, Complete, At
<1>2. CASE /\ record' = [record EXCEPT !.st = "COMPLETED", !.doc = loc[r].doc]
           /\ told' = told \cup {loc[r].doc} /\ Return(r)
  <2>1. /\ pc' \in [Requests -> PCs] /\ loc' \in [Requests -> Locals]
        /\ \A q \in Requests : Fits(pc'[q], loc'[q], Len(docs))
        /\ Moves(r, "idle", Forgotten(loc[r])) /\ ~loc'[r].keyed
    BY <1>2, ReturnTyped
  <2>2. record' \in Record /\ record'.st = "COMPLETED" /\ record'.doc = loc[r].doc
    <3>1. \A n \in Nat : LET c == [record EXCEPT !.st = "COMPLETED", !.doc = n]
                         IN  c \in Record /\ c.st = "COMPLETED" /\ c.doc = n
      BY <1>1 DEF Record
    <3>2. loc[r].doc \in Nat
      BY <1>1 DEF Locals
    <3> QED  BY <1>2, <3>1, <3>2
  <2>3. told' \subseteq 1 .. Len(docs)
    BY <1>1, <1>2 DEF Typed, TypeOK
  <2>4. TypeOK'
    BY <2>1, <2>2, <2>3 DEF Complete, Typed, TypeOK
  <2>5. Typed'
    BY <1>1, <2>1, <2>2, <2>4 DEF Complete, Typed
  <2> QED  BY <1>2, <2>1, <2>2, <2>5
<1>3. CASE Goto(r, "drop") /\ UNCHANGED <<record, told, loc>>
  <2>1. "drop" \in PCs /\ Fits("drop", loc[r], Len(docs))
    BY <1>1 DEF PCs, Fits
  <2>2. /\ pc' \in [Requests -> PCs] /\ loc' \in [Requests -> Locals]
        /\ \A q \in Requests : Fits(pc'[q], loc'[q], Len(docs))
        /\ Moves(r, "drop", loc[r])
    BY <1>1, <1>3, <2>1, GotoTyped
  <2>3. Typed'
    BY <1>3, <2>2, RowsTyped DEF Complete, Typed, TypeOK
  <2> QED  BY <1>3, <2>2, <2>3
<1> QED  BY <1>2, <1>3 DEF Complete

LEMMA DropStep ==
  ASSUME Typed, NEW r \in Requests, Drop(r)
  PROVE  Typed' /\ lapsed' /\ Moves(r, "idle", Forgotten(loc[r])) /\ ~loc'[r].keyed
<1>1. /\ pc' \in [Requests -> PCs] /\ loc' \in [Requests -> Locals]
      /\ \A q \in Requests : Fits(pc'[q], loc'[q], Len(docs))
      /\ Moves(r, "idle", Forgotten(loc[r])) /\ ~loc'[r].keyed
  BY ReturnTyped DEF Drop
<1>2. record' \in Record /\ (record'.st = "COMPLETED" => record' = record)
  BY DEF Drop, Typed, TypeOK, Record
<1>3. TypeOK'
  BY <1>1, <1>2 DEF Drop, Typed, TypeOK
<1>4. Typed'
  BY <1>1, <1>2, <1>3 DEF Drop, Typed
<1> QED  BY <1>1, <1>4 DEF Drop

LEMMA LogLockedStep ==
  ASSUME Typed, LogLocked
  PROVE  Typed'
<1>1. PICK k \in IF log = <<>> THEN {0} ELSE Newest :
         log' = Append(log, [prev |-> k, at |-> clock])
  BY DEF LogLocked
<1>2. [prev |-> k, at |-> clock] \in Entry
  BY BoundsAssumption DEF Newest, Entry, Typed, TypeOK
<1>3. log' \in Seq(Entry)
  BY <1>1, <1>2 DEF Typed, TypeOK
<1>4. left' \in 0 .. MaxReqs /\ raced' \subseteq {"quota", "log"}
  BY BoundsAssumption DEF LogLocked, Typed, TypeOK
<1>5. TypeOK'
  BY <1>3, <1>4 DEF LogLocked, Typed, TypeOK
<1> QED  BY <1>5 DEF LogLocked, Typed

LEMMA TickStep ==
  ASSUME Typed, Tick
  PROVE  Typed'
<1>1. clock' \in 0 .. MaxTime /\ lapsed' \in BOOLEAN
  BY BoundsAssumption DEF Tick, Watch, RanOut, Typed, TypeOK
<1>2. TypeOK'
  BY <1>1 DEF Tick, Typed, TypeOK
<1> QED  BY <1>2 DEF Tick, Typed

LEMMA InitTyped == Init => Typed
<1> SUFFICES ASSUME Init PROVE Typed
  OBVIOUS
<1>1. PICK p \in Payloads :
        /\ record = [st |-> "none", hash |-> p, until |-> 0, doc |-> 0]
        /\ loc = [r \in Requests |-> [hash |-> p, keyed |-> FALSE, until |-> 0,
                                      doc |-> 0, prev |-> 0]]
  BY DEF Init
<1>2. record \in Record /\ record.st = "none"
  BY <1>1 DEF Record
<1>3. loc \in [Requests -> Locals] /\ pc \in [Requests -> PCs]
  BY <1>1 DEF Init, Locals, PCs
<1>4. \A r \in Requests : Fits(pc[r], loc[r], Len(docs))
  BY <1>1 DEF Init, Fits, After
<1>5. /\ docs \in Seq(Document) /\ log \in Seq(Entry)
      /\ used \in Nat /\ copied \in Nat /\ uncounted \in Nat
  BY DEF Init
<1>6. announced \subseteq 1 .. Len(docs) /\ told \subseteq 1 .. Len(docs)
  BY DEF Init
<1>7. clock \in 0 .. MaxTime /\ left \in 0 .. MaxReqs
  BY BoundsAssumption DEF Init
<1>8. lapsed \in BOOLEAN /\ raced \subseteq {"quota", "log"}
  BY DEF Init
<1> QED  BY <1>2, <1>3, <1>4, <1>5, <1>6, <1>7, <1>8 DEF Typed, TypeOK

LEMMA NextTyped == Typed /\ [Next]_vars => Typed'
<1> SUFFICES ASSUME Typed, [Next]_vars PROVE Typed'
  OBVIOUS
<1>1. CASE UNCHANGED vars
  BY <1>1 DEF vars, Typed, TypeOK
<1>2. ASSUME NEW r \in Requests, NEW p \in Payloads,
             Unkeyed(r, p) \/ Receive(r, p) \/ Replay(r, p) \/ Copy(r, p)
      PROVE  Typed'
  BY <1>2, UnkeyedStep, ReceiveStep, ReplayStep, CopyStep
<1>3. ASSUME NEW r \in Requests, Reserve(r) \/ Reclaim(r) \/ Complete(r) \/ Drop(r) \/ Fail(r)
      PROVE  Typed'
  BY <1>3, TakeStep, CompleteStep, DropStep, FailStep
<1>4. ASSUME NEW r \in Requests, Handler(r)
      PROVE  Typed'
  BY <1>4, CheckStep, CreateStep, CountBytesStep, LogReadStep, LogAppendStep, PublishStep
     DEF Handler
<1>5. CASE LogLocked \/ Tick
  BY <1>5, LogLockedStep, TickStep
<1> QED  BY <1>1, <1>2, <1>3, <1>4, <1>5 DEF Next

\* The rows of the key, of the agreements and of the trail, and what each request
\* remembers, keep the types of schema and code.
THEOREM TypeCorrect == Spec => []TypeOK
<1>1. Typed => TypeOK
  BY DEF Typed
<1> QED  BY <1>1, InitTyped, NextTyped, PTL DEF Spec

LEMMA AlwaysTyped == Spec => []Typed
  BY InitTyped, NextTyped, PTL DEF Spec


----------------------------------------------------------------------------
(* The key                                                                 *)

LEMMA InitKey == Init => KeyInv
<1> SUFFICES ASSUME Init PROVE KeyInv
  OBVIOUS
<1>1. record.st = "none" /\ told = {} /\ \A r \in Requests : pc[r] = "idle"
  BY DEF Init
<1>2. Len(docs) = 0 /\ Keyed = {}
  BY DEF Init, Keyed
<1> QED  BY <1>1, <1>2 DEF KeyInv, RanOut, InFlight

\* What the requests must show after a step that leaves key and documents alone:
\* nobody is in flight, or nearer to its document, who was not before.
KeyLeft(r) ==
    /\ pc'[r] # "reclaim"
    /\ InFlight(r)' => InFlight(r) /\ (pc'[r] \in Before => pc[r] \in Before)

LEMMA KeyUntouched ==
  ASSUME KeyInv, UNCHANGED <<record, docs, told, clock, lapsed>>,
         ~lapsed => \A r \in Requests : KeyLeft(r)
  PROVE  KeyInv'
<1>1. Keyed' = Keyed
  BY DEF Keyed
<1>2. RanOut' = RanOut
  BY DEF RanOut
<1> SUFFICES ASSUME ~lapsed PROVE KeyInv'
  BY DEF KeyInv
<1>3. \A q, r \in Requests : InFlight(q)' /\ InFlight(r)' => q = r
  BY DEF KeyInv, KeyLeft
<1>4. \A r \in Requests : InFlight(r)' => record.st = "IN_PROGRESS"
                                          /\ (pc'[r] \in Before => Keyed = {})
  BY DEF KeyInv, KeyLeft
<1>5. \A r \in Requests : pc'[r] # "reclaim"
  BY DEF KeyLeft
<1> QED  BY <1>1, <1>2, <1>3, <1>4, <1>5 DEF KeyInv

\* The same when one request moves.
LEMMA KeyMoves ==
  ASSUME KeyInv, UNCHANGED <<record, docs, told, clock, lapsed>>, NEW r \in Requests,
         \A q \in Requests \ {r} : pc'[q] = pc[q] /\ loc'[q] = loc[q],
         ~lapsed => KeyLeft(r)
  PROVE  KeyInv'
<1>1. ~lapsed => \A q \in Requests \ {r} : KeyLeft(q)
  BY DEF KeyLeft, KeyInv, InFlight
<1> QED  BY <1>1, KeyUntouched

LEMMA KeyByHandler ==
  ASSUME Typed, KeyInv, NEW r \in Requests,
         \/ CountDocuments(r) \/ CheckStorage(r) \/ Fail(r) \/ CountBytes(r)
         \/ LogRead(r) \/ LogAppend(r) \/ Publish(r)
  PROVE  KeyInv'
<1>1. UNCHANGED <<record, docs, told, clock, lapsed>>
  BY DEF CountDocuments, CheckStorage, Fail, CountBytes, LogRead, LogAppend, Publish, history
<1>2. /\ \A q \in Requests \ {r} : pc'[q] = pc[q] /\ loc'[q] = loc[q]
      /\ pc'[r] # "reclaim"
      /\ \/ ~loc'[r].keyed
         \/ /\ loc'[r].keyed = loc[r].keyed /\ pc[r] \notin {"idle", "reserve"}
            /\ pc'[r] \in Before => pc[r] \in Before
  <2>1. CASE CountDocuments(r) \/ CheckStorage(r) \/ Fail(r)
    BY <2>1, CheckStep, FailStep DEF Moves, Before, At
  <2>2. CASE CountBytes(r)
    BY <2>2, CountBytesStep DEF Moves, Before, CountBytes, At
  <2>3. CASE LogRead(r)
    BY <2>3, LogReadStep DEF Moves, Before, LogRead, At
  <2>4. CASE LogAppend(r)
    BY <2>4, LogAppendStep DEF Moves, Before, LogAppend, At
  <2>5. CASE Publish(r)
    BY <2>5, PublishStep DEF Moves, Before, Publish, At
  <2> QED  BY <2>1, <2>2, <2>3, <2>4, <2>5
<1>3. KeyLeft(r)
  BY <1>2 DEF KeyLeft, InFlight
<1> QED  BY <1>1, <1>2, <1>3, KeyMoves

\* A copy is not made under the key.
LEMMA KeyByCopy ==
  ASSUME Typed, KeyInv, NEW r \in Requests, NEW p \in Payloads, Copy(r, p)
  PROVE  KeyInv'
<1>1. /\ Moves(r, "last", loc[r]) /\ ~loc[r].keyed
      /\ Len(docs') = Len(docs) + 1
      /\ \A k \in 1 .. Len(docs) : docs'[k] = docs[k]
      /\ ~docs'[Len(docs) + 1].keyed
  BY CopyStep
<1>2. UNCHANGED <<record, told, clock, lapsed>> /\ RanOut' = RanOut
  BY DEF Copy, RanOut
<1>3. Keyed' = Keyed
  <2>1. Len(docs) \in Nat
    BY DEF Typed, TypeOK
  <2> QED  BY <1>1, <2>1 DEF Keyed
<1> SUFFICES ASSUME ~lapsed PROVE KeyInv'
  BY <1>2 DEF KeyInv
<1>4. \A q \in Requests : /\ pc'[q] # "reclaim"
                          /\ InFlight(q)' => InFlight(q) /\ pc'[q] = pc[q]
  BY <1>1 DEF Moves, InFlight, KeyInv
<1> QED  BY <1>2, <1>3, <1>4 DEF KeyInv

\* The middleware lets a request in only when the key is free.
LEMMA KeyByReceipt ==
  ASSUME Typed, KeyInv, NEW r \in Requests, NEW p \in Payloads,
         Unkeyed(r, p) \/ Receive(r, p) \/ Replay(r, p)
  PROVE  KeyInv'
<1>1. CASE Unkeyed(r, p)
  <2>1. KeyLeft(r) /\ \A q \in Requests \ {r} : pc'[q] = pc[q] /\ loc'[q] = loc[q]
    BY <1>1, UnkeyedStep DEF KeyLeft, InFlight, Moves
  <2> QED  BY <1>1, <2>1, KeyMoves DEF Unkeyed
<1>2. CASE Receive(r, p)
  <2>1. \A q \in Requests \ {r} : pc'[q] = pc[q] /\ loc'[q] = loc[q]
    BY <1>2, ReceiveStep DEF Moves
  <2>2. ~lapsed => KeyLeft(r)
    BY <1>2, ReceiveStep DEF KeyLeft, InFlight, Moves, KeyInv
  <2> QED  BY <1>2, <2>1, <2>2, KeyMoves DEF Receive
<1>3. CASE Replay(r, p)
  <2>1. /\ UNCHANGED <<record, docs, clock, pc, loc, lapsed>>
        /\ record.st = "COMPLETED" /\ told' = told \cup {record.doc}
    BY <1>3 DEF Replay
  <2>2. Keyed' = Keyed /\ RanOut' = RanOut /\ \A q \in Requests : InFlight(q)' = InFlight(q)
    BY <2>1 DEF Keyed, RanOut, InFlight
  <2> QED  BY <2>1, <2>2 DEF KeyInv
<1> QED  BY <1>1, <1>2, <1>3

LEMMA KeyByTaking ==
  ASSUME Typed, KeyInv, NEW r \in Requests, Reserve(r) \/ Reclaim(r)
  PROVE  KeyInv'
<1>1. UNCHANGED <<docs, told, clock>> /\ Keyed' = Keyed /\ lapsed' = (lapsed \/ RanOut')
  BY DEF Reserve, Reclaim, Watch, Keyed
<1> SUFFICES ASSUME ~lapsed' PROVE KeyInv'
  BY DEF KeyInv
<1>2. ~lapsed /\ ~RanOut' /\ Reserve(r)
  BY <1>1 DEF KeyInv, Reclaim, At
<1>3. CASE Moves(r, "idle", Forgotten(loc[r])) /\ ~loc'[r].keyed /\ record' = record
  <2>1. lapsed' = lapsed
    BY <1>1, <1>2, TakeStep DEF Typed, TypeOK
  <2>2. KeyLeft(r) /\ \A q \in Requests \ {r} : pc'[q] = pc[q] /\ loc'[q] = loc[q]
    BY <1>3 DEF KeyLeft, InFlight, Moves
  <2> QED  BY <1>1, <1>3, <2>1, <2>2, KeyMoves
<1>4. CASE /\ Moves(r, "count", loc[r]) /\ record.st = "none" /\ record'.st = "IN_PROGRESS"
  <2>1. Keyed = {} /\ told = {} /\ \A q \in Requests : ~InFlight(q)
    BY <1>2, <1>4 DEF KeyInv
  <2>2. \A q \in Requests : pc'[q] # "reclaim" /\ (InFlight(q)' => q = r)
    BY <1>2, <1>4, <2>1 DEF KeyInv, Moves, InFlight
  <2> QED  BY <1>1, <1>2, <1>4, <2>1, <2>2 DEF KeyInv
<1>5. record.st # "none" => Return(r)
  BY <1>2 DEF Reserve
<1>6. Moves(r, "count", loc[r]) /\ Return(r) => FALSE
  BY ReturnTyped DEF Moves
<1>7. [record EXCEPT !.st = "IN_PROGRESS", !.hash = loc[r].hash, !.until = loc[r].until].st
         = "IN_PROGRESS"
  BY DEF Typed, TypeOK, Record
<1> QED  BY <1>3, <1>4, <1>5, <1>6, <1>7, TakeStep

\* The request in flight makes the one document.
LEMMA KeyByCreation ==
  ASSUME Typed, KeyInv, NEW r \in Requests, Create(r)
  PROVE  KeyInv'
<1>1. /\ Moves(r, "usage", loc'[r]) /\ loc'[r].keyed = loc[r].keyed
      /\ Len(docs') = Len(docs) + 1
      /\ \A k \in 1 .. Len(docs) : docs'[k] = docs[k]
      /\ docs'[Len(docs) + 1].keyed = loc[r].keyed
  BY CreateStep
<1>2. Len(docs) \in Nat
  BY DEF Typed, TypeOK
<1>3. UNCHANGED <<record, told, clock, lapsed>> /\ RanOut' = RanOut
  BY DEF Create, RanOut
<1> SUFFICES ASSUME ~lapsed PROVE KeyInv'
  BY <1>3 DEF KeyInv
<1>4. \A q \in Requests : /\ pc'[q] # "reclaim"
                          /\ InFlight(q)' => InFlight(q) /\ (pc'[q] \in Before => q # r)
  BY <1>1 DEF Moves, InFlight, KeyInv, Create, At, Before
<1>5. CASE ~loc[r].keyed
  <2>1. Keyed' = Keyed
    BY <1>1, <1>2, <1>5 DEF Keyed
  <2>2. \A q \in Requests : InFlight(q)' /\ pc'[q] \in Before => pc[q] \in Before
    BY <1>1, <1>4 DEF Moves
  <2> QED  BY <1>3, <1>4, <2>1, <2>2 DEF KeyInv
<1>6. CASE loc[r].keyed
  <2>1. InFlight(r) /\ pc[r] \in Before
    BY <1>6 DEF InFlight, Create, At, Before
  <2>2. Keyed = {} /\ record.st = "IN_PROGRESS"
    BY <2>1 DEF KeyInv
  <2>3. Keyed' = {Len(docs) + 1}
    <3>1. \A k \in 1 .. Len(docs) : ~docs'[k].keyed
      BY <1>1, <2>2 DEF Keyed
    <3>2. 1 .. Len(docs') = (1 .. Len(docs)) \cup {Len(docs) + 1}
      BY <1>1, <1>2
    <3>3. Keyed' = {k \in (1 .. Len(docs)) \cup {Len(docs) + 1} : docs'[k].keyed}
      BY <3>2 DEF Keyed
    <3> QED  BY <1>1, <1>6, <3>1, <3>3
  <2>4. \A q \in Requests : InFlight(q)' => q = r /\ pc'[q] \notin Before
    BY <1>4, <2>1 DEF KeyInv
  <2> QED  BY <1>3, <1>4, <2>2, <2>3, <2>4 DEF KeyInv
<1> QED  BY <1>5, <1>6

\* The answer that is kept is the first.
LEMMA KeyByCompletion ==
  ASSUME Typed, KeyInv, NEW r \in Requests, Complete(r)
  PROVE  KeyInv'
<1>1. UNCHANGED <<docs, clock, lapsed>> /\ Keyed' = Keyed
  BY DEF Complete, Keyed
<1> SUFFICES ASSUME ~lapsed PROVE KeyInv'
  BY <1>1 DEF KeyInv
<1>2. InFlight(r) /\ pc[r] = "complete" /\ record.st = "IN_PROGRESS" /\ told = {}
  BY DEF Complete, At, Typed, Fits, InFlight, KeyInv
<1>3. CASE Moves(r, "drop", loc[r]) /\ UNCHANGED <<record, told>>
  <2>1. KeyLeft(r) /\ \A q \in Requests \ {r} : pc'[q] = pc[q] /\ loc'[q] = loc[q]
    BY <1>2, <1>3 DEF KeyLeft, InFlight, Moves, Before
  <2> QED  BY <1>1, <1>3, <2>1, KeyMoves
<1>4. CASE /\ Moves(r, "idle", Forgotten(loc[r])) /\ ~loc'[r].keyed
           /\ record'.st = "COMPLETED" /\ record'.doc = loc[r].doc
           /\ told' = told \cup {loc[r].doc}
  <2>1. \A q \in Requests : pc'[q] # "reclaim" /\ ~InFlight(q)'
    BY <1>2, <1>4 DEF Moves, InFlight, KeyInv
  <2>2. ~RanOut' /\ told' = {record'.doc}
    BY <1>2, <1>4 DEF RanOut
  <2>3. \A j, k \in Keyed' : j = k
    BY <1>1 DEF KeyInv
  <2> QED  BY <1>4, <2>1, <2>2, <2>3 DEF KeyInv
<1> QED  BY <1>3, <1>4, CompleteStep

LEMMA NextKey == Typed /\ KeyInv /\ [Next]_vars => KeyInv'
<1> SUFFICES ASSUME Typed, KeyInv, [Next]_vars PROVE KeyInv'
  OBVIOUS
<1>1. CASE UNCHANGED vars
  <2>1. ~lapsed => \A r \in Requests : KeyLeft(r)
    BY <1>1 DEF vars, KeyLeft, KeyInv, InFlight
  <2> QED  BY <1>1, <2>1, KeyUntouched DEF vars
<1>2. CASE LogLocked
  <2>1. ~lapsed => \A r \in Requests : KeyLeft(r)
    BY <1>2 DEF LogLocked, KeyLeft, KeyInv, InFlight
  <2> QED  BY <1>2, <2>1, KeyUntouched DEF LogLocked
<1>3. CASE Tick
  <2>1. /\ UNCHANGED <<record, docs, pc, loc, told>>
        /\ lapsed' = (lapsed \/ RanOut')
    BY <1>3 DEF Tick, Watch
  <2>2. Keyed' = Keyed /\ \A q \in Requests : InFlight(q)' = InFlight(q)
    BY <2>1 DEF Keyed, InFlight
  <2> QED  BY <2>1, <2>2 DEF KeyInv
<1>4. ASSUME NEW r \in Requests, Drop(r)
      PROVE  KeyInv'
  BY <1>4, DropStep DEF KeyInv
<1>5. ASSUME NEW r \in Requests, Handler(r) \/ Fail(r)
      PROVE  KeyInv'
  BY <1>5, KeyByHandler, KeyByCreation DEF Handler
<1> QED  BY <1>1, <1>2, <1>3, <1>4, <1>5, KeyByReceipt, KeyByTaking, KeyByCompletion, KeyByCopy
         DEF Next

LEMMA AlwaysKey == Spec => []KeyInv
  BY InitKey, NextKey, AlwaysTyped, PTL DEF Spec

LEMMA OneAtMost ==
  ASSUME NEW S, \A j, k \in S : j = k
  PROVE  Cardinality(S) <= 1
<1>1. CASE S = {}
  BY <1>1, FS_EmptySet
<1>2. CASE S # {}
  <2>1. PICK j \in S : TRUE
    BY <1>2
  <2>2. S = {j}
    BY <2>1
  <2> QED  BY <2>2, FS_Singleton
<1> QED  BY <1>1, <1>2

\* However often and closely a client retries under one key, the key makes one
\* document, and every answer names it, until a lease has run out or the key was
\* given up.
THEOREM KeyMakesOne == Spec => []OneDocument
<1>1. ASSUME KeyInv, ~lapsed
      PROVE  Cardinality(Keyed) <= 1 /\ Cardinality(told) <= 1
  <2>1. \A j, k \in Keyed : j = k
    BY <1>1 DEF KeyInv
  <2>2. \A j, k \in told : j = k
    BY <1>1 DEF KeyInv
  <2> QED  BY <2>1, <2>2, OneAtMost
<1>2. KeyInv => OneDocument
  BY <1>1 DEF OneDocument
<1> QED  BY <1>2, AlwaysKey, PTL

----------------------------------------------------------------------------
(* The quotas                                                              *)

\* The numbers are numbers.
LEMMA Counts ==
  ASSUME Typed
  PROVE  /\ Len(docs) \in Nat /\ used \in Nat /\ copied \in Nat /\ uncounted \in Nat
         /\ MaxDocuments \in Nat /\ StorageQuota \in Nat
  BY QuotaAssumption DEF Typed, TypeOK

\* A step that makes and counts nothing, and brings nobody past a check.
LEMMA QuotaUntouched ==
  ASSUME Typed, QuotaInv, UNCHANGED <<docs, bytes>>,
         "quota" \notin raced' => "quota" \notin raced,
         \A r \in Requests : \/ pc'[r] = pc[r]
                             \/ /\ pc'[r] \notin {"storage", "create", "usage"}
                                /\ pc[r] # "usage"
                             \/ pc'[r] = "storage" /\ pc[r] = "count" /\ Room
                             \/ pc'[r] = "create" /\ pc[r] = "storage" /\ used + 1 <= StorageQuota
  PROVE  QuotaInv'
<1> SUFFICES ASSUME "quota" \notin raced' PROVE QuotaInv'
  BY DEF QuotaInv
<1>1. /\ "quota" \notin raced /\ QuotaKept'
      /\ \A r \in Requests : pc'[r] = "usage" <=> pc[r] = "usage"
  BY DEF QuotaInv, QuotaKept
<1>2. \A r \in Requests : pc'[r] \in {"storage", "create"} => Len(docs) < MaxDocuments + copied
  BY <1>1, Counts DEF QuotaInv, Room
<1>3. \A r \in Requests : pc'[r] = "create" => used + 1 <= StorageQuota
  BY <1>1 DEF QuotaInv
<1> QED  BY <1>1, <1>2, <1>3 DEF QuotaInv

\* One request fills a place that is its own.
LEMMA QuotaByCreation ==
  ASSUME Typed, QuotaInv, NEW r \in Requests, Create(r)
  PROVE  QuotaInv'
<1> SUFFICES ASSUME "quota" \notin raced' PROVE QuotaInv'
  BY DEF QuotaInv
<1>1. /\ "quota" \notin raced /\ UNCHANGED bytes /\ pc[r] = "create"
      /\ \A q \in Requests \ {r} : pc[q] \notin {"storage", "create", "usage"}
  BY DEF Create, Others, At
<1>2. /\ Len(docs') = Len(docs) + 1 /\ pc'[r] = "usage"
      /\ \A q \in Requests \ {r} : pc'[q] = pc[q]
  BY CreateStep DEF Moves
<1>3. /\ Len(docs) < MaxDocuments + copied /\ used + 1 <= StorageQuota
      /\ Len(docs) <= used + uncounted
  BY <1>1 DEF QuotaInv
<1>4. /\ Len(docs') <= MaxDocuments + copied /\ Len(docs') <= StorageQuota + uncounted
      /\ Len(docs') <= used + uncounted + 1
  BY <1>2, <1>3, Counts
<1>5. \A q \in Requests : /\ pc'[q] \notin {"storage", "create"}
                          /\ pc'[q] = "usage" => q = r
  BY <1>1, <1>2
<1> QED  BY <1>1, <1>2, <1>4, <1>5 DEF QuotaInv, QuotaKept

\* The bytes of the one document that waits for it are added, or lost.
LEMMA QuotaByCounting ==
  ASSUME Typed, QuotaInv, NEW r \in Requests, pc[r] = "usage",
         UNCHANGED <<docs, copied>>, "quota" \notin raced' => "quota" \notin raced,
         used' \in Nat, uncounted' \in Nat, used' + uncounted' = used + uncounted + 1,
         uncounted <= uncounted',
         \/ used' = used
         \/ "quota" \notin raced' => \A q \in Requests : pc[q] # "create",
         pc'[r] \notin {"storage", "create", "usage"},
         \A q \in Requests \ {r} : pc'[q] = pc[q]
  PROVE  QuotaInv'
<1> SUFFICES ASSUME "quota" \notin raced' PROVE QuotaInv'
  BY DEF QuotaInv
<1>1. \A q \in Requests : /\ pc'[q] # "usage"
                          /\ pc'[q] \in {"storage", "create"} => pc'[q] = pc[q]
  BY DEF QuotaInv
<1>2. Len(docs) <= used' + uncounted' /\ Len(docs) <= used' + uncounted' + 1
  <2>1. \A n, k \in Nat : n <= k => n <= k + 1
    OBVIOUS
  <2>2. Len(docs) <= used + uncounted + 1
    BY DEF QuotaInv
  <2> QED  BY <2>1, <2>2, Counts
<1>3. QuotaKept'
  <2>1. Len(docs) <= MaxDocuments + copied /\ Len(docs) <= StorageQuota + uncounted
    BY DEF QuotaInv, QuotaKept
  <2>2. Len(docs) <= StorageQuota + uncounted'
    BY <2>1, Counts
  <2> QED  BY <2>1, <2>2 DEF QuotaKept
<1>4. \A q \in Requests : pc'[q] \in {"storage", "create"} => Len(docs) < MaxDocuments + copied
  BY <1>1 DEF QuotaInv
<1>5. \A q \in Requests : pc'[q] = "create" => used' + 1 <= StorageQuota
  BY <1>1 DEF QuotaInv
<1> QED  BY <1>1, <1>2, <1>3, <1>4, <1>5 DEF QuotaInv

\* A copy is held against nothing.
LEMMA QuotaByCopy ==
  ASSUME Typed, QuotaInv, NEW r \in Requests, NEW p \in Payloads, Copy(r, p)
  PROVE  QuotaInv'
<1> SUFFICES ASSUME "quota" \notin raced' PROVE QuotaInv'
  BY DEF QuotaInv
<1>1. /\ "quota" \notin raced /\ used' = used /\ pc[r] = "idle"
      /\ copied' = copied + 1 /\ uncounted' = uncounted + 1
  BY DEF Copy, Begin, At
<1>2. /\ Len(docs') = Len(docs) + 1 /\ pc'[r] = "last"
      /\ \A q \in Requests \ {r} : pc'[q] = pc[q]
  BY CopyStep DEF Moves
<1>3. \A q \in Requests : pc'[q] \in {"storage", "create", "usage"} <=> 
                            pc[q] \in {"storage", "create", "usage"} /\ pc'[q] = pc[q]
  BY <1>1, <1>2
<1>4. QuotaKept'
  <2>1. Len(docs) <= MaxDocuments + copied /\ Len(docs) <= StorageQuota + uncounted
    BY <1>1 DEF QuotaInv, QuotaKept
  <2>2. Len(docs') <= MaxDocuments + copied' /\ Len(docs') <= StorageQuota + uncounted'
    BY <1>1, <1>2, <2>1, Counts
  <2> QED  BY <2>2 DEF QuotaKept
<1>5. \A q \in Requests : pc'[q] \in {"storage", "create"}
                            => Len(docs') < MaxDocuments + copied'
  <2>1. Len(docs) < MaxDocuments + copied => Len(docs') < MaxDocuments + copied'
    BY <1>1, <1>2, Counts
  <2> QED  BY <1>1, <1>3, <2>1 DEF QuotaInv
<1>6. /\ (\A q \in Requests : pc'[q] # "usage") => Len(docs') <= used' + uncounted'
      /\ Len(docs') <= used' + uncounted' + 1
  <2>1. /\ Len(docs) <= used + uncounted => Len(docs') <= used' + uncounted'
        /\ Len(docs) <= used + uncounted + 1 => Len(docs') <= used' + uncounted' + 1
    BY <1>1, <1>2, Counts
  <2>2. (\A q \in Requests : pc'[q] # "usage") => \A q \in Requests : pc[q] # "usage"
    BY <1>1, <1>2
  <2> QED  BY <1>1, <2>1, <2>2 DEF QuotaInv
<1> QED  BY <1>1, <1>3, <1>4, <1>5, <1>6 DEF QuotaInv

\* Where a step of the others leaves one request.
LEMMA QuotaMoves ==
  ASSUME Typed, QuotaInv, NEW r \in Requests, UNCHANGED <<docs, bytes>>,
         "quota" \notin raced' => "quota" \notin raced, NEW label, NEW l,
         Moves(r, label, l), pc[r] # "usage",
         \/ label \notin {"storage", "create", "usage"}
         \/ label = "storage" /\ pc[r] = "count" /\ Room
         \/ label = "create" /\ pc[r] = "storage" /\ used + 1 <= StorageQuota
  PROVE  QuotaInv'
BY QuotaUntouched DEF Moves

LEMMA NextQuota == Typed /\ QuotaInv /\ [Next]_vars => QuotaInv'
<1> SUFFICES ASSUME Typed, QuotaInv, [Next]_vars PROVE QuotaInv'
  OBVIOUS
<1>1. CASE UNCHANGED vars \/ LogLocked \/ Tick
  BY <1>1, QuotaUntouched DEF vars, LogLocked, Tick
<1>2. ASSUME NEW r \in Requests, NEW p \in Payloads, Unkeyed(r, p)
      PROVE  QuotaInv'
  BY <1>2, UnkeyedStep, QuotaMoves DEF Unkeyed, Begin, At
<1>3. ASSUME NEW r \in Requests, NEW p \in Payloads, Receive(r, p)
      PROVE  QuotaInv'
  BY <1>3, ReceiveStep, QuotaMoves DEF Receive, Begin, At
<1>4. ASSUME NEW r \in Requests, NEW p \in Payloads, Replay(r, p)
      PROVE  QuotaInv'
  BY <1>4, QuotaUntouched DEF Replay
<1>5. ASSUME NEW r \in Requests, Reserve(r) \/ Reclaim(r)
      PROVE  QuotaInv'
  <2>1. UNCHANGED <<docs, bytes, raced>> /\ pc[r] # "usage"
    BY <1>5 DEF Reserve, Reclaim, At
  <2> QED  BY <1>5, <2>1, TakeStep, QuotaMoves
<1>6. ASSUME NEW r \in Requests, CountDocuments(r) \/ CheckStorage(r)
      PROVE  QuotaInv'
  <2>1. UNCHANGED <<docs, bytes, raced>> /\ pc[r] # "usage"
    BY <1>6 DEF CountDocuments, CheckStorage, history, At
  <2> QED  BY <1>6, <2>1, CheckStep, QuotaMoves DEF At
<1>7. ASSUME NEW r \in Requests, LogRead(r) \/ LogAppend(r) \/ Publish(r)
      PROVE  QuotaInv'
  <2>1. /\ UNCHANGED <<docs, bytes>> /\ ("quota" \notin raced' => "quota" \notin raced)
        /\ pc[r] # "usage"
    BY <1>7 DEF LogRead, LogAppend, Publish, history, At
  <2> QED  BY <1>7, <2>1, LogReadStep, LogAppendStep, PublishStep, QuotaMoves
<1>8. ASSUME NEW r \in Requests, Complete(r) \/ Drop(r)
      PROVE  QuotaInv'
  <2>1. UNCHANGED <<docs, bytes, raced>> /\ pc[r] # "usage"
    BY <1>8 DEF Complete, Drop, At
  <2> QED  BY <1>8, <2>1, CompleteStep, DropStep, QuotaMoves
<1>9. ASSUME NEW r \in Requests, CountBytes(r)
      PROVE  QuotaInv'
  <2>1. /\ UNCHANGED <<docs, copied, uncounted>> /\ used' = used + 1 /\ pc[r] = "usage"
        /\ "quota" \notin raced' => /\ "quota" \notin raced
                                    /\ \A q \in Requests : pc[q] # "create"
    BY <1>9 DEF CountBytes, Others, At
  <2>2. pc'[r] = "last" /\ \A q \in Requests \ {r} : pc'[q] = pc[q]
    BY <1>9, CountBytesStep DEF Moves
  <2>3. /\ used' \in Nat /\ uncounted' \in Nat
        /\ used' + uncounted' = used + uncounted + 1 /\ uncounted <= uncounted'
    BY <2>1, Counts
  <2> QED  BY <2>1, <2>2, <2>3, QuotaByCounting
<1>10. ASSUME NEW r \in Requests, Fail(r)
       PROVE  QuotaInv'
  <2>1. /\ UNCHANGED <<docs, used, copied, raced>> /\ Moves(r, "idle", Forgotten(loc[r]))
        /\ uncounted' = IF pc[r] = "usage" THEN uncounted + 1 ELSE uncounted
    BY <1>10, FailStep DEF Fail, At, history
  <2>2. CASE pc[r] = "usage"
    <3>1. /\ used' \in Nat /\ uncounted' \in Nat
          /\ used' + uncounted' = used + uncounted + 1 /\ uncounted <= uncounted'
      BY <2>1, <2>2, Counts
    <3> QED  BY <2>1, <2>2, <3>1, QuotaByCounting DEF Moves
  <2>3. CASE pc[r] # "usage"
    BY <2>1, <2>3, QuotaMoves
  <2> QED  BY <2>2, <2>3
<1> QED  BY <1>1, <1>2, <1>3, <1>4, <1>5, <1>6, <1>7, <1>8, <1>9, <1>10, QuotaByCreation,
            QuotaByCopy
         DEF Next, Handler

\* What is stored exceeds a quota by no more than copies and documents whose bytes
\* were never added, unless a request creates or adds between another's check and
\* its own creation or addition; for any quotas and any statements that fail.
THEOREM QuotasAreKept == Spec => []QuotaKept
<1>1. Init => QuotaInv
  <2> SUFFICES ASSUME Init PROVE QuotaInv
    OBVIOUS
  <2>1. /\ Len(docs) = 0 /\ used = 0 /\ copied = 0 /\ uncounted = 0
        /\ \A r \in Requests : pc[r] = "idle"
    BY DEF Init
  <2> QED  BY <2>1, QuotaAssumption DEF QuotaInv, QuotaKept
<1>2. QuotaInv => QuotaKept
  BY DEF QuotaInv, QuotaKept
<1> QED  BY <1>1, <1>2, NextQuota, AlwaysTyped, PTL DEF Spec

----------------------------------------------------------------------------
(* The audit trail                                                         *)

LEMMA EntriesTyped ==
  ASSUME Typed, NEW k \in 1 .. Len(log)
  PROVE  log[k].at \in Nat
<1>1. log[k] \in Entry
  BY DEF Typed, TypeOK
<1> QED  BY <1>1 DEF Entry

\* When the entries are in order and of different instants, the newest is the last.
LEMMA NewestIsLast ==
  ASSUME Typed, TimeInv, ~OneInstant, NEW k \in IF log = <<>> THEN {0} ELSE Newest
  PROVE  k = Len(log)
<1>1. log \in Seq(Entry) /\ Len(log) \in Nat
  BY DEF Typed, TypeOK
<1>2. CASE log = <<>>
  BY <1>2
<1>3. CASE log # <<>>
  <2>1. k \in 1 .. Len(log) /\ \A j \in 1 .. Len(log) : log[j].at <= log[k].at
    BY <1>3 DEF Newest
  <2>2. Len(log) \in 1 .. Len(log)
    BY <1>1, <2>1
  <2>3. log[Len(log)].at <= log[k].at /\ log[k].at <= log[Len(log)].at
    BY <2>1, <2>2 DEF TimeInv
  <2>4. log[k].at \in Nat /\ log[Len(log)].at \in Nat
    BY <2>1, <2>2, EntriesTyped
  <2>5. log[k].at = log[Len(log)].at
    BY <2>3, <2>4
  <2> QED  BY <2>1, <2>2, <2>5 DEF OneInstant
<1> QED  BY <1>2, <1>3

\* A step that adds nothing to the log, nor brings a request near it.
LEMMA TrailUntouched ==
  ASSUME TimeInv /\ ChainInv, UNCHANGED <<log, clock, raced>>,
         \A r \in Requests : pc'[r] = "append" => pc[r] = "append" /\ loc'[r].prev = loc[r].prev
  PROVE  TimeInv' /\ ChainInv'
<1>1. OneInstant' = OneInstant /\ TimeInv'
  BY DEF OneInstant, TimeInv
<1> QED  BY <1>1 DEF ChainInv

LEMMA TrailMoves ==
  ASSUME Typed, TimeInv /\ ChainInv, NEW r \in Requests, UNCHANGED <<log, clock>>,
         "log" \notin raced' => "log" \notin raced,
         NEW label, NEW l, Moves(r, label, l), label # "append"
  PROVE  TimeInv' /\ ChainInv'
<1>1. OneInstant' = OneInstant /\ TimeInv'
  BY DEF OneInstant, TimeInv
<1>2. \A q \in Requests : pc'[q] = "append" => pc[q] = "append" /\ loc'[q].prev = loc[q].prev
  BY DEF Moves
<1> QED  BY <1>1, <1>2 DEF ChainInv

\* What a log adds: an entry of now.  If it comes between nobody's look-up and
\* entry, and continues the last, the log stays a chain.
LEMMA TrailGrows ==
  ASSUME Typed, TimeInv /\ ChainInv, NEW k \in Nat,
         log' = Append(log, [prev |-> k, at |-> clock]), UNCHANGED clock,
         "log" \notin raced' => "log" \notin raced
                                /\ \A q \in Requests : pc'[q] # "append",
         "log" \notin raced' /\ ~OneInstant => k = Len(log)
  PROVE  TimeInv' /\ ChainInv'
<1> DEFINE e == [prev |-> k, at |-> clock]
<1>1. log \in Seq(Entry) /\ Len(log) \in Nat /\ clock \in Nat
  BY BoundsAssumption DEF Typed, TypeOK
<1>2. e \in Entry /\ e.prev = k /\ e.at = clock
  BY <1>1 DEF Entry
<1>3. log' = Append(log, e)
  OBVIOUS
<1> HIDE DEF e
<1>4. /\ Len(log') = Len(log) + 1 /\ log'[Len(log) + 1] = e
      /\ \A j \in 1 .. Len(log) : log'[j] = log[j]
  BY <1>1, <1>2, <1>3
<1>5. \A j \in 1 .. Len(log') : j \in 1 .. Len(log) \/ j = Len(log) + 1
  BY <1>1, <1>4
<1>6. \A j \in 1 .. Len(log') : log'[j].at <= clock
  BY <1>1, <1>2, <1>4, <1>5 DEF TimeInv
<1>7. \A i, j \in 1 .. Len(log') : i <= j => log'[i].at <= log'[j].at
  <2> SUFFICES ASSUME NEW i \in 1 .. Len(log'), NEW j \in 1 .. Len(log'), i <= j
               PROVE  log'[i].at <= log'[j].at
    OBVIOUS
  <2>1. CASE j \in 1 .. Len(log)
    <3>1. i \in 1 .. Len(log)
      BY <1>1, <1>4, <1>5, <2>1
    <3> QED  BY <1>4, <2>1, <3>1 DEF TimeInv
  <2>2. CASE j = Len(log) + 1
    BY <1>2, <1>4, <1>6, <2>2
  <2> QED  BY <1>5, <2>1, <2>2
<1>8. TimeInv'
  BY <1>6, <1>7 DEF TimeInv
<1>9. OneInstant => OneInstant'
  BY <1>1, <1>4 DEF OneInstant
<1>10. ChainInv'
  <2> SUFFICES ASSUME "log" \notin raced', ~OneInstant'
               PROVE  /\ \A j \in 1 .. Len(log') : log'[j].prev = j - 1
                      /\ \A q \in Requests : pc'[q] # "append"
    BY DEF ChainInv
  <2>1. k = Len(log) /\ \A j \in 1 .. Len(log) : log[j].prev = j - 1
    BY <1>9 DEF ChainInv
  <2>2. \A j \in 1 .. Len(log') : log'[j].prev = j - 1
    BY <1>1, <1>2, <1>4, <1>5, <2>1
  <2> QED  BY <2>2
<1> QED  BY <1>8, <1>10

LEMMA TrailByLog ==
  ASSUME Typed, TimeInv /\ ChainInv, NEW r \in Requests, LogRead(r) \/ LogAppend(r)
  PROVE  TimeInv' /\ ChainInv'
<1>1. CASE LogRead(r)
  <2>1. /\ UNCHANGED <<log, clock, raced>> /\ Moves(r, "append", loc'[r])
        /\ loc'[r].prev \in IF log = <<>> THEN {0} ELSE Newest
    BY <1>1, LogReadStep DEF LogRead, history
  <2>2. OneInstant' = OneInstant /\ TimeInv'
    BY <2>1 DEF OneInstant, TimeInv
  <2>3. ~OneInstant => loc'[r].prev = Len(log)
    BY <2>1, NewestIsLast
  <2>4. \A q \in Requests \ {r} : pc'[q] = pc[q] /\ loc'[q] = loc[q]
    BY <2>1 DEF Moves
  <2> QED  BY <2>1, <2>2, <2>3, <2>4 DEF ChainInv
<1>2. CASE LogAppend(r)
  <2>1. /\ log' = Append(log, [prev |-> loc[r].prev, at |-> clock]) /\ clock' = clock
        /\ pc[r] = "append" /\ loc[r].prev \in Nat
    BY <1>2 DEF LogAppend, At, Typed, TypeOK, Locals
  <2>2. "log" \notin raced' => /\ "log" \notin raced
                               /\ \A q \in Requests \ {r} : pc[q] # "append"
    BY <1>2 DEF LogAppend, Others
  <2>3. pc'[r] \in {"publish", "idle"} /\ \A q \in Requests \ {r} : pc'[q] = pc[q]
    BY <1>2, LogAppendStep DEF Moves
  <2>4. "log" \notin raced' => \A q \in Requests : pc'[q] # "append"
    BY <2>2, <2>3
  <2>5. "log" \notin raced' /\ ~OneInstant => loc[r].prev = Len(log)
    BY <2>1, <2>2 DEF ChainInv
  <2> QED  BY <2>1, <2>2, <2>4, <2>5, TrailGrows
<1> QED  BY <1>1, <1>2

LEMMA TrailByOthers ==
  ASSUME Typed, TimeInv /\ ChainInv, LogLocked
  PROVE  TimeInv' /\ ChainInv'
<1>1. PICK k \in IF log = <<>> THEN {0} ELSE Newest :
         log' = Append(log, [prev |-> k, at |-> clock])
  BY DEF LogLocked
<1>2. k \in Nat /\ (~OneInstant => k = Len(log))
  BY NewestIsLast DEF Newest
<1>3. /\ clock' = clock /\ pc' = pc
      /\ "log" \notin raced' => "log" \notin raced /\ \A q \in Requests : pc[q] # "append"
  BY DEF LogLocked, At
<1>4. \A q \in Requests : pc'[q] = pc[q]
  BY <1>3
<1>5. "log" \notin raced' => "log" \notin raced /\ \A q \in Requests : pc'[q] # "append"
  BY <1>3, <1>4
<1> QED  BY <1>1, <1>2, <1>3, <1>5, TrailGrows

LEMMA NextTrail == Typed /\ TimeInv /\ ChainInv /\ [Next]_vars => TimeInv' /\ ChainInv'
<1> SUFFICES ASSUME Typed, TimeInv /\ ChainInv, [Next]_vars PROVE TimeInv' /\ ChainInv'
  OBVIOUS
<1>1. CASE UNCHANGED vars
  BY <1>1, TrailUntouched DEF vars
<1>2. CASE Tick
  <2>1. UNCHANGED <<log, pc, loc, raced>> /\ clock' = clock + 1
    BY <1>2 DEF Tick
  <2>2. \A k \in 1 .. Len(log) : log[k].at \in Nat
    BY EntriesTyped
  <2>3. TimeInv'
    BY <2>1, <2>2, BoundsAssumption DEF TimeInv, Typed, TypeOK
  <2> QED  BY <2>1, <2>3 DEF ChainInv, OneInstant
<1>3. ASSUME NEW r \in Requests, NEW p \in Payloads, Unkeyed(r, p)
      PROVE  TimeInv' /\ ChainInv'
  BY <1>3, UnkeyedStep, TrailMoves DEF Unkeyed
<1>4. ASSUME NEW r \in Requests, NEW p \in Payloads, Receive(r, p)
      PROVE  TimeInv' /\ ChainInv'
  BY <1>4, ReceiveStep, TrailMoves DEF Receive
<1>5. ASSUME NEW r \in Requests, NEW p \in Payloads, Replay(r, p)
      PROVE  TimeInv' /\ ChainInv'
  BY <1>5, TrailUntouched DEF Replay
<1>6. ASSUME NEW r \in Requests, Reserve(r) \/ Reclaim(r) \/ Complete(r) \/ Drop(r)
      PROVE  TimeInv' /\ ChainInv'
  <2>1. UNCHANGED <<log, clock, raced>>
    BY <1>6 DEF Reserve, Reclaim, Complete, Drop
  <2> QED  BY <1>6, <2>1, TakeStep, CompleteStep, DropStep, TrailMoves
<1>7. ASSUME NEW r \in Requests, CountDocuments(r) \/ CheckStorage(r) \/ Fail(r) \/ Publish(r)
      PROVE  TimeInv' /\ ChainInv'
  <2>1. UNCHANGED <<log, clock, raced>>
    BY <1>7 DEF CountDocuments, CheckStorage, Fail, Publish, history
  <2> QED  BY <1>7, <2>1, CheckStep, FailStep, PublishStep, TrailMoves
<1>8. ASSUME NEW r \in Requests, Create(r) \/ CountBytes(r)
      PROVE  TimeInv' /\ ChainInv'
  <2>1. UNCHANGED <<log, clock>> /\ ("log" \notin raced' => "log" \notin raced)
    BY <1>8 DEF Create, CountBytes
  <2> QED  BY <1>8, <2>1, CreateStep, CountBytesStep, TrailMoves
<1>9. ASSUME NEW r \in Requests, NEW p \in Payloads, Copy(r, p)
      PROVE  TimeInv' /\ ChainInv'
  BY <1>9, CopyStep, TrailMoves DEF Copy
<1> QED  BY <1>1, <1>2, <1>3, <1>4, <1>5, <1>6, <1>7, <1>8, <1>9, TrailByLog, TrailByOthers
         DEF Next, Handler

\* Each entry of the audit trail continues the one before, unless a log came
\* between another's look-up and its entry, or two entries are of one instant.
THEOREM TrailIsAChain == Spec => []ChainLinear
<1>1. Init => TimeInv /\ ChainInv
  <2> SUFFICES ASSUME Init PROVE TimeInv /\ ChainInv
    OBVIOUS
  <2>1. Len(log) = 0 /\ \A r \in Requests : pc[r] = "idle"
    BY DEF Init
  <2> QED  BY <2>1 DEF TimeInv, ChainInv
<1>2. ChainInv => ChainLinear
  BY DEF ChainInv, ChainLinear, OneInstant
<1> QED  BY <1>1, <1>2, NextTrail, AlwaysTyped, PTL DEF Spec
==============================================================================
