------------------------------ MODULE SignerOtp ------------------------------
(***************************************************************************)
(* The one-time code that a guest proves its mailbox with, for ONE         *)
(* recipient of an agreement: sendSignerOtp, verifySignerOtp and the gate  *)
(* at the head of submitRecipientSignature in WorkflowService.             *)
(*                                                                         *)
(* A code lives twice: in a static Map, which is the memory of one Workers *)
(* isolate and gone when the platform evicts the isolate, and in the       *)
(* recipient's row, inside the JSON of signatureData.  Every handler reads *)
(* the row once, decides, and writes the whole JSON back from that read.   *)
(*                                                                         *)
(* One action is a database read with the code that runs up to the next    *)
(* await, or one database write, or the mail.  Any client may call in any  *)
(* order: the page's own order and its countdown are left out.  Codes are  *)
(* numbers in the order of their creation; they live equally long.         *)
(***************************************************************************)
EXTENDS Naturals

CONSTANTS
    Isolates,   \* isolates that serve requests, each with a memory of its own
    Requests,   \* requests in flight at once
    MaxTries,   \* wrong codes after which a code is dead: 5 in the code
    MaxCodes,   \* bound: codes sent
    Faults      \* TRUE: a database or mail call may throw, an isolate may die

ASSUME TriesAssumption == MaxTries \in Nat \ {0}
ASSUME CodesAssumption == MaxCodes \in Nat
ASSUME FaultsAssumption == Faults \in BOOLEAN

VARIABLES
    row,        \* the recipient's row: status and signatureData
    mem,        \* otpStore of each isolate: its entry for this recipient
    last,       \* codes generated so far, the newest number
    stale,      \* codes up to this number have expired
    mailed,     \* codes that reached the mailbox
    pc, loc,    \* where each request is, and what it knows
    proved,     \* history: codes that some request has entered right
    overlap,    \* history: requests overlapped since a send that began alone
    wrong,      \* history: mismatches since the last send
    refused,    \* history: of these, the ones verifySignerOtp has answered
    spent       \* history: and the ones of submissions that are still counted

vars == <<row, mem, last, stale, mailed, pc, loc, proved, overlap, wrong, refused, spent>>

code    == <<last, mailed>>
tried   == <<refused, spent>>
history == <<proved, overlap, wrong, tried>>

----------------------------------------------------------------------------
(* Rows, memory and requests *)

\* An entry without a code is {}, or _otp without hash and expiry; `is` tells
\* whether there is an entry at all.
Otp == [is : BOOLEAN, code : Nat, verified : BOOLEAN, tries : Nat]

NoOtp == [is |-> FALSE, code |-> 0, verified |-> FALSE, tries |-> 0]

Fresh(c) == [is |-> TRUE, code |-> c, verified |-> FALSE, tries |-> 0]

\* drawn: signatureData holds a signature; guest: it came from a guest.
RecipientRow == [st : {"INVITED", "SIGNED", "DECLINED"}, drawn : BOOLEAN, otp : Otp,
                 guest : BOOLEAN]

\* at: the isolate; row: the row as it was read; otp: the _otp to write;
\* guest: signedAsGuest.
Locals == [at : SUBSET Isolates, row : RecipientRow, otp : Otp, guest : BOOLEAN]

NewRow == [st |-> "INVITED", drawn |-> FALSE, otp |-> NoOtp, guest |-> FALSE]

NoLocals == [at |-> {}, row |-> NewRow, otp |-> NoOtp, guest |-> FALSE]

PCs == {"idle", "send_write", "send_mail", "refuse_write", "verify_write",
        "sign_write", "decline_write"}

Move(r, label, l) ==
    /\ pc' = [pc EXCEPT ![r] = label]
    /\ loc' = [loc EXCEPT ![r] = l]

Return(r) == Move(r, "idle", NoLocals)

\* Bound: the history counts as far as the properties ask.
UpTo(n, k) == IF k > n THEN n ELSE k

Alone(r) == \A q \in Requests \ {r} : pc[q] = "idle"

Init ==
    /\ row = NewRow
    /\ mem = [i \in Isolates |-> NoOtp]
    /\ last = 0 /\ stale = 0 /\ mailed = {}
    /\ pc = [r \in Requests |-> "idle"]
    /\ loc = [r \in Requests |-> NoLocals]
    /\ proved = {} /\ overlap = FALSE
    /\ wrong = 0 /\ refused = 0 /\ spent = 0

----------------------------------------------------------------------------
(* sendSignerOtp *)

SendRead(r, i) ==
    /\ pc[r] = "idle"
    /\ row.st = "INVITED"
    /\ last < MaxCodes
    /\ last' = last + 1
    /\ mem' = [mem EXCEPT ![i] = Fresh(last')]
    /\ Move(r, "send_write", [NoLocals EXCEPT !.at = {i}, !.row = row, !.otp = Fresh(last')])
    /\ overlap' = ~Alone(r)
    /\ wrong' = 0 /\ refused' = 0 /\ spent' = 0
    /\ UNCHANGED <<row, stale, mailed, proved>>

\* Fault: the code is kept in memory only.
SendWriteNothing(r) ==
    /\ pc[r] = "send_write"
    /\ Move(r, "send_mail", loc[r])
    /\ UNCHANGED <<row, mem, code, stale, history>>

SendWrite(r) ==
    /\ pc[r] = "send_write"
    /\ row' = [row EXCEPT !.drawn = loc[r].row.drawn, !.otp = loc[r].otp]
    /\ Move(r, "send_mail", loc[r])
    /\ UNCHANGED <<mem, code, stale, history>>

SendMail(r) ==
    /\ pc[r] = "send_mail"
    /\ mailed' = mailed \cup {loc[r].otp.code}
    /\ Return(r)
    /\ UNCHANGED <<row, mem, last, stale, history>>

----------------------------------------------------------------------------
(* What verifySignerOtp and the gate of a submission have in common: the   *)
(* memory of the isolate, where it has an entry, hides the row's.          *)

Held(m, o) == IF m.is THEN m ELSE o

Expired(o) == o.code <= stale

Matches(o, c) == o.code = c /\ c # 0

\* Fault: the answer to the send carries the code.
TypedUnseen == 0 .. last

\* What a client may type: a code of the mailbox, or a wrong one, 0.
Typed == mailed \cup {0}

Locked(o) == o.tries >= MaxTries

\* The gate refuses an expired or locked code before it compares.
Open(o) == o.is /\ ~Expired(o) /\ ~Locked(o)

\* A dead entry is dropped from memory.
DropLocked(i, o) ==
    mem' = [mem EXCEPT ![i] = IF ~Expired(o) /\ Locked(o) THEN NoOtp ELSE @]

\* What only a memory has counted is lost with its entry.
Lost(i) == mem[i].is /\ ~mem'[i].is /\ mem[i].tries > row.otp.tries

Forget == spent' = IF \E i \in Isolates : Lost(i) THEN 0 ELSE spent

Enter(r) == pc[r] = "idle" /\ overlap' = (overlap \/ ~Alone(r))

----------------------------------------------------------------------------
(* verifySignerOtp: it looks at no status *)

VerifyClosed(r, i) ==
    /\ Enter(r)
    /\ ~Open(Held(mem[i], row.otp))
    /\ DropLocked(i, Held(mem[i], row.otp)) /\ Forget
    /\ UNCHANGED <<row, code, stale, pc, loc, proved, wrong, refused>>

VerifyMismatch(r, i) ==
    LET o == Held(mem[i], row.otp)
    IN  /\ Enter(r)
        /\ Open(o)
        /\ \E c \in Typed : ~Matches(o, c)
        /\ mem' = [mem EXCEPT ![i].tries = IF mem[i].is THEN @ + 1 ELSE @]
        /\ Move(r, "refuse_write",
                [NoLocals EXCEPT !.at = {i}, !.row = row,
                                 !.otp = [row.otp EXCEPT !.is = TRUE, !.tries = o.tries + 1]])
        /\ wrong' = UpTo(MaxTries, wrong + 1)
        /\ UNCHANGED <<row, code, stale, proved, tried>>

VerifyMatch(r, i) ==
    LET o == Held(mem[i], row.otp)
    IN  /\ Enter(r)
        /\ Open(o)
        /\ \E c \in Typed : Matches(o, c) /\ proved' = proved \cup {c}
        /\ mem' = [mem EXCEPT ![i].verified = mem[i].is]
        /\ Move(r, "verify_write",
                [NoLocals EXCEPT !.at = {i}, !.row = row,
                                 !.otp = [row.otp EXCEPT !.is = TRUE, !.verified = TRUE]])
        /\ UNCHANGED <<row, code, stale, wrong, tried>>

VerifyWrite(r) ==
    /\ pc[r] \in {"refuse_write", "verify_write"}
    /\ row' = [row EXCEPT !.drawn = loc[r].row.drawn, !.otp = loc[r].otp]
    /\ refused' = IF pc[r] = "refuse_write" THEN UpTo(MaxTries + 1, refused + 1) ELSE refused
    /\ Return(r)
    /\ UNCHANGED <<mem, code, stale, proved, overlap, wrong, spent>>

----------------------------------------------------------------------------
(* submitRecipientSignature up to its write of SIGNED, and the decline     *)

\* Fault: a guest who has not asked for a code needs none.
UngatedUnasked(i, guest) == ~mem[i].is /\ row.otp.code = 0

\* Signed in, and no code was ever asked for: no gate.
Ungated(i, guest) == ~guest /\ ~mem[i].is /\ row.otp.code = 0

\* What an earlier verification left; memory forgets its age.
Verified(m, o) == (m.is /\ m.verified) \/ (o.verified /\ ~Expired(o))

SubmitSigns(r, guest, i) ==
    Move(r, "sign_write", [NoLocals EXCEPT !.at = {i}, !.row = row, !.guest = guest])

\* Without a code in the request.
SubmitBare(r, i) ==
    /\ Enter(r)
    /\ row.st # "SIGNED"
    /\ \E guest \in BOOLEAN :
         /\ Ungated(i, guest) \/ Verified(mem[i], row.otp)
         /\ SubmitSigns(r, guest, i)
    /\ UNCHANGED <<row, mem, code, stale, proved, wrong, tried>>

\* With a code that matches; memory keeps that it did.
SubmitMatch(r, i) ==
    LET o == Held(mem[i], row.otp)
    IN  /\ Enter(r)
        /\ row.st # "SIGNED"
        /\ Open(o)
        /\ \E c \in Typed : Matches(o, c) /\ proved' = proved \cup {c}
        /\ mem' = [mem EXCEPT ![i].verified = mem[i].is]
        /\ \E guest \in BOOLEAN : ~Ungated(i, guest) /\ SubmitSigns(r, guest, i)
        /\ UNCHANGED <<row, code, stale, wrong, tried>>

\* Fault: the submission counts nothing.
SubmitMismatchUncounted(r, i) ==
    LET o == Held(mem[i], row.otp)
    IN  /\ Enter(r)
        /\ row.st # "SIGNED"
        /\ Open(o)
        /\ \E c \in Typed : ~Matches(o, c)
        /\ wrong' = UpTo(MaxTries, wrong + 1)
        /\ spent' = UpTo(MaxTries + 1, IF mem[i].is THEN spent + 1 ELSE spent)
        /\ UNCHANGED <<row, mem, code, stale, pc, loc, proved, refused>>

\* With a code that does not: it is counted in memory, if there is an entry,
\* and never in the row.
SubmitMismatch(r, i) ==
    LET o == Held(mem[i], row.otp)
    IN  /\ Enter(r)
        /\ row.st # "SIGNED"
        /\ Open(o)
        /\ \E c \in Typed : ~Matches(o, c)
        /\ mem' = [mem EXCEPT ![i].tries = IF mem[i].is THEN @ + 1 ELSE @]
        /\ wrong' = UpTo(MaxTries, wrong + 1)
        /\ spent' = UpTo(MaxTries + 1, IF mem[i].is THEN spent + 1 ELSE spent)
        /\ UNCHANGED <<row, code, stale, pc, loc, proved, refused>>

SubmitLocked(r, i) ==
    /\ Enter(r)
    /\ row.st # "SIGNED"
    /\ Held(mem[i], row.otp).is /\ ~Open(Held(mem[i], row.otp))
    /\ DropLocked(i, Held(mem[i], row.otp)) /\ Forget
    /\ UNCHANGED <<row, code, stale, pc, loc, proved, wrong, refused>>

\* The update replaces signatureData whole, _otp included, or leaves it where
\* the submission carries none (drawn); then the entry in memory goes.
SignWrite(r) ==
    /\ pc[r] = "sign_write"
    /\ \E drawn \in BOOLEAN :
         row' = [st |-> "SIGNED", drawn |-> drawn \/ row.drawn,
                 otp |-> IF drawn THEN NoOtp ELSE row.otp, guest |-> loc[r].guest]
    /\ mem' = [i \in Isolates |-> IF i \in loc[r].at THEN NoOtp ELSE mem[i]]
    /\ Forget
    /\ Return(r)
    /\ UNCHANGED <<code, stale, proved, overlap, wrong, refused>>

DeclineRead(r) ==
    /\ Enter(r)
    /\ Move(r, "decline_write", NoLocals)
    /\ UNCHANGED <<row, mem, code, stale, proved, wrong, tried>>

DeclineWrite(r) ==
    /\ pc[r] = "decline_write"
    /\ row' = [row EXCEPT !.st = "DECLINED"]
    /\ Return(r)
    /\ UNCHANGED <<mem, code, stale, history>>

----------------------------------------------------------------------------
(* The world: time, the platform and failures *)

Expire ==
    /\ stale < last
    /\ stale' = stale + 1
    /\ UNCHANGED <<row, mem, code, pc, loc, history>>

\* The platform drops an isolate that serves no request.
Evict(i) ==
    /\ mem[i].is
    /\ \A r \in Requests : i \notin loc[r].at
    /\ mem' = [mem EXCEPT ![i] = NoOtp] /\ Forget
    /\ UNCHANGED <<row, code, stale, pc, loc, proved, overlap, wrong, refused>>

\* A database call or the mail throws.
Abort(r) ==
    /\ Faults
    /\ pc[r] # "idle"
    /\ Return(r)
    /\ UNCHANGED <<row, mem, code, stale, history>>

Verify(r, i) == VerifyClosed(r, i) \/ VerifyMismatch(r, i) \/ VerifyMatch(r, i)

Submit(r, i) ==
    SubmitBare(r, i) \/ SubmitMatch(r, i) \/ SubmitMismatch(r, i) \/ SubmitLocked(r, i)

Serve(r) ==
    \/ \E i \in Isolates : SendRead(r, i) \/ Verify(r, i) \/ Submit(r, i)
    \/ SendWrite(r) \/ SendMail(r) \/ VerifyWrite(r)
    \/ SignWrite(r) \/ DeclineRead(r) \/ DeclineWrite(r) \/ Abort(r)

Next == (\E r \in Requests : Serve(r)) \/ Expire \/ \E i \in Isolates : Evict(i)

Spec == Init /\ [][Next]_vars

----------------------------------------------------------------------------
(* Properties *)

\* Row, memory, locals and history have the types of schema and code.
TypeOK ==
    /\ row \in RecipientRow
    /\ mem \in [Isolates -> Otp]
    /\ last \in Nat /\ stale \in Nat /\ mailed \subseteq Nat
    /\ pc \in [Requests -> PCs] /\ loc \in [Requests -> Locals]
    /\ proved \subseteq mailed \ {0}
    /\ overlap \in BOOLEAN /\ wrong \in Nat
    /\ refused \in Nat /\ spent \in Nat

\* A guest's signature stands only if a code of the recipient's mailbox was
\* entered right before, whatever requests overlapped, failed or met another
\* isolate (submitRecipientSignature trusts flags that verifySignerOtp left in
\* memory or in the row, and rows that others write back whole).
GuestProved == row.st = "SIGNED" /\ row.guest => proved \cap mailed # {}

\* The newest code is out and requests did not overlap since it was asked for.
Calm == ~overlap /\ last \in mailed /\ \A r \in Requests : pc[r] = "idle"

\* "OTP verification survives isolate rotation": the newest code, unexpired
\* and not tried wrong too often, opens the gate on every isolate, and still
\* would after that isolate has lost its memory (sendSignerOtp keeps memory
\* and row in step).
LatestCodeWorks ==
    Calm /\ last > stale /\ wrong < MaxTries /\ row.st = "INVITED"
      => \A i \in Isolates : \A m \in {mem[i], NoOtp} :
           Open(Held(m, row.otp)) /\ Matches(Held(m, row.otp), last)

\* The wrong codes answered since the last send: all those of verifySignerOtp,
\* and those of submissions that some counter still knows.
Guesses == refused + spent

\* Guessing is bounded: between two sends no more than MaxTries wrong codes
\* are answered, by verifySignerOtp and submitRecipientSignature together.
\* The submission counts in memory alone, so its answers are excepted where no
\* entry counts them, and once an entry ahead of the row is gone: evicted, or
\* dropped because it was locked.
TriesBounded == Calm => Guesses <= MaxTries
=============================================================================
