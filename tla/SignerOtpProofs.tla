--------------------------- MODULE SignerOtpProofs ---------------------------
(***************************************************************************)
(* Theorems about SignerOtp, for any requests, codes and faults.           *)
(*                                                                         *)
(*   TypeCorrect        every row, memory and local keeps its type         *)
(*   GuestsAreProved    a guest's signature rests on an entered code       *)
(* and for one isolate (several do break these):                           *)
(*   GuessesAreBounded  no code is tried more often than allowed           *)
(*   LatestWorks        the code mailed last is not refused                *)
(*                                                                         *)
(* GuestProved is not inductive: a guest's signature rests on flags that   *)
(* lie in a memory, in the row or in the copies that requests carry, and   *)
(* Earned says that none of them is set unless a code was entered.         *)
(***************************************************************************)
EXTENDS SignerOtp, TLAPS

\* A flag set anywhere, and a guest's request past the gate, were earned.
Earned ==
    \/ proved # {}
    \/ /\ \A i \in Isolates : ~mem[i].verified
       /\ ~row.otp.verified
       /\ \A r \in Requests : ~loc[r].otp.verified
       /\ \A r \in Requests : pc[r] = "sign_write" => ~loc[r].guest
       /\ ~(row.st = "SIGNED" /\ row.guest)

IInv == TypeOK /\ Earned

----------------------------------------------------------------------------
LEMMA LocalsTyped == NoLocals \in Locals /\ NewRow \in RecipientRow /\ NoOtp \in Otp
  BY DEF NoLocals, Locals, NewRow, RecipientRow, NoOtp, Otp

\* What any step may do to request r alone.
LEMMA MoveTyped ==
  ASSUME TypeOK, NEW r \in Requests, NEW l \in Locals, NEW label \in PCs,
         Move(r, label, l)
  PROVE  pc' \in [Requests -> PCs] /\ loc' \in [Requests -> Locals]
  BY DEF TypeOK, Move

LEMMA ReturnTyped ==
  ASSUME TypeOK, NEW r \in Requests, Return(r)
  PROVE  pc' \in [Requests -> PCs] /\ loc' \in [Requests -> Locals]
  BY MoveTyped, LocalsTyped DEF Return, PCs

LEMMA HeldTyped ==
  ASSUME TypeOK, NEW i \in Isolates
  PROVE  Held(mem[i], row.otp) \in Otp /\ row.otp \in Otp /\ mem[i] \in Otp
  BY DEF TypeOK, Held, RecipientRow

LEMMA SumTyped == \A n, k \in Nat : n + k \in Nat
  OBVIOUS

LEMMA UpToTyped == \A n, k \in Nat : UpTo(n, k) \in Nat
  BY DEF UpTo

----------------------------------------------------------------------------
(* The steps, one lemma for each handler's part *)

LEMMA SendReadStep ==
  ASSUME IInv, NEW r \in Requests, NEW i \in Isolates, SendRead(r, i)
  PROVE  IInv'
<1>1. last' \in Nat /\ Fresh(last') \in Otp
  BY DEF IInv, TypeOK, SendRead, Fresh, Otp
<1>2. [NoLocals EXCEPT !.at = {i}, !.row = row, !.otp = Fresh(last')] \in Locals
  BY <1>1, LocalsTyped DEF IInv, TypeOK, NoLocals, Locals
<1>3. pc' \in [Requests -> PCs] /\ loc' \in [Requests -> Locals]
  BY <1>2, MoveTyped DEF IInv, SendRead, PCs
<1>4. TypeOK'
  BY <1>1, <1>3 DEF IInv, TypeOK, SendRead, Alone
<1>5. Earned'
  BY DEF IInv, TypeOK, Earned, SendRead, Move, Fresh, NoLocals
<1> QED  BY <1>4, <1>5 DEF IInv

LEMMA SendWriteStep ==
  ASSUME IInv, NEW r \in Requests, SendWrite(r)
  PROVE  IInv'
<1>1. loc[r] \in Locals
  BY DEF IInv, TypeOK
<1>2. pc' \in [Requests -> PCs] /\ loc' \in [Requests -> Locals]
  BY <1>1, MoveTyped DEF IInv, SendWrite, PCs
<1>3. row' \in RecipientRow
  BY <1>1 DEF IInv, TypeOK, SendWrite, RecipientRow, Locals
<1>4. TypeOK'
  BY <1>2, <1>3 DEF IInv, TypeOK, SendWrite, code, history, tried
<1>5. Earned'
  BY DEF IInv, TypeOK, Earned, SendWrite, Move, history, RecipientRow
<1> QED  BY <1>4, <1>5 DEF IInv

LEMMA SendMailStep ==
  ASSUME IInv, NEW r \in Requests, SendMail(r)
  PROVE  IInv'
<1>1. loc[r].otp.code \in Nat
  BY DEF IInv, TypeOK, Locals, Otp
<1>2. pc' \in [Requests -> PCs] /\ loc' \in [Requests -> Locals]
  BY ReturnTyped DEF IInv, SendMail
<1>3. TypeOK'
  BY <1>1, <1>2 DEF IInv, TypeOK, SendMail, history, tried
<1>4. Earned'
  BY DEF IInv, TypeOK, Earned, SendMail, Return, Move, NoLocals, NoOtp, history
<1> QED  BY <1>3, <1>4 DEF IInv

LEMMA DropLockedTyped ==
  ASSUME TypeOK, NEW i \in Isolates, NEW o, DropLocked(i, o)
  PROVE  /\ mem' \in [Isolates -> Otp]
         /\ \A j \in Isolates : mem'[j].verified => mem[j].verified
  BY LocalsTyped DEF TypeOK, DropLocked, NoOtp

LEMMA ClosedStep ==
  ASSUME IInv, NEW r \in Requests, NEW i \in Isolates,
         VerifyClosed(r, i) \/ SubmitLocked(r, i)
  PROVE  IInv'
<1>1. DropLocked(i, Held(mem[i], row.otp))
  BY DEF VerifyClosed, SubmitLocked
<1>2. /\ mem' \in [Isolates -> Otp]
      /\ \A j \in Isolates : mem'[j].verified => mem[j].verified
  BY <1>1, DropLockedTyped DEF IInv
<1>3. TypeOK'
  <2>1. spent' \in Nat
    BY DEF IInv, TypeOK, VerifyClosed, SubmitLocked, Forget
  <2> QED  BY <1>2, <2>1 DEF IInv, TypeOK, VerifyClosed, SubmitLocked, code, Enter, Alone
<1>4. Earned'
  BY <1>2 DEF IInv, TypeOK, Earned, VerifyClosed, SubmitLocked
<1> QED  BY <1>3, <1>4 DEF IInv

\* The memory of isolate i after a mismatch or a match.
LEMMA TriedTyped ==
  ASSUME TypeOK, NEW i \in Isolates,
         mem' = [mem EXCEPT ![i].tries = IF mem[i].is THEN @ + 1 ELSE @]
  PROVE  /\ mem' \in [Isolates -> Otp]
         /\ \A j \in Isolates : mem'[j].verified = mem[j].verified
  BY DEF TypeOK, Otp

LEMMA MatchedTyped ==
  ASSUME TypeOK, NEW i \in Isolates, mem' = [mem EXCEPT ![i].verified = mem[i].is]
  PROVE  mem' \in [Isolates -> Otp]
  BY DEF TypeOK, Otp

LEMMA VerifyMismatchStep ==
  ASSUME IInv, NEW r \in Requests, NEW i \in Isolates, VerifyMismatch(r, i)
  PROVE  IInv'
<1> DEFINE o == Held(mem[i], row.otp)
           w == [row.otp EXCEPT !.is = TRUE, !.tries = o.tries + 1]
           l == [NoLocals EXCEPT !.at = {i}, !.row = row, !.otp = w]
<1> HIDE DEF o
<1>0. o \in Otp /\ row.otp \in Otp
  BY HeldTyped DEF IInv, o
<1>1. w \in Otp
  <2>1. o.tries + 1 \in Nat
    BY <1>0 DEF Otp
  <2> QED  BY <1>0, <2>1 DEF Otp
<1>2. l \in Locals
  BY <1>1, LocalsTyped DEF IInv, TypeOK, NoLocals, Locals
<1>3. Move(r, "refuse_write", l)
  BY DEF VerifyMismatch, o
<1>4. pc' \in [Requests -> PCs] /\ loc' \in [Requests -> Locals]
  BY <1>2, <1>3, MoveTyped DEF IInv, PCs
<1>5. /\ mem' \in [Isolates -> Otp]
      /\ \A j \in Isolates : mem'[j].verified = mem[j].verified
  BY TriedTyped DEF IInv, VerifyMismatch
<1>6. wrong' \in Nat
  BY UpToTyped, TriesAssumption DEF IInv, TypeOK, VerifyMismatch
<1>7. TypeOK'
  BY <1>4, <1>5, <1>6 DEF IInv, TypeOK, VerifyMismatch, code, tried, Enter, Alone
<1>8. l.otp.verified = row.otp.verified
  BY HeldTyped DEF IInv, NoLocals, Otp
<1>9. Earned'
  BY <1>3, <1>5, <1>8 DEF IInv, TypeOK, Earned, VerifyMismatch, Move
<1> QED  BY <1>7, <1>9 DEF IInv

LEMMA ProvedGrows ==
  ASSUME TypeOK, NEW o, NEW c \in Typed, Matches(o, c), proved' = proved \cup {c}
  PROVE  proved' \subseteq mailed \ {0} /\ proved' # {}
  BY DEF TypeOK, Typed, Matches

LEMMA VerifyMatchStep ==
  ASSUME IInv, NEW r \in Requests, NEW i \in Isolates, VerifyMatch(r, i)
  PROVE  IInv'
<1> DEFINE w == [row.otp EXCEPT !.is = TRUE, !.verified = TRUE]
           l == [NoLocals EXCEPT !.at = {i}, !.row = row, !.otp = w]
<1>1. w \in Otp
  BY HeldTyped DEF IInv, Otp
<1>2. l \in Locals
  BY <1>1, LocalsTyped DEF IInv, TypeOK, NoLocals, Locals
<1>3. pc' \in [Requests -> PCs] /\ loc' \in [Requests -> Locals]
  BY <1>2, MoveTyped DEF IInv, VerifyMatch, PCs
<1>4. mem' \in [Isolates -> Otp]
  BY MatchedTyped DEF IInv, VerifyMatch
<1>5. PICK c \in Typed : Matches(Held(mem[i], row.otp), c) /\ proved' = proved \cup {c}
  BY DEF VerifyMatch
<1>6. proved' \subseteq mailed \ {0} /\ proved' # {}
  BY <1>5, ProvedGrows DEF IInv
<1>7. TypeOK'
  BY <1>3, <1>4, <1>6 DEF IInv, TypeOK, VerifyMatch, code, tried, Enter, Alone
<1> QED  BY <1>6, <1>7 DEF IInv, Earned

LEMMA VerifyWriteStep ==
  ASSUME IInv, NEW r \in Requests, VerifyWrite(r)
  PROVE  IInv'
<1>1. loc[r] \in Locals
  BY DEF IInv, TypeOK
<1>2. pc' \in [Requests -> PCs] /\ loc' \in [Requests -> Locals]
  BY ReturnTyped DEF IInv, VerifyWrite
<1>3. row' \in RecipientRow
  BY <1>1 DEF IInv, TypeOK, VerifyWrite, RecipientRow, Locals
<1>4. refused' \in Nat
  BY UpToTyped, TriesAssumption DEF IInv, TypeOK, VerifyWrite
<1>5. TypeOK'
  BY <1>2, <1>3, <1>4 DEF IInv, TypeOK, VerifyWrite, code
<1>6. Earned'
  BY DEF IInv, TypeOK, Earned, VerifyWrite, Return, Move, NoLocals, NoOtp, RecipientRow
<1> QED  BY <1>5, <1>6 DEF IInv

LEMMA SubmitTyped ==
  ASSUME TypeOK, NEW r \in Requests, NEW i \in Isolates, NEW guest \in BOOLEAN,
         SubmitSigns(r, guest, i)
  PROVE  /\ pc' \in [Requests -> PCs] /\ loc' \in [Requests -> Locals]
         /\ ~loc'[r].otp.verified
         /\ loc'[r].guest = guest
<1>1. [NoLocals EXCEPT !.at = {i}, !.row = row, !.guest = guest] \in Locals
  BY LocalsTyped DEF TypeOK, NoLocals, Locals
<1>2. pc' \in [Requests -> PCs] /\ loc' \in [Requests -> Locals]
  BY <1>1, MoveTyped DEF SubmitSigns, PCs
<1> QED  BY <1>2 DEF TypeOK, SubmitSigns, Move, NoLocals, NoOtp

LEMMA SubmitBareStep ==
  ASSUME IInv, NEW r \in Requests, NEW i \in Isolates, SubmitBare(r, i)
  PROVE  IInv'
<1>1. PICK guest \in BOOLEAN :
        /\ Ungated(i, guest) \/ Verified(mem[i], row.otp)
        /\ SubmitSigns(r, guest, i)
  BY DEF SubmitBare
<1>2. /\ pc' \in [Requests -> PCs] /\ loc' \in [Requests -> Locals]
      /\ ~loc'[r].otp.verified
      /\ loc'[r].guest = guest
  BY <1>1, SubmitTyped DEF IInv
<1>3. TypeOK'
  BY <1>2 DEF IInv, TypeOK, SubmitBare, code, tried, Enter, Alone
<1>4. guest => proved # {}
  BY <1>1 DEF IInv, Earned, Ungated, Verified
<1>5. \A q \in Requests \ {r} : pc'[q] = pc[q] /\ loc'[q] = loc[q]
  BY <1>1 DEF IInv, TypeOK, SubmitSigns, Move
<1>6. Earned'
  BY <1>2, <1>4, <1>5 DEF IInv, Earned, SubmitBare
<1> QED  BY <1>3, <1>6 DEF IInv

LEMMA SubmitMatchStep ==
  ASSUME IInv, NEW r \in Requests, NEW i \in Isolates, SubmitMatch(r, i)
  PROVE  IInv'
<1>1. PICK guest \in BOOLEAN : SubmitSigns(r, guest, i)
  BY DEF SubmitMatch
<1>2. pc' \in [Requests -> PCs] /\ loc' \in [Requests -> Locals]
  BY <1>1, SubmitTyped DEF IInv
<1>3. PICK c \in Typed : Matches(Held(mem[i], row.otp), c) /\ proved' = proved \cup {c}
  BY DEF SubmitMatch
<1>4. proved' \subseteq mailed \ {0} /\ proved' # {}
  BY <1>3, ProvedGrows DEF IInv
<1>5. mem' \in [Isolates -> Otp]
  BY MatchedTyped DEF IInv, SubmitMatch
<1>6. TypeOK'
  BY <1>2, <1>4, <1>5 DEF IInv, TypeOK, SubmitMatch, code, tried, Enter, Alone
<1> QED  BY <1>4, <1>6 DEF IInv, Earned

LEMMA SubmitMismatchStep ==
  ASSUME IInv, NEW r \in Requests, NEW i \in Isolates, SubmitMismatch(r, i)
  PROVE  IInv'
<1>1. /\ mem' \in [Isolates -> Otp]
      /\ \A j \in Isolates : mem'[j].verified = mem[j].verified
  BY TriedTyped DEF IInv, SubmitMismatch
<1>2. wrong' \in Nat /\ spent' \in Nat
  BY UpToTyped, TriesAssumption DEF IInv, TypeOK, SubmitMismatch
<1>3. TypeOK'
  BY <1>1, <1>2 DEF IInv, TypeOK, SubmitMismatch, code, Enter, Alone
<1>4. Earned'
  BY <1>1 DEF IInv, Earned, SubmitMismatch
<1> QED  BY <1>3, <1>4 DEF IInv

LEMMA SignWriteStep ==
  ASSUME IInv, NEW r \in Requests, SignWrite(r)
  PROVE  IInv'
<1>1. loc[r] \in Locals /\ pc[r] = "sign_write"
  BY DEF IInv, TypeOK, SignWrite
<1>2. pc' \in [Requests -> PCs] /\ loc' \in [Requests -> Locals]
  BY ReturnTyped DEF IInv, SignWrite
<1>3. /\ row' \in RecipientRow /\ row'.guest = loc[r].guest
      /\ row'.otp.verified => row.otp.verified
  BY <1>1, LocalsTyped DEF IInv, TypeOK, SignWrite, RecipientRow, Locals, NoOtp
<1>4. /\ mem' \in [Isolates -> Otp]
      /\ \A j \in Isolates : mem'[j].verified => mem[j].verified
  BY LocalsTyped DEF IInv, TypeOK, SignWrite, NoOtp
<1>5. TypeOK'
  BY <1>2, <1>3, <1>4 DEF IInv, TypeOK, SignWrite, Forget, code
<1>6. loc[r].guest => proved # {}
  BY <1>1 DEF IInv, Earned
<1>7. Earned'
  BY <1>3, <1>4, <1>6
  DEF IInv, TypeOK, Earned, SignWrite, Return, Move, NoLocals, NoOtp
<1> QED  BY <1>5, <1>7 DEF IInv

LEMMA DeclineStep ==
  ASSUME IInv, NEW r \in Requests, DeclineRead(r) \/ DeclineWrite(r)
  PROVE  IInv'
<1>1. CASE DeclineRead(r)
  <2>1. pc' \in [Requests -> PCs] /\ loc' \in [Requests -> Locals]
    BY <1>1, MoveTyped, LocalsTyped DEF IInv, DeclineRead, PCs
  <2>2. TypeOK'
    BY <1>1, <2>1 DEF IInv, TypeOK, DeclineRead, code, tried, Enter, Alone
  <2>3. Earned'
    BY <1>1 DEF IInv, TypeOK, Earned, DeclineRead, Move, NoLocals, NoOtp
  <2> QED  BY <2>2, <2>3 DEF IInv
<1>2. CASE DeclineWrite(r)
  <2>1. pc' \in [Requests -> PCs] /\ loc' \in [Requests -> Locals]
    BY <1>2, ReturnTyped DEF IInv, DeclineWrite
  <2>2. row' \in RecipientRow /\ row'.st = "DECLINED" /\ row'.otp = row.otp
    BY <1>2 DEF IInv, TypeOK, DeclineWrite, RecipientRow
  <2>3. TypeOK'
    BY <1>2, <2>1, <2>2 DEF IInv, TypeOK, DeclineWrite, code, history, tried
  <2>4. Earned'
    BY <1>2, <2>2
    DEF IInv, TypeOK, Earned, DeclineWrite, Return, Move, NoLocals, NoOtp, history
  <2> QED  BY <2>3, <2>4 DEF IInv
<1> QED  BY <1>1, <1>2

\* Time, the platform and failures.
LEMMA WorldStep ==
  ASSUME IInv,
         \/ Expire
         \/ \E i \in Isolates : Evict(i)
         \/ \E r \in Requests : Abort(r)
  PROVE  IInv'
<1>1. CASE Expire
  BY <1>1 DEF IInv, TypeOK, Earned, Expire, code, history, tried
<1>2. ASSUME NEW i \in Isolates, Evict(i)  PROVE IInv'
  BY <1>2, LocalsTyped DEF IInv, TypeOK, Earned, Evict, Forget, NoOtp, code
<1>3. ASSUME NEW r \in Requests, Abort(r)  PROVE IInv'
  <2>1. pc' \in [Requests -> PCs] /\ loc' \in [Requests -> Locals]
    BY <1>3, ReturnTyped DEF IInv, Abort
  <2>2. TypeOK'
    BY <1>3, <2>1 DEF IInv, TypeOK, Abort, code, history, tried
  <2>3. Earned'
    BY <1>3 DEF IInv, TypeOK, Earned, Abort, Return, Move, NoLocals, NoOtp, history
  <2> QED  BY <2>2, <2>3 DEF IInv
<1> QED  BY <1>1, <1>2, <1>3

----------------------------------------------------------------------------
LEMMA Starts == Init => IInv
<1> SUFFICES ASSUME Init  PROVE TypeOK /\ Earned
  BY DEF IInv
<1>1. TypeOK
  BY LocalsTyped DEF Init, TypeOK, PCs
<1>2. Earned
  BY DEF Init, Earned, NewRow, NoLocals, NoOtp
<1> QED  BY <1>1, <1>2

LEMMA Continues == IInv /\ [Next]_vars => IInv'
<1> SUFFICES ASSUME IInv, [Next]_vars  PROVE IInv'
  OBVIOUS
<1>1. CASE UNCHANGED vars
  BY <1>1 DEF IInv, TypeOK, Earned, vars
<1>2. ASSUME NEW r \in Requests, Serve(r)  PROVE IInv'
  <2>1. ASSUME NEW i \in Isolates, SendRead(r, i)  PROVE IInv'
    BY <2>1, SendReadStep
  <2>2. ASSUME NEW i \in Isolates, Verify(r, i)  PROVE IInv'
    BY <2>2, ClosedStep, VerifyMismatchStep, VerifyMatchStep DEF Verify
  <2>3. ASSUME NEW i \in Isolates, Submit(r, i)  PROVE IInv'
    BY <2>3, ClosedStep, SubmitBareStep, SubmitMatchStep, SubmitMismatchStep DEF Submit
  <2>4. CASE SendWrite(r)  BY <2>4, SendWriteStep
  <2>5. CASE SendMail(r)  BY <2>5, SendMailStep
  <2>6. CASE VerifyWrite(r)  BY <2>6, VerifyWriteStep
  <2>7. CASE SignWrite(r)  BY <2>7, SignWriteStep
  <2>8. CASE DeclineRead(r) \/ DeclineWrite(r)  BY <2>8, DeclineStep
  <2>9. CASE Abort(r)  BY <2>9, WorldStep
  <2> QED
    BY <1>2, <2>1, <2>2, <2>3, <2>4, <2>5, <2>6, <2>7, <2>8, <2>9 DEF Serve
<1>3. CASE Expire \/ \E i \in Isolates : Evict(i)
  BY <1>3, WorldStep
<1> QED  BY <1>1, <1>2, <1>3 DEF Next

\* Row, memories and requests keep their types, and only codes that were
\* mailed are ever counted as proved.
THEOREM TypeCorrect == Spec => []TypeOK
<1>1. Init => IInv  BY Starts
<1>2. IInv /\ [Next]_vars => IInv'  BY Continues
<1>3. IInv => TypeOK  BY DEF IInv
<1> QED  BY <1>1, <1>2, <1>3, PTL DEF Spec

\* No guest's signature stands without a code of the recipient's mailbox,
\* for any number of isolates and of overlapping requests, with evictions and
\* failures anywhere (the gate of submitRecipientSignature).
THEOREM GuestsAreProved == Spec => []GuestProved
<1>1. Init => IInv  BY Starts
<1>2. IInv /\ [Next]_vars => IInv'  BY Continues
<1>3. IInv => GuestProved
  BY DEF IInv, TypeOK, Earned, GuestProved
<1> QED  BY <1>1, <1>2, <1>3, PTL DEF Spec

----------------------------------------------------------------------------
(* Requests that do not overlap, on one isolate.  What TriesBounded and    *)
(* LatestCodeWorks say of quiet moments is not inductive: it rests on what *)
(* memory, row and the one request under way keep in step meanwhile.       *)

OneIsolate == \A i, j \in Isolates : i = j

Sole == ~overlap => \A q, r \in Requests : pc[q] # "idle" /\ pc[r] # "idle" => q = r

\* Where a request is at an isolate, which is not evicted then.
Placed == {"send_write", "refuse_write", "verify_write", "sign_write"}

\* Codes are numbered up to the last, and no entry counts beyond MaxTries.
Numbered ==
    /\ \A c \in mailed : c <= last
    /\ \A r \in Requests : pc[r] \in {"send_write", "send_mail"} => loc[r].otp.code <= last
    /\ wrong <= MaxTries /\ row.otp.tries <= MaxTries
    /\ \A i \in Isolates : mem[i].tries <= MaxTries
    /\ \A r \in Requests : loc[r].otp.tries <= MaxTries
    /\ \A r \in Requests : pc[r] \in Placed => loc[r].at # {}

\* Nothing is left to guess at.
Shut == ~row.otp.is /\ \A i \in Isolates : ~mem[i].is

NoEntry == \A i \in Isolates : ~mem[i].is

\* The row counts every refusal of verifySignerOtp; the memory counts those of
\* submissions too, and where there is none no more than the row has is left.
CountedRow ==
    /\ Guesses <= MaxTries
    /\ \/ Shut
       \/ /\ refused <= row.otp.tries
          /\ \A i \in Isolates : mem[i].is => Guesses <= mem[i].tries
          /\ NoEntry => Guesses <= row.otp.tries

\* The request under way writes no count that is behind.
Counting(r) ==
    /\ pc[r] = "send_write" => Guesses = 0
    /\ pc[r] = "verify_write" =>
         /\ refused <= loc[r].otp.tries
         /\ \A i \in Isolates : mem[i].is => Guesses <= mem[i].tries
         /\ NoEntry => Guesses <= loc[r].otp.tries
    /\ pc[r] = "refuse_write" =>
         /\ refused < loc[r].otp.tries
         /\ \A i \in Isolates : mem[i].is => Guesses < mem[i].tries
         /\ NoEntry => Guesses < loc[r].otp.tries

CountInv == ~overlap => CountedRow /\ \A r \in Requests : Counting(r)

\* An entry for the newest code that counts no more tries than there were.
Newest(o) == o.is /\ o.code = last /\ o.tries <= wrong

\* The row has been written for the newest code.
Sent == last \in mailed \/ \E r \in Requests : pc[r] = "send_mail"

SentRow ==
    Sent /\ row.st = "INVITED" =>
      Newest(row.otp) /\ \A i \in Isolates : mem[i].is => Newest(mem[i])

\* The request under way brings the row into step, or keeps it so.
Stepping(r) ==
    /\ pc[r] = "send_write" =>
         /\ last \notin mailed /\ loc[r].otp = Fresh(last)
         /\ \A i \in Isolates : mem[i].is => Newest(mem[i])
    /\ pc[r] \in {"refuse_write", "verify_write"} /\ Sent /\ row.st = "INVITED"
         => Newest(loc[r].otp)

StepInv == ~overlap => SentRow /\ \A r \in Requests : Stepping(r)

QuietInv == Sole /\ Numbered /\ CountInv /\ StepInv

----------------------------------------------------------------------------
(* What each action does, in the terms of these invariants.                *)

Stands(r) == \A q \in Requests \ {r} : pc'[q] = pc[q] /\ loc'[q] = loc[q]

LEMMA Moving ==
  ASSUME TypeOK, NEW r \in Requests, NEW p, NEW l, Move(r, p, l)
  PROVE  Stands(r) /\ pc'[r] = p /\ loc'[r] = l
BY DEF TypeOK, Move, Stands

LEMMA Returning ==
  ASSUME TypeOK, NEW r \in Requests, Return(r)
  PROVE  Stands(r) /\ pc'[r] = "idle" /\ loc'[r].otp.tries = 0
BY Moving DEF Return, NoLocals, NoOtp

\* Memories hold no more than they did.
Holds ==
  \A i \in Isolates :
    /\ mem'[i].is => mem[i].is /\ mem'[i].code = mem[i].code
    /\ mem'[i].tries = mem[i].tries \/ (mem'[i].tries = 0 /\ ~mem'[i].is)

LEMMA Dropping ==
  ASSUME TypeOK, NEW i \in Isolates, NEW o, DropLocked(i, o)
  PROVE  Holds
BY DEF TypeOK, DropLocked, Holds, NoOtp

\* None is dropped.
Kept == \A i \in Isolates : mem[i].is => mem'[i].is

LEMMA Keeping ==
  ASSUME Kept, UNCHANGED spent
  PROVE  Forget
BY DEF Kept, Forget, Lost

LEMMA Matching ==
  ASSUME TypeOK, NEW i \in Isolates, mem' = [mem EXCEPT ![i].verified = mem[i].is]
  PROVE  Holds /\ Kept
BY DEF TypeOK, Otp, Holds, Kept

\* A wrong try is counted where there is an entry.
Tried(i) ==
  /\ \A j \in Isolates \ {i} : mem'[j] = mem[j]
  /\ mem'[i].is = mem[i].is /\ mem'[i].code = mem[i].code
  /\ mem[i].is => mem'[i].tries = mem[i].tries + 1
  /\ ~mem[i].is => mem'[i].tries = mem[i].tries

LEMMA Trying ==
  ASSUME TypeOK, NEW i \in Isolates,
         mem' = [mem EXCEPT ![i].tries = IF mem[i].is THEN @ + 1 ELSE @]
  PROVE  Tried(i)
BY DEF TypeOK, Otp, Tried

LEMMA SendReading ==
  ASSUME TypeOK, NEW r \in Requests, NEW i \in Isolates, SendRead(r, i)
  PROVE  /\ Stands(r) /\ pc[r] = "idle" /\ pc'[r] = "send_write"
         /\ loc'[r].otp = Fresh(last') /\ last' = last + 1 /\ UNCHANGED <<row, mailed>>
         /\ mem'[i] = Fresh(last') /\ \A j \in Isolates \ {i} : mem'[j] = mem[j]
         /\ wrong' = 0 /\ refused' = 0 /\ spent' = 0 /\ overlap' = ~Alone(r)
         /\ loc'[r].at # {}
<1> DEFINE l == [NoLocals EXCEPT !.at = {i}, !.row = row, !.otp = Fresh(last')]
<1>1. l.otp = Fresh(last') /\ l.at # {} /\ Move(r, "send_write", l)
  BY DEF NoLocals, SendRead
<1> HIDE DEF l
<1>2. Stands(r) /\ pc'[r] = "send_write" /\ loc'[r] = l
  BY <1>1, Moving
<1>3. mem'[i] = Fresh(last') /\ \A j \in Isolates \ {i} : mem'[j] = mem[j]
  BY DEF TypeOK, SendRead
<1> QED  BY <1>1, <1>2, <1>3 DEF SendRead

\* A try of a code at verifySignerOtp.
LEMMA VerifyTrying ==
  ASSUME TypeOK, NEW r \in Requests, NEW i \in Isolates, VerifyMismatch(r, i)
  PROVE  LET o == Held(mem[i], row.otp)
         IN  /\ Stands(r) /\ pc'[r] = "refuse_write" /\ Enter(r) /\ Open(o) /\ Tried(i)
             /\ loc'[r].otp.is /\ loc'[r].otp.code = row.otp.code
             /\ loc'[r].otp.tries = o.tries + 1
             /\ wrong' = UpTo(MaxTries, wrong + 1) /\ loc'[r].at # {}
             /\ UNCHANGED <<row, last, mailed, refused, spent>>
<1> DEFINE o == Held(mem[i], row.otp)
           old == row.otp
           w == [old EXCEPT !.is = TRUE, !.tries = o.tries + 1]
           l == [NoLocals EXCEPT !.at = {i}, !.row = row, !.otp = w]
<1>1. old \in Otp
  BY HeldTyped
<1>2. Move(r, "refuse_write", l) /\ l.otp = w /\ l.at # {}
  BY DEF VerifyMismatch, NoLocals
<1> HIDE DEF o, l
<1>3. w.is /\ w.code = old.code /\ w.tries = o.tries + 1
  BY <1>1 DEF Otp
<1> HIDE DEF w
<1>4. Stands(r) /\ pc'[r] = "refuse_write" /\ loc'[r] = l
  BY <1>2, Moving
<1>5. /\ Enter(r) /\ Open(o) /\ wrong' = UpTo(MaxTries, wrong + 1)
      /\ UNCHANGED <<row, last, mailed, refused, spent>> /\ Tried(i)
  BY Trying DEF VerifyMismatch, o, code, tried
<1> QED  BY <1>2, <1>3, <1>4, <1>5 DEF o

LEMMA VerifyMatching ==
  ASSUME TypeOK, NEW r \in Requests, NEW i \in Isolates, VerifyMatch(r, i)
  PROVE  /\ Stands(r) /\ pc'[r] = "verify_write" /\ Enter(r) /\ Holds
         /\ Open(Held(mem[i], row.otp))
         /\ loc'[r].otp.is /\ loc'[r].otp.code = row.otp.code
         /\ loc'[r].otp.tries = row.otp.tries /\ loc'[r].at # {}
         /\ Kept /\ UNCHANGED <<row, last, mailed, wrong, refused, spent>>
<1> DEFINE old == row.otp
           w == [old EXCEPT !.is = TRUE, !.verified = TRUE]
           l == [NoLocals EXCEPT !.at = {i}, !.row = row, !.otp = w]
<1>1. old \in Otp
  BY HeldTyped
<1>2. Move(r, "verify_write", l) /\ l.otp = w /\ l.at # {}
  BY DEF VerifyMatch, NoLocals
<1> HIDE DEF l
<1>3. w.is /\ w.code = old.code /\ w.tries = old.tries
  BY <1>1 DEF Otp
<1> HIDE DEF w
<1>4. Stands(r) /\ pc'[r] = "verify_write" /\ loc'[r] = l
  BY <1>2, Moving
<1>5. /\ Enter(r) /\ Open(Held(mem[i], row.otp))
      /\ UNCHANGED <<row, last, mailed, wrong, refused, spent>> /\ Holds /\ Kept
  BY Matching DEF VerifyMatch, code, tried
<1> QED  BY <1>2, <1>3, <1>4, <1>5

\* The whole JSON is written back.
LEMMA Writing ==
  ASSUME TypeOK, NEW r \in Requests,
         row' = [row EXCEPT !.drawn = loc[r].row.drawn, !.otp = loc[r].otp]
  PROVE  row'.otp = loc[r].otp /\ row'.st = row.st
BY DEF TypeOK, RecipientRow

\* Submissions and declines, and what only time, the platform or a failure does.
LEMMA Passing ==
  ASSUME TypeOK, NEW r \in Requests,
         \/ \E i \in Isolates : \/ VerifyClosed(r, i) \/ SubmitLocked(r, i)
                                \/ SubmitBare(r, i) \/ SubmitMatch(r, i)
         \/ DeclineRead(r)
  PROVE  /\ Stands(r) /\ Enter(r) /\ Holds /\ Forget /\ UNCHANGED <<row, last, mailed, wrong, refused>>
         /\ \/ pc'[r] = pc[r] /\ loc'[r] = loc[r]
            \/ pc'[r] = "decline_write" /\ loc'[r].otp.tries = 0
            \/ pc'[r] = "sign_write" /\ loc'[r].otp.tries = 0 /\ loc'[r].at # {}
<1>1. ASSUME NEW i \in Isolates, VerifyClosed(r, i) \/ SubmitLocked(r, i)
      PROVE  /\ Stands(r) /\ Enter(r) /\ Holds /\ Forget /\ UNCHANGED <<row, last, mailed, wrong, refused>>
             /\ pc'[r] = pc[r] /\ loc'[r] = loc[r]
  BY <1>1, Dropping DEF VerifyClosed, SubmitLocked, code, Stands
<1>2. ASSUME NEW i \in Isolates, NEW guest \in BOOLEAN, SubmitSigns(r, guest, i)
      PROVE  Stands(r) /\ pc'[r] = "sign_write" /\ loc'[r].otp.tries = 0 /\ loc'[r].at # {}
  <2> DEFINE l == [NoLocals EXCEPT !.at = {i}, !.row = row, !.guest = guest]
  <2>1. l.otp.tries = 0 /\ l.at # {} /\ Move(r, "sign_write", l)
    BY <1>2 DEF NoLocals, NoOtp, SubmitSigns
  <2> HIDE DEF l
  <2> QED  BY <2>1, Moving
<1>3. ASSUME NEW i \in Isolates, SubmitBare(r, i) \/ SubmitMatch(r, i)
      PROVE  /\ Stands(r) /\ Enter(r) /\ Holds /\ Forget /\ UNCHANGED <<row, last, mailed, wrong, refused>>
             /\ pc'[r] = "sign_write" /\ loc'[r].otp.tries = 0 /\ loc'[r].at # {}
  <2>1. \E guest \in BOOLEAN : SubmitSigns(r, guest, i)
    BY <1>3 DEF SubmitBare, SubmitMatch
  <2>2. Enter(r) /\ UNCHANGED <<row, last, mailed, wrong, refused, spent>>
    BY <1>3 DEF SubmitBare, SubmitMatch, code, tried
  <2>3. Holds /\ Kept
    <3>1. CASE UNCHANGED mem
      BY <3>1 DEF Holds, Kept
    <3> QED  BY <1>3, <3>1, Matching DEF SubmitBare, SubmitMatch
  <2> QED  BY <1>2, <2>1, <2>2, <2>3, Keeping
<1>4. CASE DeclineRead(r)
  <2>1. Stands(r) /\ pc'[r] = "decline_write" /\ loc'[r].otp.tries = 0
    BY <1>4, Moving DEF DeclineRead, NoLocals, NoOtp
  <2> QED  BY <1>4, <2>1, Keeping DEF DeclineRead, code, tried, Holds, Kept
<1> QED  BY <1>1, <1>3, <1>4

----------------------------------------------------------------------------
(* Requests that overlap are on record.                                    *)

LEMMA EntersAlone ==
  ASSUME NEW r \in Requests, Enter(r), ~overlap', TypeOK
  PROVE  ~overlap /\ \A q \in Requests \ {r} : pc[q] = "idle"
BY DEF Enter, Alone, TypeOK

LEMMA WorksAlone ==
  ASSUME Sole, NEW r \in Requests, pc[r] # "idle", ~overlap
  PROVE  \A q \in Requests \ {r} : pc[q] = "idle"
BY DEF Sole

\* It is enough to look at the one request that moves.
LEMMA QuietMoves ==
  ASSUME NEW r \in Requests, Stands(r),
         ~overlap' => /\ \A q \in Requests \ {r} : pc[q] = "idle"
                      /\ CountedRow' /\ Counting(r)' /\ SentRow' /\ Stepping(r)'
  PROVE  Sole' /\ CountInv' /\ StepInv'
<1>1. ~overlap' => \A q \in Requests \ {r} : pc'[q] = "idle"
  BY DEF Stands
<1>2. ~overlap' => \A q \in Requests \ {r} : Counting(q)' /\ Stepping(q)'
  BY <1>1 DEF Counting, Stepping
<1> QED  BY <1>1, <1>2 DEF Sole, CountInv, StepInv

\* Memories that hold no more, and counts as they were.
LEMMA Lesser ==
  ASSUME TypeOK, OneIsolate, CountInv, StepInv, ~overlap, Holds, Forget, row'.otp = row.otp,
         row'.st = "INVITED" => row.st = "INVITED", UNCHANGED <<last, wrong, refused>>,
         Sent' => Sent
  PROVE  CountedRow' /\ SentRow'
<1>1. \A i \in Isolates : mem'[i].is =>
        mem[i].is /\ mem'[i].code = mem[i].code /\ mem'[i].tries = mem[i].tries
  BY DEF Holds
<1>2. CountedRow /\ SentRow
  BY DEF CountInv, StepInv
<1>3. /\ refused \in Nat /\ spent \in Nat /\ MaxTries \in Nat /\ row.otp.tries \in Nat
      /\ \A i \in Isolates : mem[i].tries \in Nat
  BY TriesAssumption DEF TypeOK, RecipientRow, Otp
<1>4. ASSUME \E i \in Isolates : Lost(i)  PROVE CountedRow'
  <2>1. PICK i \in Isolates : Lost(i)
    BY <1>4
  <2>2. spent' = 0 /\ ~Shut /\ \A j \in Isolates : ~mem'[j].is
    BY <2>1 DEF Forget, Lost, Shut, OneIsolate
  <2>3. Guesses' = refused /\ refused <= Guesses /\ Guesses \in Nat
    BY <1>3, <2>2 DEF Guesses
  <2>4. refused <= row.otp.tries /\ Guesses <= MaxTries
    BY <1>2, <2>2 DEF CountedRow
  <2> QED  BY <1>3, <2>2, <2>3, <2>4 DEF CountedRow
<1>5. ASSUME \A i \in Isolates : ~Lost(i)  PROVE CountedRow'
  <2>1. spent' = spent
    BY <1>5 DEF Forget
  <2>2. ~Shut /\ NoEntry' => Guesses <= row.otp.tries
    BY <1>2, <1>3, <1>5 DEF CountedRow, NoEntry, Guesses, Lost
  <2>3. Shut => Shut'
    BY <1>1 DEF Shut
  <2>4. Guesses' = Guesses
    BY <2>1 DEF Guesses
  <2>5. CASE Shut
    BY <1>2, <2>3, <2>4, <2>5 DEF CountedRow
  <2>6. CASE ~Shut
    BY <1>1, <1>2, <2>2, <2>4, <2>6 DEF CountedRow
  <2> QED  BY <2>5, <2>6
<1>6. SentRow'
  BY <1>1, <1>2 DEF SentRow, Newest
<1> QED  BY <1>4, <1>5, <1>6

AtRest == {"idle", "send_mail", "sign_write", "decline_write"}

LEMMA Resting ==
  ASSUME NEW r \in Requests, pc'[r] \in AtRest
  PROVE  Counting(r)' /\ Stepping(r)'
BY DEF AtRest, Counting, Stepping

LEMMA NumberedMoves ==
  ASSUME TypeOK, TypeOK', Numbered, NEW r \in Requests, Stands(r), last <= last',
         \A c \in mailed' : c <= last',
         pc'[r] \in {"send_write", "send_mail"} => loc'[r].otp.code <= last',
         wrong' <= MaxTries, row'.otp.tries <= MaxTries,
         \A i \in Isolates : mem'[i].tries <= MaxTries,
         loc'[r].otp.tries <= MaxTries, pc'[r] \in Placed => loc'[r].at # {}
  PROVE  Numbered'
<1>1. \A q \in Requests \ {r} :
        /\ pc'[q] \in {"send_write", "send_mail"} => loc'[q].otp.code <= last'
        /\ loc'[q].otp.tries <= MaxTries /\ (pc'[q] \in Placed => loc'[q].at # {})
  <2> SUFFICES ASSUME NEW q \in Requests \ {r}
               PROVE  /\ pc'[q] \in {"send_write", "send_mail"} => loc'[q].otp.code <= last'
                      /\ loc'[q].otp.tries <= MaxTries /\ (pc'[q] \in Placed => loc'[q].at # {})
    OBVIOUS
  <2>1. pc'[q] = pc[q] /\ loc'[q] = loc[q] /\ loc[q].otp.code \in Nat
    BY DEF Stands, TypeOK, Locals, Otp
  <2>2. pc[q] \in {"send_write", "send_mail"} => loc[q].otp.code <= last
    BY DEF Numbered
  <2>3. last \in Nat /\ last' \in Nat
    BY DEF TypeOK
  <2>4. pc'[q] \in {"send_write", "send_mail"} => loc'[q].otp.code <= last'
    BY <2>1, <2>2, <2>3
  <2> QED  BY <2>1, <2>4 DEF Numbered
<1> QED  BY <1>1 DEF Numbered

LEMMA HoldsBound ==
  ASSUME Numbered, Holds
  PROVE  \A i \in Isolates : mem'[i].tries <= MaxTries
BY TriesAssumption DEF Numbered, Holds

----------------------------------------------------------------------------
(* The steps.                                                              *)

Steady == IInv /\ QuietInv

LEMMA QuietSendRead ==
  ASSUME Steady, OneIsolate, NEW r \in Requests, NEW i \in Isolates, SendRead(r, i), TypeOK'
  PROVE  QuietInv'
<1>0. TypeOK /\ Numbered /\ \A j \in Isolates : j = i
  BY DEF Steady, IInv, QuietInv, OneIsolate
<1>1. /\ Stands(r) /\ pc[r] = "idle" /\ pc'[r] = "send_write"
      /\ loc'[r].otp = Fresh(last') /\ last' = last + 1 /\ UNCHANGED <<row, mailed>>
      /\ mem'[i] = Fresh(last') /\ wrong' = 0 /\ refused' = 0 /\ spent' = 0
      /\ overlap' = ~Alone(r) /\ loc'[r].at # {}
  BY <1>0, SendReading
<1>2. last \in Nat /\ last' \in Nat /\ mailed \subseteq Nat
  BY <1>0 DEF TypeOK
<1>3. \A c \in mailed : c <= last' /\ c # last'
  BY <1>0, <1>1, <1>2 DEF Numbered
<1>4. \A j \in Isolates : mem'[j].is /\ mem'[j].code = last' /\ mem'[j].tries = 0
  BY <1>0, <1>1 DEF Fresh
<1>5. Numbered'
  BY <1>0, <1>1, <1>2, <1>3, <1>4, NumberedMoves, TriesAssumption DEF Numbered, Fresh
<1>6. ASSUME ~overlap'
      PROVE  /\ \A q \in Requests \ {r} : pc[q] = "idle"
             /\ CountedRow' /\ Counting(r)' /\ SentRow' /\ Stepping(r)'
  <2>1. \A q \in Requests \ {r} : pc[q] = "idle"
    BY <1>1, <1>6 DEF Alone
  <2>2. row'.otp.tries \in Nat
    BY DEF TypeOK, RecipientRow, Otp
  <2>3. CountedRow'
    BY <1>1, <1>4, <2>2, TriesAssumption DEF CountedRow, NoEntry, Guesses
  <2>4. ~Sent'
    BY <1>1, <1>3, <2>1 DEF Sent, Stands
  <2>5. Counting(r)' /\ SentRow'
    BY <1>1, <2>4 DEF Counting, SentRow, Guesses
  <2>6. Stepping(r)'
    BY <1>1, <1>3, <1>4 DEF Stepping, Newest
  <2> QED  BY <2>1, <2>3, <2>5, <2>6
<1> QED  BY <1>1, <1>5, <1>6, QuietMoves DEF QuietInv

LEMMA QuietSendWrite ==
  ASSUME Steady, NEW r \in Requests, SendWrite(r), TypeOK'
  PROVE  QuietInv'
<1>0. TypeOK /\ Sole /\ Numbered /\ CountInv /\ StepInv
  BY DEF Steady, IInv, QuietInv
<1>1. /\ Stands(r) /\ pc[r] = "send_write" /\ pc'[r] = "send_mail" /\ loc'[r] = loc[r]
      /\ row'.otp = loc[r].otp /\ row'.st = row.st
      /\ UNCHANGED <<mem, last, mailed, overlap, wrong, refused, spent>>
  BY <1>0, Moving, Writing DEF SendWrite, code, history, tried, tried
<1>2. Numbered'
  <2>1. last \in Nat
    BY <1>0 DEF TypeOK
  <2> QED  BY <1>0, <1>1, <2>1, NumberedMoves DEF Numbered, Placed
<1>3. ASSUME ~overlap'
      PROVE  /\ \A q \in Requests \ {r} : pc[q] = "idle"
             /\ CountedRow' /\ Counting(r)' /\ SentRow' /\ Stepping(r)'
  <2>1. \A q \in Requests \ {r} : pc[q] = "idle"
    BY <1>0, <1>1, <1>3, WorksAlone
  <2>2. Counting(r) /\ Stepping(r)
    BY <1>0, <1>1, <1>3 DEF CountInv, StepInv
  <2>3. /\ Guesses = 0 /\ loc[r].otp = Fresh(last)
        /\ \A i \in Isolates : mem[i].is => Newest(mem[i])
    BY <1>1, <2>2 DEF Counting, Stepping
  <2>4. row'.otp.tries \in Nat /\ refused \in Nat /\ spent \in Nat /\ wrong \in Nat /\ \A i \in Isolates : mem[i].tries \in Nat
    BY <1>0 DEF TypeOK, RecipientRow, Otp
  <2>5. CountedRow'
    BY <1>1, <2>3, <2>4, TriesAssumption DEF CountedRow, NoEntry, Guesses
  <2>6. SentRow'
    BY <1>1, <2>3, <2>4 DEF SentRow, Newest, Fresh
  <2>7. Counting(r)' /\ Stepping(r)'
    BY <1>1, Resting DEF AtRest
  <2> QED  BY <2>1, <2>5, <2>6, <2>7
<1> QED  BY <1>1, <1>2, <1>3, QuietMoves DEF QuietInv

\* A wrong code at verifySignerOtp.
LEMMA QuietMismatch ==
  ASSUME Steady, OneIsolate, NEW r \in Requests, NEW i \in Isolates, VerifyMismatch(r, i), TypeOK'
  PROVE  QuietInv'
<1> DEFINE o == Held(mem[i], row.otp)
<1>0. TypeOK /\ Sole /\ Numbered /\ CountInv /\ StepInv /\ \A j \in Isolates : j = i
  BY DEF Steady, IInv, QuietInv, OneIsolate
<1>1. /\ Stands(r) /\ pc'[r] = "refuse_write" /\ Enter(r) /\ Open(o) /\ Tried(i)
      /\ loc'[r].otp.is /\ loc'[r].otp.code = row.otp.code
      /\ loc'[r].otp.tries = o.tries + 1
      /\ wrong' = UpTo(MaxTries, wrong + 1) /\ loc'[r].at # {}
      /\ UNCHANGED <<row, last, mailed, refused, spent>>
  BY <1>0, VerifyTrying
<1>2. /\ o.tries < MaxTries /\ o.is /\ o.tries \in Nat /\ MaxTries \in Nat
      /\ wrong \in Nat /\ refused \in Nat /\ spent \in Nat /\ last \in Nat
      /\ row.otp.tries \in Nat /\ mem[i].tries \in Nat
      /\ mem[i].is \in BOOLEAN /\ row.otp.is \in BOOLEAN
  BY <1>0, <1>1, TriesAssumption, HeldTyped DEF Open, Locked, TypeOK, Otp
<1>3. IF mem[i].is THEN o = mem[i] ELSE o = row.otp
  BY DEF Held
<1>4. Numbered'
  <2>1. mem'[i].tries <= MaxTries
    BY <1>0, <1>1, <1>2, <1>3 DEF Tried, Numbered
  <2>2. wrong' <= MaxTries
    BY <1>1, <1>2 DEF UpTo
  <2> QED  BY <1>0, <1>1, <1>2, <2>1, <2>2, NumberedMoves DEF Numbered
<1>5. ASSUME ~overlap'
      PROVE  /\ \A q \in Requests \ {r} : pc[q] = "idle"
             /\ CountedRow' /\ Counting(r)' /\ SentRow' /\ Stepping(r)'
  <2>1. ~overlap /\ \A q \in Requests \ {r} : pc[q] = "idle"
    BY <1>0, <1>1, <1>5, EntersAlone
  <2>2. CountedRow /\ SentRow
    BY <1>0, <2>1 DEF CountInv, StepInv
  <2>3. ~Shut
    BY <1>0, <1>2, <1>3 DEF Shut
  <2>4. /\ refused <= row.otp.tries
        /\ mem[i].is => Guesses <= mem[i].tries
        /\ ~mem[i].is => Guesses <= row.otp.tries
    BY <1>0, <2>2, <2>3 DEF CountedRow, NoEntry
  <2>5. /\ Guesses' = Guesses /\ Guesses \in Nat /\ refused <= Guesses
        /\ mem'[i].is = mem[i].is
    BY <1>1, <1>2 DEF Guesses, Tried
  <2>6. mem[i].is => Guesses < mem'[i].tries /\ Guesses <= mem'[i].tries
    BY <1>1, <1>2, <2>4, <2>5 DEF Tried
  <2>7. CountedRow' /\ Counting(r)'
    <3>1. CountedRow'
      BY <1>0, <1>1, <2>2, <2>4, <2>5, <2>6 DEF CountedRow, NoEntry
    <3>2. refused < loc'[r].otp.tries /\ (~mem[i].is => Guesses < loc'[r].otp.tries)
      BY <1>1, <1>2, <1>3, <2>4, <2>5
    <3>3. Counting(r)'
      BY <1>0, <1>1, <2>5, <2>6, <3>2 DEF Counting, NoEntry
    <3> QED  BY <3>1, <3>3
  <2>8. Sent' => Sent
    BY <1>1, <2>1 DEF Sent, Stands
  <2>9. wrong <= wrong' /\ (o.tries <= wrong => o.tries + 1 <= wrong')
    BY <1>0, <1>1, <1>2 DEF UpTo, Numbered
  <2>10. ASSUME Sent', row'.st = "INVITED"
         PROVE  /\ Newest(row.otp)' /\ (mem'[i].is => Newest(mem[i])') /\ Newest(loc[r].otp)'
    <3>1. Newest(row.otp) /\ (mem[i].is => Newest(mem[i]))
      BY <1>1, <2>2, <2>8, <2>10 DEF SentRow
    <3>2. wrong' \in Nat /\ o.tries <= wrong /\ o.tries + 1 <= wrong'
      BY <1>3, <2>9, <3>1 DEF Newest, TypeOK
    <3>3. Newest(row.otp)'
      BY <1>1, <1>2, <2>9, <3>1, <3>2 DEF Newest
    <3>4. mem'[i].is => Newest(mem[i])'
      BY <1>1, <1>2, <1>3, <3>1, <3>2 DEF Newest, Tried
    <3>5. Newest(loc[r].otp)'
      BY <1>1, <3>1, <3>2 DEF Newest
    <3> QED  BY <3>3, <3>4, <3>5
  <2>11. SentRow' /\ Stepping(r)'
    BY <1>0, <1>1, <2>10 DEF SentRow, Stepping
  <2> QED  BY <2>1, <2>7, <2>11
<1> QED  BY <1>1, <1>4, <1>5, QuietMoves DEF QuietInv

\* A wrong code at submitRecipientSignature.
LEMMA QuietSubmitMismatch ==
  ASSUME Steady, OneIsolate, NEW r \in Requests, NEW i \in Isolates, SubmitMismatch(r, i), TypeOK'
  PROVE  QuietInv'
<1> DEFINE o == Held(mem[i], row.otp)
<1>0. TypeOK /\ Sole /\ Numbered /\ CountInv /\ StepInv /\ \A j \in Isolates : j = i
  BY DEF Steady, IInv, QuietInv, OneIsolate
<1>1. /\ Stands(r) /\ pc'[r] = "idle" /\ loc'[r] = loc[r] /\ Enter(r) /\ Open(o) /\ Tried(i)
      /\ wrong' = UpTo(MaxTries, wrong + 1)
      /\ spent' = UpTo(MaxTries + 1, IF mem[i].is THEN spent + 1 ELSE spent)
      /\ UNCHANGED <<row, last, mailed, refused>>
  BY <1>0, Trying DEF SubmitMismatch, code, Stands, Enter
<1>2. /\ o.tries < MaxTries /\ o.tries \in Nat /\ MaxTries \in Nat
      /\ wrong \in Nat /\ refused \in Nat /\ spent \in Nat /\ last \in Nat
      /\ row.otp.tries \in Nat /\ mem[i].tries \in Nat
      /\ mem[i].is \in BOOLEAN
  BY <1>0, <1>1, TriesAssumption, HeldTyped DEF Open, Locked, TypeOK, Otp
<1>3. mem[i].is => o = mem[i]
  BY DEF Held
<1>4. Numbered'
  <2>1. mem'[i].tries <= MaxTries
    BY <1>0, <1>1, <1>2, <1>3 DEF Tried, Numbered
  <2>2. wrong' <= MaxTries
    BY <1>1, <1>2 DEF UpTo
  <2> QED  BY <1>0, <1>1, <1>2, <2>1, <2>2, NumberedMoves DEF Numbered, Placed
<1>5. ASSUME ~overlap'
      PROVE  /\ \A q \in Requests \ {r} : pc[q] = "idle"
             /\ CountedRow' /\ Counting(r)' /\ SentRow' /\ Stepping(r)'
  <2>1. ~overlap /\ \A q \in Requests \ {r} : pc[q] = "idle"
    BY <1>0, <1>1, <1>5, EntersAlone
  <2>2. CountedRow /\ SentRow
    BY <1>0, <2>1 DEF CountInv, StepInv
  <2>3. CountedRow'
    <3>1. /\ spent' <= (IF mem[i].is THEN spent + 1 ELSE spent) /\ spent' \in Nat
          /\ mem'[i].is = mem[i].is /\ mem'[i].tries \in Nat /\ mem'[i].tries <= MaxTries
      BY <1>1, <1>2, <1>4 DEF UpTo, Tried, TypeOK, Otp, Numbered
    <3>2. CASE mem[i].is
      <4>1. Guesses <= mem[i].tries /\ refused <= row.otp.tries
        BY <2>2, <3>2 DEF CountedRow, Shut
      <4>2. Guesses' <= mem'[i].tries /\ Guesses' <= MaxTries /\ ~NoEntry'
        <5>1. refused' = refused /\ spent' <= spent + 1 /\ mem'[i].tries = mem[i].tries + 1
          BY <1>1, <3>1, <3>2 DEF Tried
        <5>2. Guesses' <= mem'[i].tries
          BY <1>2, <3>1, <4>1, <5>1 DEF Guesses
        <5>3. Guesses' \in Nat
          BY <1>2, <3>1, <5>1, SumTyped DEF Guesses
        <5>4. Guesses' <= MaxTries
          BY <1>2, <3>1, <5>2, <5>3
        <5>5. ~NoEntry'
          BY <3>1, <3>2 DEF NoEntry
        <5> QED  BY <5>2, <5>4, <5>5
      <4> QED  BY <1>0, <1>1, <4>1, <4>2 DEF CountedRow
    <3>3. CASE ~mem[i].is
      <4>1. Guesses' <= Guesses /\ Guesses' \in Nat /\ Guesses \in Nat
        BY <1>1, <1>2, <3>1, <3>3 DEF Guesses
      <4>2. NoEntry /\ \A j \in Isolates : ~mem'[j].is
        BY <1>0, <3>1, <3>3 DEF NoEntry
      <4> QED  BY <1>1, <1>2, <2>2, <4>1, <4>2 DEF CountedRow, Shut, NoEntry
    <3> QED  BY <3>2, <3>3
  <2>4. Sent' => Sent
    BY <1>1, <2>1 DEF Sent, Stands
  <2>5. wrong <= wrong' /\ (o.tries <= wrong => o.tries + 1 <= wrong')
    BY <1>0, <1>1, <1>2 DEF UpTo, Numbered
  <2>6. ASSUME Sent', row'.st = "INVITED"
        PROVE  Newest(row.otp)' /\ (mem'[i].is => Newest(mem[i])')
    <3>1. Newest(row.otp) /\ (mem[i].is => Newest(mem[i]))
      BY <1>1, <2>2, <2>4, <2>6 DEF SentRow
    <3>2. wrong' \in Nat
      BY DEF TypeOK
    <3>3. Newest(row.otp)'
      BY <1>1, <1>2, <2>5, <3>1, <3>2 DEF Newest
    <3>4. mem'[i].is => Newest(mem[i])'
      BY <1>1, <1>2, <1>3, <2>5, <3>1, <3>2 DEF Newest, Tried
    <3> QED  BY <3>3, <3>4
  <2>7. SentRow'
    BY <1>0, <2>6 DEF SentRow
  <2>8. Counting(r)' /\ Stepping(r)'
    BY <1>1, Resting DEF AtRest
  <2> QED  BY <2>1, <2>3, <2>7, <2>8
<1> QED  BY <1>1, <1>4, <1>5, QuietMoves DEF QuietInv

\* The code that was sent.
LEMMA QuietMatch ==
  ASSUME Steady, OneIsolate, NEW r \in Requests, NEW i \in Isolates, VerifyMatch(r, i), TypeOK'
  PROVE  QuietInv'
<1>0. TypeOK /\ Sole /\ Numbered /\ CountInv /\ StepInv /\ \A j \in Isolates : j = i
  BY DEF Steady, IInv, QuietInv, OneIsolate
<1>1. /\ Stands(r) /\ pc'[r] = "verify_write" /\ Enter(r) /\ Holds
      /\ Open(Held(mem[i], row.otp))
      /\ loc'[r].otp.is /\ loc'[r].otp.code = row.otp.code
      /\ loc'[r].otp.tries = row.otp.tries /\ loc'[r].at # {}
      /\ Kept /\ UNCHANGED <<row, last, mailed, wrong, refused, spent>>
  BY <1>0, VerifyMatching
<1>2. Numbered'
  <2>1. last \in Nat
    BY <1>0 DEF TypeOK
  <2> QED  BY <1>0, <1>1, <2>1, HoldsBound, NumberedMoves DEF Numbered
<1>3. ASSUME ~overlap'
      PROVE  /\ \A q \in Requests \ {r} : pc[q] = "idle"
             /\ CountedRow' /\ Counting(r)' /\ SentRow' /\ Stepping(r)'
  <2>1. ~overlap /\ \A q \in Requests \ {r} : pc[q] = "idle"
    BY <1>0, <1>1, <1>3, EntersAlone
  <2>2. Sent' => Sent
    BY <1>1, <2>1 DEF Sent, Stands
  <2>3. CountedRow' /\ SentRow'
    BY <1>0, <1>1, <2>1, <2>2, Lesser, Keeping
  <2>4. CountedRow /\ ~Shut
    BY <1>0, <1>1, <2>1 DEF CountInv, Shut, Open, Held
  <2>5. Counting(r)'
    BY <1>1, <2>4 DEF Counting, CountedRow, Holds, Kept, NoEntry, Guesses
  <2>6. Stepping(r)'
    BY <1>1, <2>3 DEF Stepping, SentRow, Newest
  <2> QED  BY <2>1, <2>3, <2>5, <2>6
<1> QED  BY <1>1, <1>2, <1>3, QuietMoves DEF QuietInv

LEMMA QuietVerifyWrite ==
  ASSUME Steady, NEW r \in Requests, VerifyWrite(r), TypeOK'
  PROVE  QuietInv'
<1>0. TypeOK /\ Sole /\ Numbered /\ CountInv /\ StepInv
  BY DEF Steady, IInv, QuietInv
<1>1. /\ Stands(r) /\ pc[r] \in {"refuse_write", "verify_write"} /\ pc'[r] = "idle"
      /\ loc'[r].otp.tries = 0 /\ row'.otp = loc[r].otp /\ row'.st = row.st
      /\ refused' = IF pc[r] = "refuse_write" THEN UpTo(MaxTries + 1, refused + 1) ELSE refused
      /\ UNCHANGED <<mem, last, mailed, overlap, wrong, spent>>
  BY <1>0, Returning, Writing DEF VerifyWrite, code
<1>2. last \in Nat /\ refused \in Nat /\ spent \in Nat /\ MaxTries \in Nat /\ loc[r].otp.tries \in Nat
      /\ \A i \in Isolates : mem[i].tries \in Nat
  BY <1>0, TriesAssumption DEF TypeOK, Locals, Otp
<1>3. Numbered'
  BY <1>0, <1>1, <1>2, NumberedMoves DEF Numbered, Placed
<1>4. ASSUME ~overlap'
      PROVE  /\ \A q \in Requests \ {r} : pc[q] = "idle"
             /\ CountedRow' /\ Counting(r)' /\ SentRow' /\ Stepping(r)'
  <2>1. \A q \in Requests \ {r} : pc[q] = "idle"
    BY <1>0, <1>1, <1>4, WorksAlone
  <2>2. CountedRow /\ SentRow /\ Counting(r) /\ Stepping(r) /\ loc[r].otp.tries <= MaxTries
    BY <1>0, <1>1, <1>4 DEF CountInv, StepInv, Numbered
  <2>3. /\ refused' <= loc[r].otp.tries
        /\ \A i \in Isolates : mem[i].is => Guesses' <= mem[i].tries
        /\ NoEntry => Guesses' <= loc[r].otp.tries
    <3>1. CASE pc[r] = "refuse_write"
      <4>1. refused' <= refused + 1 /\ refused' \in Nat /\ Guesses' <= Guesses + 1
            /\ Guesses \in Nat /\ Guesses' \in Nat
        BY <1>1, <1>2, <3>1 DEF UpTo, Guesses
      <4>2. /\ refused < loc[r].otp.tries
            /\ \A i \in Isolates : mem[i].is => Guesses < mem[i].tries
            /\ NoEntry => Guesses < loc[r].otp.tries
        BY <2>2, <3>1 DEF Counting
      <4> QED  BY <1>2, <4>1, <4>2
    <3>2. CASE pc[r] = "verify_write"
      BY <1>1, <2>2, <3>2 DEF Counting, Guesses
    <3> QED  BY <1>1, <3>1, <3>2
  <2>4. CountedRow'
    <3>1. Guesses' \in Nat
      <4>1. refused' \in Nat /\ spent' \in Nat
        BY DEF TypeOK
      <4> QED  BY <4>1, SumTyped DEF Guesses
    <3>2. CASE NoEntry
      <4>1. Guesses' <= MaxTries
        BY <1>2, <2>2, <2>3, <3>1, <3>2
      <4> QED  BY <1>1, <2>3, <3>2, <4>1 DEF CountedRow, NoEntry
    <3>3. CASE ~NoEntry
      <4>1. PICK i \in Isolates : mem[i].is
        BY <3>3 DEF NoEntry
      <4>2. mem[i].tries <= MaxTries
        BY <1>0 DEF Numbered
      <4>3. Guesses' <= MaxTries
        BY <1>2, <2>3, <3>1, <4>1, <4>2
      <4> QED  BY <1>1, <2>3, <3>3, <4>3 DEF CountedRow, NoEntry
    <3> QED  BY <3>2, <3>3
  <2>5. Sent' => Sent
    BY <1>1, <2>1 DEF Sent, Stands
  <2>6. SentRow'
    BY <1>1, <2>2, <2>5 DEF SentRow, Stepping, Newest
  <2>7. Counting(r)' /\ Stepping(r)'
    BY <1>1, Resting DEF AtRest
  <2> QED  BY <2>1, <2>4, <2>6, <2>7
<1> QED  BY <1>1, <1>3, <1>4, QuietMoves DEF QuietInv

\* A signature closes row and memory.
LEMMA QuietSign ==
  ASSUME Steady, OneIsolate, NEW r \in Requests, SignWrite(r), TypeOK'
  PROVE  QuietInv'
<1>0. TypeOK /\ Sole /\ Numbered /\ CountInv /\ StepInv
  BY DEF Steady, IInv, QuietInv
<1>1. /\ Stands(r) /\ pc[r] = "sign_write" /\ pc'[r] = "idle" /\ loc'[r].otp.tries = 0
      /\ (row'.otp = NoOtp \/ row'.otp = row.otp) /\ row'.st = "SIGNED"
      /\ Forget /\ UNCHANGED <<last, mailed, overlap, wrong, refused>>
  BY <1>0, Returning DEF SignWrite, code
<1>2. \A i \in Isolates : i \in loc[r].at
  <2>1. loc[r].at # {} /\ loc[r].at \subseteq Isolates
    BY <1>0, <1>1 DEF Numbered, Placed, TypeOK, Locals
  <2> QED  BY <2>1 DEF OneIsolate
<1>3. \A i \in Isolates : mem'[i] = NoOtp
  BY <1>2 DEF SignWrite
<1>4. Numbered'
  <2>1. last \in Nat /\ NoOtp.tries = 0
    BY <1>0 DEF TypeOK, NoOtp
  <2> QED  BY <1>0, <1>1, <1>3, <2>1, NumberedMoves, TriesAssumption DEF Numbered, Placed
<1>5. ASSUME ~overlap'
      PROVE  /\ \A q \in Requests \ {r} : pc[q] = "idle"
             /\ CountedRow' /\ Counting(r)' /\ SentRow' /\ Stepping(r)'
  <2>1. \A q \in Requests \ {r} : pc[q] = "idle"
    BY <1>0, <1>1, <1>5, WorksAlone
  <2>2. CountedRow'
    <3>1. CASE row'.otp = NoOtp
      <4>1. Shut'
        BY <1>3, <3>1 DEF Shut, NoOtp
      <4>2. Guesses <= MaxTries /\ refused \in Nat /\ spent \in Nat /\ MaxTries \in Nat
        BY <1>0, <1>1, <1>5, TriesAssumption DEF CountInv, CountedRow, TypeOK
      <4> QED  BY <1>1, <4>1, <4>2 DEF CountedRow, Guesses, Forget
    <3>2. CASE row'.otp = row.otp
      <4>1. Holds
        BY <1>3 DEF Holds, NoOtp
      <4>2. Sent' => Sent
        BY <1>1, <2>1 DEF Sent, Stands
      <4> QED  BY <1>0, <1>1, <1>5, <3>2, <4>1, <4>2, Lesser
    <3> QED  BY <1>1, <3>1, <3>2
  <2>3. SentRow'
    BY <1>1 DEF SentRow
  <2>4. Counting(r)' /\ Stepping(r)'
    BY <1>1, Resting DEF AtRest
  <2> QED  BY <2>1, <2>2, <2>3, <2>4
<1> QED  BY <1>1, <1>4, <1>5, QuietMoves DEF QuietInv

\* A request that has read goes on to sign or to decline, or is done.
LEMMA QuietPassing ==
  ASSUME Steady, OneIsolate, NEW r \in Requests, TypeOK',
         \/ \E i \in Isolates : \/ VerifyClosed(r, i) \/ SubmitLocked(r, i)
                                \/ SubmitBare(r, i) \/ SubmitMatch(r, i)
         \/ DeclineRead(r)
  PROVE  QuietInv'
<1>0. TypeOK /\ Sole /\ Numbered /\ CountInv /\ StepInv
  BY DEF Steady, IInv, QuietInv
<1>1. /\ Stands(r) /\ Enter(r) /\ Holds /\ Forget /\ UNCHANGED <<row, last, mailed, wrong, refused>>
      /\ \/ pc'[r] = pc[r] /\ loc'[r] = loc[r]
         \/ pc'[r] = "decline_write" /\ loc'[r].otp.tries = 0
         \/ pc'[r] = "sign_write" /\ loc'[r].otp.tries = 0 /\ loc'[r].at # {}
  BY <1>0, Passing
<1>2. pc[r] = "idle" /\ pc'[r] \in AtRest /\ pc'[r] # "send_mail"
  BY <1>1 DEF Enter, AtRest
<1>3. Numbered'
  <2>1. last \in Nat /\ MaxTries \in Nat
    BY <1>0, TriesAssumption DEF TypeOK
  <2>2. loc'[r].otp.tries <= MaxTries
    BY <1>0, <1>1, <2>1 DEF Numbered
  <2>3. pc'[r] \notin {"send_write", "send_mail"} /\ (pc'[r] \in Placed => loc'[r].at # {})
    BY <1>1, <1>2 DEF AtRest, Placed
  <2> QED  BY <1>0, <1>1, <2>1, <2>2, <2>3, HoldsBound, NumberedMoves DEF Numbered
<1>4. ASSUME ~overlap'
      PROVE  /\ \A q \in Requests \ {r} : pc[q] = "idle"
             /\ CountedRow' /\ Counting(r)' /\ SentRow' /\ Stepping(r)'
  <2>1. ~overlap /\ \A q \in Requests \ {r} : pc[q] = "idle"
    BY <1>0, <1>1, <1>4, EntersAlone
  <2>2. Sent' => Sent
    BY <1>1, <1>2, <2>1 DEF Sent, Stands
  <2> QED  BY <1>0, <1>1, <1>2, <2>1, <2>2, Lesser, Resting
<1> QED  BY <1>1, <1>3, <1>4, QuietMoves DEF QuietInv

\* A request ends: its mail is out, it has declined, or it has failed.
LEMMA QuietEnding ==
  ASSUME Steady, OneIsolate, NEW r \in Requests, TypeOK', SendMail(r) \/ DeclineWrite(r) \/ Abort(r)
  PROVE  QuietInv'
<1>0. TypeOK /\ Sole /\ Numbered /\ CountInv /\ StepInv
  BY DEF Steady, IInv, QuietInv
<1>1. /\ Stands(r) /\ pc[r] # "idle" /\ pc'[r] = "idle" /\ loc'[r].otp.tries = 0
      /\ UNCHANGED <<mem, last, overlap, wrong, refused, spent>>
  BY <1>0, Returning DEF SendMail, DeclineWrite, Abort, code, history, tried
<1>2. row'.otp = row.otp /\ (row'.st = "INVITED" => row.st = "INVITED")
  BY <1>0 DEF SendMail, DeclineWrite, Abort, TypeOK, RecipientRow
<1>3. mailed' = mailed \/ (pc[r] = "send_mail" /\ mailed' = mailed \cup {loc[r].otp.code})
  BY DEF SendMail, DeclineWrite, Abort, code
<1>4. Numbered'
  <2>1. last \in Nat /\ MaxTries \in Nat
    BY <1>0, TriesAssumption DEF TypeOK
  <2>2. \A c \in mailed' : c <= last
    BY <1>0, <1>3 DEF Numbered
  <2>3. wrong' <= MaxTries /\ row'.otp.tries <= MaxTries /\ \A i \in Isolates : mem'[i].tries <= MaxTries
    BY <1>0, <1>1, <1>2 DEF Numbered
  <2> QED  BY <1>0, <1>1, <2>1, <2>2, <2>3, NumberedMoves DEF Placed
<1>5. ASSUME ~overlap'
      PROVE  /\ \A q \in Requests \ {r} : pc[q] = "idle"
             /\ CountedRow' /\ Counting(r)' /\ SentRow' /\ Stepping(r)'
  <2>1. ~overlap /\ \A q \in Requests \ {r} : pc[q] = "idle"
    BY <1>0, <1>1, <1>5, WorksAlone
  <2>2. Sent' => Sent
    BY <1>1, <1>3, <2>1 DEF Sent, Stands
  <2>3. Holds /\ Forget
    BY <1>1, Keeping DEF Holds, Kept
  <2> QED  BY <1>0, <1>1, <1>2, <2>1, <2>2, <2>3, Lesser, Resting DEF AtRest
<1> QED  BY <1>1, <1>4, <1>5, QuietMoves DEF QuietInv

LEMMA QuietWorld ==
  ASSUME Steady, OneIsolate, TypeOK', Expire \/ (\E i \in Isolates : Evict(i)) \/ UNCHANGED vars
  PROVE  QuietInv'
<1>0. TypeOK /\ Sole /\ Numbered /\ CountInv /\ StepInv
  BY DEF Steady, IInv, QuietInv
<1>1. UNCHANGED <<row, last, mailed, pc, loc, overlap, wrong, refused>>
  BY DEF Expire, Evict, code, history, tried, vars
<1>2. Holds /\ Forget
  <2>1. CASE UNCHANGED <<mem, spent>>
    BY <2>1, Keeping DEF Holds, Kept
  <2>2. CASE \E i \in Isolates : Evict(i)
    BY <1>0, <2>2 DEF Evict, Holds, TypeOK, NoOtp
  <2> QED  BY <2>1, <2>2 DEF Expire, history, tried, vars
<1>3. Numbered'
  BY <1>0, <1>1, <1>2, HoldsBound DEF Numbered
<1>4. ~overlap => CountedRow' /\ SentRow'
  BY <1>0, <1>1, <1>2, Lesser DEF Sent
<1>5. ~overlap => \A r \in Requests : Counting(r)'
  <2> SUFFICES ASSUME ~overlap, NEW r \in Requests, pc[r] \in Placed  PROVE Counting(r)'
    BY <1>1 DEF Counting, Placed
  <2>1. UNCHANGED <<mem, spent>>
    <3>1. \A i \in Isolates : i \in loc[r].at
      BY <1>0 DEF Numbered, TypeOK, Locals, OneIsolate
    <3>2. \A i \in Isolates : ~Evict(i)
      BY <3>1 DEF Evict
    <3> QED  BY <3>2 DEF Expire, history, tried, vars
  <2> QED  BY <1>0, <1>1, <2>1 DEF CountInv, Counting, NoEntry, Guesses
<1>6. ~overlap => \A r \in Requests : Stepping(r)'
  BY <1>0, <1>1, <1>2 DEF StepInv, Stepping, Holds, Newest, Sent, Fresh
<1> QED  BY <1>0, <1>1, <1>3, <1>4, <1>5, <1>6 DEF QuietInv, Sole, CountInv, StepInv

LEMMA QuietStarts == Init => QuietInv
<1> SUFFICES ASSUME Init PROVE QuietInv
  OBVIOUS
<1>1. /\ \A r \in Requests : pc[r] = "idle" /\ loc[r] = NoLocals
      /\ \A i \in Isolates : mem[i] = NoOtp
      /\ row.otp = NoOtp /\ last = 0 /\ mailed = {} /\ wrong = 0 /\ refused = 0 /\ spent = 0
      /\ MaxTries \in Nat
  BY TriesAssumption DEF Init, NewRow
<1>2. NoOtp.tries = 0 /\ ~NoOtp.is /\ NoLocals.otp = NoOtp
  BY DEF NoOtp, NoLocals
<1>3. Sole /\ Numbered
  BY <1>1, <1>2 DEF Sole, Numbered, Placed
<1>4. CountInv
  BY <1>1, <1>2 DEF CountInv, CountedRow, Shut, Counting, Guesses
<1>5. StepInv
  BY <1>1, <1>2 DEF StepInv, SentRow, Sent, Stepping
<1> QED  BY <1>3, <1>4, <1>5 DEF QuietInv

LEMMA QuietContinues ==
  ASSUME OneIsolate
  PROVE  Steady /\ [Next]_vars => Steady'
<1> SUFFICES ASSUME Steady, [Next]_vars PROVE QuietInv' /\ IInv'
  BY DEF Steady
<1>0. IInv' /\ TypeOK'
  BY Continues DEF Steady, IInv
<1>1. CASE Expire \/ (\E i \in Isolates : Evict(i)) \/ UNCHANGED vars
  BY <1>0, <1>1, QuietWorld
<1>2. ASSUME NEW r \in Requests, Serve(r) PROVE QuietInv'
  <2>1. ASSUME NEW i \in Isolates, SendRead(r, i) \/ Verify(r, i) \/ Submit(r, i)
        PROVE  QuietInv'
    BY <1>0, <2>1, QuietSendRead, QuietMismatch, QuietMatch, QuietSubmitMismatch, QuietPassing
    DEF Verify, Submit
  <2>2. CASE SendWrite(r) \/ VerifyWrite(r) \/ SignWrite(r)
    BY <1>0, <2>2, QuietSendWrite, QuietVerifyWrite, QuietSign
  <2>3. CASE SendMail(r) \/ DeclineRead(r) \/ DeclineWrite(r) \/ Abort(r)
    BY <1>0, <2>3, QuietPassing, QuietEnding
  <2> QED  BY <1>2, <2>1, <2>2, <2>3 DEF Serve
<1> QED  BY <1>0, <1>1, <1>2 DEF Next

\* Between two sends no more than MaxTries wrong codes are answered, when one
\* isolate serves the recipient and its requests do not overlap: all those of
\* verifySignerOtp, which counts in memory and in the row, with those of
\* submitRecipientSignature for as long as the memory that counts them lives.
THEOREM GuessesAreBounded ==
  ASSUME OneIsolate
  PROVE  Spec => []TriesBounded
<1>1. Init => Steady
  BY Starts, QuietStarts DEF Steady
<1>2. Steady /\ [Next]_vars => Steady'
  BY QuietContinues
<1>3. Steady => TriesBounded
  BY DEF Steady, QuietInv, CountInv, CountedRow, TriesBounded, Calm
<1> QED  BY <1>1, <1>2, <1>3, PTL DEF Spec

\* The newest code opens the gate, and would after an eviction: sendSignerOtp
\* and verifySignerOtp keep the memory of the isolate and the row in step.
THEOREM LatestWorks ==
  ASSUME OneIsolate
  PROVE  Spec => []LatestCodeWorks
<1>1. Init => Steady
  BY Starts, QuietStarts DEF Steady
<1>2. Steady /\ [Next]_vars => Steady'
  BY QuietContinues
<1>3. Steady => LatestCodeWorks
  <2> SUFFICES ASSUME Steady, Calm, last > stale, wrong < MaxTries, row.st = "INVITED",
                      NEW i \in Isolates, NEW m \in {mem[i], NoOtp}
               PROVE  Open(Held(m, row.otp)) /\ Matches(Held(m, row.otp), last)
    BY DEF LatestCodeWorks
  <2>1. Newest(row.otp) /\ (mem[i].is => Newest(mem[i]))
    BY DEF Steady, QuietInv, StepInv, SentRow, Sent, Calm
  <2> DEFINE o == Held(m, row.otp)
  <2>2. Newest(o)
    BY <2>1 DEF Held, NoOtp
  <2>3. o.tries \in Nat /\ wrong \in Nat /\ last \in Nat /\ stale \in Nat /\ MaxTries \in Nat
    BY HeldTyped, TriesAssumption DEF Steady, IInv, TypeOK, Held, NoOtp, Otp
  <2> HIDE DEF o
  <2> QED  BY <2>2, <2>3 DEF Newest, Open, Locked, Expired, Matches, o
<1> QED  BY <1>1, <1>2, <1>3, PTL DEF Spec
==============================================================================
