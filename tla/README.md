# graphsign.ink in TLA+

A verification development of the [graphsign.ink](../src/README.md) electronic
signature platform: TLA+ modules translated from the API server's source, TLC
runs on small instances of them, and TLAPS proofs of theorems that hold for
every instance. The source is the reference; where a document, a comment or a
message says something else, a run or section 6 shows the difference.

## 1. The system

`src/apps/api` is a TypeScript HTTP API (Hono on Cloudflare Workers, or Node).
All shared state is in Postgres, through Prisma, at the default isolation level
(READ COMMITTED). A request is served by one handler: it reads rows, decides, and
writes rows, nearly always as separate autocommitted statements; handlers of
different requests interleave at every statement. Some state is in the memory of
an isolate (one-time codes, cached statuses, revoked tokens), and goes with it.
There is no scheduler and no queue consumer in the repository: what looks periodic
(expiry, warnings) is a route an administrator calls, and nothing picks up a
scheduled retry or a pending event.

| Component | State | Operations | What makes it correct | Module |
|---|---|---|---|---|
| Signing workflow (`workflow-service.ts`) | agreement status, step and metadata; recipient rows and tokens; notification log | review cycle, send, sign, decline, cancel, remind, warn, expire | each tier in its turn; no signature lost; completion exactly when all have signed, and announced; nobody stranded without a link | `Signing`, `Envelope` |
| Sealing (`pades-sealing-service.ts`) | one documentSeal per agreement, sealed PDF in the metadata | seal | one seal, which shows the signatures of the current signers, and whose links stay valid | `Signing` |
| Signer one-time codes (in `workflow-service.ts`) | code and tries, in memory and in the row | send, verify, the gate of a submission | who signs as a guest has proved the mailbox; the newest code works; wrong tries are counted | `SignerOtp` |
| Agreement text (`agreement-service.ts`, editor) | version, text, history, open tabs | save, activate, version, delete | no tab overwrites a text it has not shown; the history is true; only drafts are edited | `Drafting` |
| Document requests (`routes/documents.ts`, `middleware/idempotency.ts`, `audit-service.ts`) | idempotency record with its lease, quotas, hash-chained log | POST with retries | one document for a key; quotas kept; one chain | `DocumentRequests` |
| Domain-event outbox, webhooks (`domain-event-service.ts`, `webhook-*-service.ts`, `routes/webhooks.ts`) | events by deduplication key; subscriptions, deliveries with a lease, attempts, dead letters | publish; fan-out, execute, replay, patch, delete | an attempt is POSTed once; four attempts; what is executed is judged, and what is given up can be found | `WebhookDelivery` |
| Organisations (`organisation-service.ts`, `rbac-service.ts`) | users, memberships, invitations, join requests, domain | invite, accept, review, role, status, remove, delete | an administrator remains; seats are kept; nobody waits for a review that cannot come; revoked invitations stay so | `Membership` |
| Accounts (`auth-service.ts`) | users, links mailed to them | register, verify, reset, change of email, end | a verified address has been read; the newest link works; one account for an address; no link touches an ended account | `Accounts` |
| Sessions (`auth-service.ts`, `jwt-auth.ts`, `tenant-status-middleware.ts`) | tokens, revocations in memory and table, second factor, cached organisation status | sign in, second factor, sign out, suspend, each request's checks | a revoked token stays out; suspension takes effect in time where it is asked for; the second factor can be produced by its owner | `Sessions` |
| Rate limiter, feature flags, maintenance, platform configuration | one row each, read and then updated | check, toggle | no lost update | none |
| Certificates, keys, CSC, revocation, time-stamps | certificate status, wrapped keys | issue, revoke, sign | mostly cryptography and external calls | none |
| Verification, search, templates, PDF, web pages, Java signer | none shared, or single-row updates | reads and pure functions | outside a state model | none |

How they interact. A submitted signature passes the gate of the one-time code, writes
the recipient's row, appends to the audit chain, publishes to the outbox, re-reads the
list, and then either completes (agreement row, seal, e-mails, another event) or
advances the tier (agreement row, recipient rows, e-mails). An event is fanned out to
one delivery per subscription; a delivery is executed under a lease and ends in
success, retry or dead letter. Each request passes the checks of `Sessions`; who may be
a member, and who has an account, is decided by `Membership` and `Accounts` over the
same table `users`.

What is hard: the same rows written by several handlers from stale reads; a
handler that dies between two statements of one operation; e-mails that throw in
the middle of a loop after tokens were rotated; long legal sequences (send, cancel,
activate, send again) that meet a previous life of the agreement; leases without a
fence on the last write; state kept twice, in an isolate's memory and in a table.
`PROJECT.json` lists each such hazard at its line, with the properties that watch it or
the reason none does.

## 2. Modules

| Module | Content | Theorems in |
|---|---|---|
| `Signing` | the workflow of one agreement, all its handlers, sealing and completion events included | `SigningProofs` |
| `Envelope` | what the workflow promises to the parties of an agreement: the abstract specification `Signing` implements | `SigningProofs` |
| `SignerOtp` | the one-time code of one recipient | `SignerOtpProofs` |
| `Drafting` | text, version number and version history of one agreement, and the editor tabs on it | `DraftingProofs` |
| `DocumentRequests` | POST /documents with its idempotency key, quotas and audit log | `DocumentRequestsProofs` |
| `WebhookDelivery` | delivery of one domain event to the organisation's subscriptions | `WebhookProofs` |
| `Membership` | the members of one organisation | `MembershipProofs` |
| `Accounts` | accounts, their addresses and the links mailed to them | `AccountsProofs` |
| `Sessions` | the sessions of one account and the checks of its requests | `SessionsProofs` |

Each has a module `MC...` with the constants, operation sets and symmetries for TLC.
`MC*` and `*Proofs` extend the component's module. The components do not share
variables: an event and its deliveries are never read by the workflow, the workflow
never looks at the text, and where two of them write the same row (`Drafting` and
`Signing` the status, `Signing` and `SignerOtp` the recipient, `Membership` and
`Accounts` the user) each has the writes of the other that it depends on as actions of
its own.

All follow one pattern. A request reaches an idle handler by an action that reads
(`SignRead`, `SaveRead`, ...); `pc` says where the handler is and `loc` what it remembers
of its reads, which is where staleness lives; one action per later statement, mail or
POST. Where the code lets several writes of one request happen without any other read
or write between them that matters, this is said at the head of the module. Variables
marked "history" belong to no table: they record what a property speaks of (who has
been told what, which requests overlapped). Definitions commented "Fault:" are
variations of a neighbouring definition, each a plausible mistake in the code, used
to confirm that a property notices it.

### 2.1 Signing

One agreement. `agr` is its row (status, signing order, current step, verification
token and sealed PDF of the metadata JSON, deletedAt), `row` the recipient rows,
indexed by send and position since `sendForSignature` deletes and recreates them;
`held` says who has received the row's current token (only its hash is stored);
`seal`, `links`, the three `...Evt` variables and `warned` are the seal row,
the e-mailed permanent links, the outbox and the notification log. `gens`,
`vtoks`, `seals` number fresh identifiers.

`SignRead`, `SignWrite`, `SignPublish`, `SignEvaluate`, then `SignComplete`, `SignSeal`,
`SignNotify` or `SignAdvance` and the mail loop are `submitRecipientSignature`; the
other handlers likewise. The loop of send, advance, reminder, session and warning is
shared: `LoopVisit` updates a row and rotates its token, `LoopMail` sends the mail.
`SendDelete` and `SendCommit` are the two statements of the send transaction; two
concurrent sends do not see each other's rows. `Abort` is a death of the isolate, or a
throw, at any point, when `Faults` is set.

Abstracted: who may call, field validation (a refused request changes nothing), audit
rows and the wording of mails; the one-time code has a module of its own. The sealing
of a completion is one action because it runs under two transaction-level advisory
locks.

### 2.2 Envelope

The agreement as its parties see it: who is awaited, who has signed, whether it is
complete, whose signatures the sealed document shows, whether completion has been
announced. A send replaces the list as a whole and never that of a complete agreement;
a signature stays until its party declines; completion and seal need every signature
awaited; there is one seal, and an announcement only of what is complete. `Signing`
instantiates it as `Promised` with the mapping: awaited, signed and shown are the
recipients with an active role among the live rows, the SIGNED rows and the seal's
document, `complete` is the status COMPLETED, `announced` that the event
document.completed is in the outbox. `ImplementsEnvelope` is the abstract specification
as a property of `Signing`. Note what the envelope allows: a completed agreement can be
reopened, by an activation, a decline, or an expiry sweep that read it as SENT.

### 2.3 SignerOtp

One recipient. `row` has the status, whether a guest signed, and the entry `_otp` inside
the JSON of signatureData; `mem` is the static Map of each isolate. `SendRead`,
`SendWrite`, `SendMail` are `sendSignerOtp`; the `Verify...` actions the branches of
`verifySignerOtp` (closed or expired, mismatch with its count, match); the `Submit...`
actions those of the gate in `submitRecipientSignature`, and `SignWrite` its update, which
replaces signatureData whole if the submission carries any. `refused` and `spent` count
the wrong codes answered by either, the latter until its counter is lost (`Forget`). Every request writes the JSON back as it read it, so
requests that overlap undo each other. An isolate that serves nothing may forget at any
time (`Evict`), and with faults a write or the mail fails.

### 2.4 Drafting

One agreement while it is written: `agr` (status, version, text, deletedAt), `history`
(the version rows, unique by number), and `tab`, the editors in the browser. An editor
takes the version from the list it was opened from (`OpenTab`) and fetches the text
afterwards (`LoadTab`); `SaveTab` sends the version along, `MoveToActive` does not.
`SaveRead`, `SaveWrite`, `SaveSnapshot` are the statements of `saveDraft`, likewise for
`activateAgreement` and `createVersion`; `ApiSave` is the read that the public API's
PUT and PATCH make before they call it. A text is a number, new with each edit, so that
"the same text" can be said; the title, the description and the tags count as part of it.
`loc[h].base` is the text an edit started from; no table has it. `Serial` restricts the
requests that the code does not protect from each other (status changes, unguarded
saves, `createVersion`) to times when nothing else runs; guarded saves, activations and
deletions always overlap freely.

### 2.5 DocumentRequests

One client, one key, one organisation. `record` is the idempotency record; `docs`, `used`,
`log` and `announced` are the agreements, the storage counter, the audit rows and the
events. The middleware reserves the key, answers from it, refuses it, or takes it over
once the lease has run out; then the handler counts, checks the storage, creates, adds
the bytes, logs and publishes; then the middleware stores the answer or drops the key.
`Copy` is `cloneAgreement` or `instantiateTemplate`: it creates and logs, and neither checks
a quota nor adds bytes. `copied` counts these, and `uncounted` all documents whose bytes
have not been added, since the addition failed or was not attempted; so that `QuotaKept`
can speak of what is stored, and not of the counter that the check reads. Deletion is
not in the module.
`log` runs in `uploadAgreementFile` without a transaction: the look-up of the last entry
and the new entry are two actions. An error thrown by the handler is made into an answer
by `errorHandler` before the middleware's own catch could see it. `raced` records what the
code leaves unprotected: a creation while another request is between its count and its
own creation, an addition of bytes while another is between its check and its own
addition, a log between another's look-up and entry; `lapsed` that a lease has run out
or the key was given up.

### 2.6 WebhookDelivery

One domain event, at most one delivery row per subscription and replay generation
(the unique constraint of the schema). A row has its state, the number of attempts
begun and the lease version. `attempts` are the append-only attempt rows, `sent`
the POSTs that reached the transport (known to no table), `unfilable` those of them whose
answer no attempt row can hold, `dead` the dead letters.

`FanOut`, `FanCreate`, `FanDone` are `fanOutEvent`; `Execute` (the read), then
`Cancel` or `Claim`, `Send`, `Record`, `Finish`, `Bury` are `executeDelivery`, one
action per statement; `ReplayRead`, `ReplayCreate`, `ReplayMark`, `ReplayExecute` the
replay route, which executes the new delivery itself; `PatchRead`, `DeleteRead`,
`SubWrite` the routes that change a subscription while workers run. `Claim` is the only
conditional update of the code: it compares the lease version. Who calls
`executeDelivery`, and in which states of the delivery, is the environment
(`Callable`): a queue that delivers at least once may call it for any delivery at any
time, so the race run allows every state.

### 2.7 Membership

A person is in two tables: `users` (home organisation, role, status, deletedAt), where
administrators and seats are counted, and `user_organisations`. Requests are invitations
(made, resent, revoked, expired, accepted by registered people and by new ones),
registration with an address of the organisation's domain under each policy, reviews of
join requests, changes of role and status, removal, assignment by a super admin,
deletion of an account and of the organisation. `overlap` records which kinds of
requests have come between another's count and its write, `broken` a review that died
between its two writes. Roles are three: the administrators that the guards protect
(`admin`, `org_admin`), super admins, who are counted with them and guarded by nothing,
and members (any other name); `unguarded` records that a super admin was let go when no
other administrator was left.

### 2.8 Accounts

`account` are rows of `users`, `link` the links made so far (verification, reset, change
of email) with their fate; a row holds the number of the current link of each kind, as
the code holds its hash. A link may be mailed, lost, grow old, and be opened by whoever
reads the mailbox it was sent to. `End` is `deleteAccount` or `removeMember`; `SetStatus`
and `Assign` are `updateMemberStatus` and `superAdminAssignAdmin`, which find ended accounts
too and make them active while `deletedAt` stays. Each registration founds an organisation of its own,
and the address is unique only within one.

### 2.9 Sessions

One account: its second factor (`secret`, `pendingSecret`), the secrets on the owner's
device, tokens, `revoked_access_tokens`, and the organisation's status, which each isolate
keeps for a minute. Every request is admitted only after the look-up of its token;
`Authenticate` is a route that asks for the organisation's status next, and
`AuthenticateOpen` one that does not. Each look-up waits for the database, and one that
fails lets the request pass, as in the code. `Logout` finds its token and revokes it;
`LogoutBlind` carries none where the code looks, revokes nothing and is answered alike.
`out` are the tokens found and answered.

## 3. Runs

| Run | Instance | Shows |
|---|---|---|
| `signing` | one handler that may die or throw anywhere; two tiers, sequential; two sends; every operation but the expiry warning | long legal sequences keep turn, signatures, seal and links right, and every step is one of the envelope or none |
| `signing_race` | two handlers; three signers, the last tier a pair; sequential and parallel; reminders, sessions and warnings race with signatures; fair | no completion lost between last signers or by double submission, nobody stranded by a rotated token, every sent agreement completes and is announced |
| `otp` | one isolate that may forget, two overlapping requests, two codes, two tries, faults | a guest has proved its mailbox, the newest code works, the wrong codes answered to verification and submission together are bounded while a counter knows them |
| `drafting` | two handlers, two tabs, every operation, three that change text or version | no text overwritten unseen, only drafts edited, versions grow through re-activations, the history agrees with the row |
| `document_requests` | two bodies, two requests at once, three in all, a lease of one tick, faults | one document for a key, quotas on what is stored (copies and uncounted bytes apart), one chain |
| `webhook_serial` | one worker, one subscription, one replay, every operation, fair | the state is the verdict on the last attempt unless its answer cannot be filed, four POSTs at most, dead letters are the deliveries given up, a replay is carried out |
| `webhook_race` | two workers, any state, faults | an attempt is POSTed once, the attempt rows tell the truth |
| `membership` | three people, two seats, two invitations, three requests of which two overlap, faults | an administrator remains unless the last is a super admin, seats are kept, nobody waits in vain, revoked invitations stay revoked |
| `accounts` | two accounts, three addresses, three links, five requests of which two overlap, faults | a verified address has been read, the newest link works, one account for an address, no link touches an ended account |
| `sessions` | two tokens, two secrets, two isolates, four requests of which two overlap, faults | a token found by a logout is signed out, suspension in time on the routes that ask for it, a second factor its owner holds |
| `claim_stable_links` | two signers of one tier, two handlers | the links do not stay what the code says (section 6) |
| `claim_last_admin` | two requests, no faults | two demotions leave no administrator (section 6) |

Bounds. `Slots` and `Tier` give the smallest lists with two tiers, and with a tier of
two, whose members race as last signers. `MaxGen` = 2 sends let an agreement meet its
previous list; `MaxTok` bounds token rotations per recipient and is large enough for
each operation that rotates to happen after each other; `MaxVTok` allows two
completions that each make a verification token. `MaxCount` = 5 lies above the four
attempts that the code allows, so that the bound does not do the code's work; in
`webhook_race` 3 is enough for two workers to overlap on two successive attempts. Three
requests on a text allow an activation between a read and a write, and a re-activation.
In `otp` two tries and two codes stand for five tries and any number of codes: the
second try is the one that locks, and the second code the one that replaces another.
Two seats and two invitations make the second acceptance the one that would exceed the
quota. Only the roles admin and member are given (`Offered`); the founder may be a super admin from
the start. The organisation starts with the schema's default policy, and every other is
reached by `SetPolicy`.
Three links are one of each kind, or a link, its successor and another's;
five requests suffice to register, open, ask for a change and open again while one
overlaps. In `sessions` and `document_requests` a lease or a cache time of one tick is
the shortest that can be outlived by a slow request. Two handlers are enough for every
stale read of the properties, each of which relates one reader to one writer; where
this is not so (the step set back, section 6, takes three) the theorem of section 4 is
about any number. `document_requests` has a storage quota of one document beside a
quota of two, so that each is met before the other in some behaviour.

One handler or two. Where the code does not protect requests from each other, the
property is checked with one handler, or with a history variable that excepts overlap
(`overlap`, `raced`, `moved`, `lapsed`): what it then says is about sequences, faults
and stale copies. Where the code does protect them, they overlap freely: `NoLostCompletion`,
`SomeoneCanSign`, `SavesSeen` for editors, `SentOnce`, `GuestProved`, `AddressProven`,
`OneDocument` within the lease, and the three properties of `Sessions`.

Deadlock checking is off where the counters are bounded and a system with nothing
requested rests. Fairness: `WF(Continue)` says a handler that has started goes on, as
the platform runs it; it is only used without faults. `SentCompletes` also assumes
that recipients who can sign do (`WF` on some handler receiving a signature): without
it an agreement rightly waits for ever. `ReplaySettles` needs no more than
`WF(Continue)`: a replay is executed by the request that asks for it. Nobody is assumed
to execute what a fan-out has created or what is due for a retry, since nothing in the
repository does.

## 4. Proofs

The theorems hold for every value of the constants under the named ASSUMEs of the
modules (types of the constants), and under what a theorem itself assumes.

`SigningProofs`, for every set of handlers, every recipient list and routing:

* `TypeCorrect`: `Spec => []TypeOK`, with faults or without. The inductive invariant
  `Typed` adds to the types what a handler's place says of its locals (`Fits`): a
  handler working for a recipient knows which, one that sends knows its list. One
  lemma per group of actions, on top of lemmas about `Return`, `Goto` and row writes.
* `CompletionIsNotLost`: with `Faults = FALSE`, `Spec => []NoLostCompletion`. Given
  types, the property is itself inductive: the handler that makes the last missing
  signature is then at a place from which it evaluates; it gives up only when
  its re-read still misses somebody; and only a send leads back to SENT, with a
  list of unsigned recipients. This is the re-read after the write in
  `submitRecipientSignature`, and it holds for any number of racing signers.
* `NobodyIsStranded`: with `Faults = FALSE`, one send (`MaxGen = 1`) and somebody to
  await in the first tier, `Spec => []SomeoneCanSign`, for all operations and any number
  of handlers. The invariant `OneList` says that there are no rows before the send
  commits (`Unsent`), and that from then on, while the agreement is SENT (`Underway`):
  whoever has been reached by a link, a mail under way or a loop still to come stays
  reached (`Reached`), since a rotation takes a link away only to mail another; whoever
  waits lies beyond every step that the row has, that a handler has read or is about to
  write, and beyond the tier of every link held (`Beyond`), so that no stale judgement
  stops short of them; and somebody missing is reached, or a handler is about to judge,
  to unlock or to end the agreement (`Progress`). TLC has checked `OneList` to the end
  for three handlers and three tiers of one, with sends, submissions and reminders.
  The hypotheses are needed: a death between rotation and mail leaves a dead link; a
  submission to the old list may unlock a tier in the new one; and the code takes any
  `routingOrder`, so that a sequential list whose first tier is empty, or holds only
  viewers who never submit, invites nobody to sign.

Also there, with a single handler (two do break these, section 6), faults at any
statement, every list, routing and bound:

* `EnvelopeKept`: `Spec => ImplementsEnvelope`, the refinement, and `SignaturesAreKept`:
  `Spec => SignatureKept`. The invariant `Alone` says that links are held and rows
  touched only in their turn (`RowsInTurn`), that a seal is filed in row and metadata
  together (`SealIsFiled`), and, for each place of the handler, that what it has read is
  still so when it uses it (`Holds`): this is what fails with two handlers.
* `LinksAreStable`, `SealsShowSigners` and `SignaturesInTurn`. `Serial` adds that the
  tiers below the current one have answered (`TiersAnswered`), that all that has been
  given away names the agreement's verification token (`TokenFiled`), and that a seal
  of a live list covers it (`SealCovers`).

`WebhookProofs`, for every set of workers and subscriptions, with faults or without:

* `TypeCorrect`, `AttemptsAreSent` (`Spec => []AttemptsSent`) and `PostedOnce`
  (`Spec => SentOnce`). None of the checked properties is inductive. `IInv` adds that
  the lease version of a row is its attempt count plus one (`LeaseAhead`), that a
  worker about to claim remembers equal number and lease (`Fits`), that
  a worker about to POST holds a counted number not yet POSTed, and that no two such
  workers hold the same attempt (`Apart`). The claim's comparison of the lease then
  makes its number larger than all counted before. `WorkerStep` states once what a
  step of one worker owes the invariant of the others; the actions prove that.
* `StatesAreVerdicts` and `DeadLettersAreListed`, under the assumption `LoneWorker`: one
  worker, no faults, deliveries executed only when pending or due. `SInv` adds what the
  state of a row says of its last attempt and of the dead letters (`RowTells`), and that
  what the worker has read of its row is still so (`ReadTells`): a second worker would
  break the latter (section 6). The state is no verdict where the answer could not be
  filed (`unfilable`, section 6); the statement says that such a row is IN_FLIGHT.

`DraftingProofs`, for every set of handlers and tabs:

* `TypeCorrect` for all requests, and for `Ops \subseteq EditorOps` (guarded saves,
  activations, deletions; the assumption `Editing`) `NoEditLost`, `VersionsAdvance`,
  `DraftsOnly` and `HistoryTrue`. The invariant `IInv` says that a number stands for
  a text: whoever holds the agreement's current number (a tab, a save, a history
  entry, a handler about to file one) holds its current text, and nobody a greater
  number (`Current`); that a draft has major number 0 and an active agreement is 1.0
  (`StatusInv`), so that a save which has seen a draft is refused after the activation;
  and that the current number is on file or about to be (`FiledInv`). It survives
  because the agreement only ever advances (`Advance`): `CurrentKept` says so once.

`SignerOtpProofs`, for any isolates, requests and faults:

* `TypeCorrect` and `GuestsAreProved` (`Spec => []GuestProved`). A guest's signature
  rests on flags in a memory, in the row, or in the copies that requests carry;
  `Earned` says that none is set anywhere unless a mailed code was entered.
* `GuessesAreBounded` (`TriesBounded`) and `LatestWorks` (`LatestCodeWorks`), under the
  assumption `OneIsolate`. Both speak of moments when nothing is under way, and are
  inductive only with what the one request under way (`Sole`) will make of memory and
  row: every refusal of `verifySignerOtp` is counted in the row; the memory, if it has an
  entry, counts these and those of submissions, and where it has none no more are left
  than the row has; or nothing is left to guess at (`CountInv`); row and memory hold the newest code
  with no more tries than there were, or the request is about to write them (`StepInv`).
  With two isolates and a single request TLC refutes both, in ten steps and in six: a
  second memory keeps an older count, or an older code.

`AccountsProofs`, for any accounts, addresses, links, requests and failures:

* `TypeCorrect`, `AddressIsProven` and `EndedIsUntouched`. `AddressProven` needs what the rows
  and the requests say of the links they name: a row's token of a change is a link to
  its pending address (`LinksInv`), and a request that has looked a token up carries
  a link that was opened, to the address it will write (`Relies`). Links are never
  taken back, so what a request relies on stays true however others overlap.
* `OneForEach` (`OneAccountEach`) and `NewestWorks` (`NewestLinkWorks`). Two requests know
  the same row or address only if their overlap is on record (`Apart`). So an address
  that a request has found free still is when it creates the account (`AddressFree`);
  a link to be mailed is new and the request's own (`PostInv`), the one mailed last is of
  its account and kind (`LastInv`); and mailbox and row are at odds only while a request
  is between the mail of a link and the write of its token, or the reverse
  (`NewestInv`), and then about to bring them together (`CarryInv`).

`DocumentRequestsProofs`, for any requests, bodies, quotas, lease and failures:

* `TypeCorrect`, `KeyMakesOne` (`OneDocument`), `QuotasAreKept` (`QuotaKept`) and
  `TrailIsAChain` (`ChainLinear`). Each needs what is true of the requests between their
  check and their write, as long as the history variables do not except it: whoever is
  let in under the key is alone, the key is IN_PROGRESS for it, and no document exists
  under the key until it makes its own (`KeyInv`); the room that a check has found is
  still there, and of the documents stored at most the one whose creator is about to add
  its bytes is neither counted nor on record as uncounted (`QuotaInv`); the predecessor that a log has looked up is still the last
  entry (`ChainInv`), which it finds by time because entries are filed in the order of
  time (`TimeInv`).

`SessionsProofs`, for any tokens, secrets, isolates, cache time and requests:

* `TypeCorrect`, `SignedOut`, `Blocked` and `FactorIsHeld`. Each property is made
  inductive by saying the same of a request still on its way: what it carries was
  true when it read it (`OutInv`, `TimeInv`, `FactorInv`).

`MembershipProofs`, for any people, requests, operations and failures:

* `TypeCorrect`, `AdministratorRemains`, `SeatsAreKept` (for a finite set of people),
  `NobodyIsStuck` and `RevokedIsRevoked`. All rest on `Solo`: while no two requests about
  a concern (administrators, seats, joins) have overlapped, at most one is under way
  about it. So there is an administrator besides the one whose office a request is about
  to take (`AdminInv`), a seat for the account about to be made (`SeatInv`), a pending
  request for each who waits, or the review that is closing it (`JoinInv`), and the
  invitation being accepted is not revoked (`AcceptInv`). `AdminInv` also excepts a super
  admin let go as the last of the administrators (`LetGoIsNotTheLast` says what the
  guards give for the others). `HasAdmin` itself, without the exceptions, is refuted by
  `claim_last_admin`.

Every invariant and every safety property of a passing run is now a theorem, under the
hypotheses above. Only model-checked: liveness (`SentCompletes`, `ReplaySettles`), which
TLAPS cannot prove here. Two runs refute what they check: `HasAdmin`, and `LinksStable`
with two handlers. `DraftingProofs` leaves out the requests that the run checks one at a time, and
the theorems of `Signing` about a single handler say nothing of several.

## 5. Open ends

In the order of their worth: sealing again and the update of metadata in `Signing`, with
the weaker envelope that they keep (section 6); `NobodyIsStranded` across a second send,
once the submissions to the old list are at rest; `OnlyDraftsEdited` for all the requests
that the run has; API keys and the profile in `Accounts`; deletion of documents in `DocumentRequests`; custom roles and teams in
`Membership`; creation and secret rotation of subscriptions in `WebhookDelivery`.

## 6. Where the code says one thing and does another

Shown by a run:

* `claim_stable_links`: two concurrent last signers complete the agreement twice, and
  the second erases the first's seal and token with the metadata it had read; the
  links already mailed are dead, although `workflow-service.ts:63` promises "the original
  sealed artifact and stable links".
* `claim_last_admin`: two administrators who demote each other leave none, although
  `docs/plans/organisation-teams-management-implementation-plan.md:16` says that "No single
  user operation or concurrent race may violate this invariant".

Met while modelling; the runs state the properties so that these are excepted, and say
by what:

* A double submission by one signer sets the next one, who has signed meanwhile, back to
  INVITED (`workflow-service.ts:1572`): `SignatureKept` needs a single handler. Two
  concurrent sends leave two lists: so does `ImplementsEnvelope`.
* A submission overtaken between its judgement and its update of `currentStep`
  (`workflow-service.ts:1561`) sets the step back. With a double submission and a reminder
  of the tier between, three handlers leave the step below everybody who is still
  awaited: TLC has found 39 steps, after which the last signer holds a link and may use
  it, but reminders, in-app sessions and warnings, which address the current step, find
  nobody. `SomeoneCanSign` therefore asks for links, and not for the step.
* A sequential list whose lowest `routingOrder` is not 1, or whose first tier holds only
  viewers or reviewers, is accepted (`workflow-service.ts:481`) and invites nobody to
  sign: a hypothesis of `NobodyIsStranded`.
* Cancellation is meant to "Invalidate all active recipient signing tokens"
  (`workflow-service.ts:1749`), but sets only their expiry, which the submission never
  reads; a signature after a cancellation is accepted, and may complete the agreement.
* A submission that dies between its write of SIGNED and the completion cannot be
  repeated, since a signed recipient gets an early answer (`workflow-service.ts:1285`):
  `NoLostCompletion` needs handlers that run to their end.
* A webhook worker overtaken after its claim writes the state by id
  (`webhook-delivery-service.ts:179`); `docs/plans/INK-25-INK-26-implementation-plan.md:136`
  says that "stale workers cannot finalize over a newer lease". `StateIsVerdict` is checked
  with one worker.
* The answer to a POST is cut at 2048 characters (`safe-webhook-transport.ts:173`), and the
  attempt row holds 2000 of them (`schema.prisma:928`), and no zero byte. An answer in
  between makes the insert throw (`webhook-delivery-service.ts:143`) before any verdict:
  the delivery stays IN_FLIGHT, with no attempt row, retry or dead letter. The model has
  these answers (`unfilable`); `StateIsVerdict` and `ReplaySettles` say so.
* Deliveries created by a fan-out, and retries that are due, wait for a consumer that
  `docs/plans/INK-25-INK-26-implementation-plan.md` describes and the repository does not
  contain: only a replay executes what it creates. (So would the test route, but the
  delivery it makes refers to a domain event that does not exist, `webhooks.ts:430`, which
  the foreign key refuses.)
* `submitRecipientSignature` compares the one-time code too, and counts a wrong one only in
  the memory of its isolate (`workflow-service.ts:1331`). It is counted nowhere where that
  isolate has no entry, and no longer once the entry is evicted or, at the limit, dropped
  by the lock itself (1316): the row then opens the gate again. Its wrong codes are
  therefore bounded only while one entry lives, and `TriesBounded` counts them that long;
  those that `verifySignerOtp` answers it counts for good.
* Super admins are counted as administrators of their organisation
  (`organisation-service.ts:526`, 851, 927), but only `admin` and `org_admin` are guarded
  (505, 850, 926), and `deleteAccount` counts and guards these two alone
  (`auth-service.ts:1551`, 1574). Without any overlap the last administrator can therefore
  leave when it is a super admin (`register` gives that role to the platform's own address,
  `auth-service.ts:310`): `AdminRemains` excepts requests that let a super admin go as the
  last one counted.
* `updateMemberStatus` finds any account of the organisation, a removed one too
  (`organisation-service.ts:915`), and sets it active; `superAdminAssignAdmin` (1277) does so
  with any account and moves it. `deletedAt` stays set, so that such an account is
  active and still not found by a sign-in. `EndedUntouched` allows these two writes and
  no other.
* `POST /auth/logout` looks for the token in the header and in `graphsign_session` alone
  (`routes/auth.ts:318`), although `jwtAuth` also takes `?token=` and `graphsign_session_token`.
  Where it finds none it revokes nothing (`auth-service.ts:930`), and answers "Signed out
  successfully" all the same. The web's sign-out on time-out sends none
  (`SessionGuard.tsx:34`): its token works until it expires. `SignedOutStaysOut` is about
  tokens that a logout has found.
* `documents.ts:46` says that "All endpoints require authentication and active tenant
  status", but line 47 is `apiAuth`, which never asks for the status. So it is with
  webhooks, API clients, API logs, and the routes that have `jwtAuth` alone (certificates,
  CSC, administration, `organisations.ts:107` to 146): they serve a suspended
  organisation without end. `BlockedInTime` is about the others.
* A document whose `updateUserStorageUsage` fails (`agreement-service.ts:243`, 324) is stored
  and its bytes never counted; `cloneAgreement` (808) and `instantiateTemplate`
  (`template-service.ts:501`) check no quota and count no bytes. `QuotaKept` allows what is
  stored to exceed the quotas by exactly these. Nothing ever lowers `storageUsedBytes`,
  although the refusal says "Please delete existing documents to free up space"
  (`agreement-service.ts:72`).
* An isolate that remembers an older one-time code refuses the newest, which another
  isolate has sent (`workflow-service.ts:1040`): `LatestCodeWorks` is checked with one.
* The editor's "Move to active" saves without `expectedVersion` and replaces what another
  tab has saved; a guarded save that read DRAFT still writes after `submitForReview` or
  `sendForSignature` has changed the status; `createVersion` racing with saves sets the
  number back. `Serial` keeps these requests from overlapping others.
* Overlapping uploads pass the quotas together, overlapping acceptances the seats,
  overlapping registrations make two accounts, logs outside a transaction fork the
  chain, a handler slower than its lease is executed twice: the history variables of
  the modules except exactly these.

Not in a module, and so seen by no run:

* Sealing again. The seal and batch routes, a download and a verification call
  `sealAgreement` too. It reuses a stored seal, and else asks only whether the status
  is COMPLETED, although it answers otherwise that a document "can only be digitally
  sealed after all required recipients have completed signing"
  (`pades-sealing-service.ts:116`). If the sealing of a completion has failed, and a
  recipient's decline has written the recipient's row and not yet (or, after a crash,
  never) the agreement's, such a call makes a seal without that recipient. `Signing`
  seals only at completion; `SealShowsSigners` and `ImplementsEnvelope` are about that.
* `updateMetadataAndTags` (`agreement-service.ts:993`) writes the metadata back as it was
  read, or replaces it by what the client sent: verification token and sealed
  document go with it, and a document sealed again gets another token, although
  `workflow-service.ts:1217` calls a document one that "cannot be regenerated without
  invalidating its verification".

## 7. Not modelled

Cryptography, certificates and PDF processing, the Java service, search, templates and
deployment: no shared state, or none that a state model says anything about. The web
pages, by far the largest part of the code, act on the system through the API; only the
editor, whose stale copies matter, is in `Drafting`. Rate limits, feature flags,
maintenance and platform configuration are single rows, read and then updated by
administrators, on which no property of another component depends. Permission checks
and input validation are left out where a refusal changes nothing. What is missing of
a modelled component is said in `PROJECT.json`, and in sections 5 and 6 above.
