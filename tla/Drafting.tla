------------------------------ MODULE Drafting ------------------------------
(***************************************************************************)
(* The text of ONE agreement while it is written: AgreementService         *)
(* .saveDraft, activateAgreement, createVersion and deleteAgreement, the   *)
(* public API's PUT and PATCH, the web editor that calls them, and the     *)
(* status changes of WorkflowService that start and end the editing.       *)
(*                                                                         *)
(* Handlers share the agreement row and the version history; no method     *)
(* opens a transaction, so one action is one database statement.  A        *)
(* handler that dies, or whose connection fails, is one that never moves   *)
(* again: Spec has no fairness.                                            *)
(*                                                                         *)
(* Abstracted: title, description, tags and markdown are one text, every   *)
(* edit a new number; roles and author checks; tags and metadata written   *)
(* by the API after the save; audit rows; quota.  SENT stands for every    *)
(* status of the signing that cancelAgreement accepts.                     *)
(***************************************************************************)
EXTENDS Naturals

CONSTANTS
    Handlers,   \* request handlers that may be in flight at once
    Tabs,       \* browser tabs with the editor on this agreement
    Ops,        \* requests that may arrive
    Serial,     \* TRUE: requests other than saves, activations and deletions
                \* are not overlapped by any other
    MaxReqs     \* bound: requests that change text or version

ASSUME BoundAssumption == MaxReqs \in Nat
ASSUME SerialAssumption == Serial \in BOOLEAN

VARIABLES
    agr,        \* the agreement row
    history,    \* the agreementVersion rows
    tab,        \* what each editor shows: a version number and a text
    reqs,       \* requests that change text or version so far
    pc,         \* where each handler is
    loc         \* what each handler knows from its request and its reads

vars == <<agr, history, tab, reqs, pc, loc>>

----------------------------------------------------------------------------
(* Versions "major.minor" *)

Version == [major : Nat, minor : Nat]

IncrementMinorVersion(v) == [v EXCEPT !.minor = @ + 1]

\* Fault: activation always publishes 1.0.
BumpToFirst(v) == [major |-> 1, minor |-> 0]

BumpToMajorVersion(v) == [major |-> v.major + 1, minor |-> 0]

Before(v, w) ==
    \/ v.major < w.major
    \/ v.major = w.major /\ v.minor < w.minor

AtMost(v, w) == v = w \/ Before(v, w)

----------------------------------------------------------------------------
(* Rows, tabs and handlers *)

Statuses == {"DRAFT", "IN_REVIEW", "APPROVED", "REJECTED", "ACTIVE", "SENT"}

Text == Nat \ {0}

AgreementRow == [status : Statuses, ver : Version, text : Text, deleted : BOOLEAN]

Snapshots == [ver : Version, text : Text]

\* The editor takes the version from the list and then fetches the text.
TabState == [stage : {"closed", "listed", "open"}, ver : Version, text : Text]

PCs == {"idle", "save_read", "save_write", "save_snapshot", "activate_read",
        "activate_write", "activate_snapshot", "version_snapshot",
        "version_write", "status_write", "delete_write"}

\* tabs: the tab that waits for the answer, if any; text: the text to write, 0
\* for what saveDraft will read; base: the text the edit started from, 0 if
\* the caller saw none; guarded: the request carries expectedVersion, in ver;
\* activate: activation follows; to: the status to write; alone: no other
\* request overlaps this one.
Locals == [tabs : SUBSET Tabs, ver : Version, text : Nat, base : Nat,
           guarded : BOOLEAN, activate : BOOLEAN, to : Statuses, alone : BOOLEAN]

FirstVersion == [major |-> 0, minor |-> 1]

NoLocals == [tabs |-> {}, ver |-> FirstVersion, text |-> 0, base |-> 0,
             guarded |-> FALSE, activate |-> FALSE, to |-> "DRAFT",
             alone |-> FALSE]

Move(h, label, l) ==
    /\ pc' = [pc EXCEPT ![h] = label]
    /\ loc' = [loc EXCEPT ![h] = l]

Return(h) == Move(h, "idle", NoLocals)

\* A request reaches an idle handler.
Begin(h, op, label, l) ==
    /\ op \in Ops /\ pc[h] = "idle"
    /\ \A g \in Handlers : pc[g] # "idle" => ~l.alone /\ ~loc[g].alone
    /\ Move(h, label, l)

\* The same for a request that changes text or version.
BeginEdit(h, op, label, l) ==
    /\ reqs < MaxReqs
    /\ reqs' = reqs + 1
    /\ Begin(h, op, label, l)

\* The text of an edit that begins now; the first draft is text 1.
NewText == reqs + 2

Waiting(t) == \E h \in Handlers : t \in loc[h].tabs

Init ==
    /\ agr = [status |-> "DRAFT", ver |-> FirstVersion, text |-> 1, deleted |-> FALSE]
    /\ history = {[ver |-> FirstVersion, text |-> 1]}
    /\ tab = [t \in Tabs |-> [stage |-> "closed", ver |-> FirstVersion, text |-> 1]]
    /\ reqs = 0
    /\ pc = [h \in Handlers |-> "idle"]
    /\ loc = [h \in Handlers |-> NoLocals]

----------------------------------------------------------------------------
(* The editor.  A tab that waits for an answer is not reused: reloading it *)
(* then is opening another one.                                            *)

OpenTab(t) ==
    /\ ~agr.deleted /\ ~Waiting(t)
    /\ tab' = [tab EXCEPT ![t].stage = "listed", ![t].ver = agr.ver]
    /\ UNCHANGED <<agr, history, reqs, pc, loc>>

LoadTab(t) ==
    /\ tab[t].stage = "listed" /\ ~agr.deleted
    /\ tab' = [tab EXCEPT ![t].stage = "open", ![t].text = agr.text]
    /\ UNCHANGED <<agr, history, reqs, pc, loc>>

SaveTab(h, t) ==
    /\ tab[t].stage = "open" /\ ~Waiting(t)
    /\ BeginEdit(h, "saveDraft", "save_read",
                 [NoLocals EXCEPT !.tabs = {t}, !.ver = tab[t].ver, !.text = NewText,
                                  !.base = tab[t].text, !.guarded = TRUE])
    /\ UNCHANGED <<agr, history, tab>>

\* "Move to active" saves first, without expectedVersion, edited or not.
MoveToActive(h, t) ==
    /\ tab[t].stage = "open" /\ ~Waiting(t)
    /\ \E text \in {tab[t].text, NewText} :
         BeginEdit(h, "moveToActive", "save_read",
                   [NoLocals EXCEPT !.tabs = {t}, !.text = text, !.base = tab[t].text,
                                    !.activate = TRUE, !.alone = Serial])
    /\ UNCHANGED <<agr, history, tab>>

----------------------------------------------------------------------------
(* saveDraft, and the API routes that call it after a read of their own *)

\* PUT writes its content, or the text it reads here; PATCH sends no text.
ApiSave(h) ==
    /\ ~agr.deleted /\ agr.status = "DRAFT"
    /\ \E text \in {NewText, agr.text, 0} :
         BeginEdit(h, "apiSave", "save_read", [NoLocals EXCEPT !.text = text, !.alone = Serial])
    /\ UNCHANGED <<agr, history, tab>>

\* Fault: the status is not looked at.
SaveRefusedIfStale(h) == agr.deleted \/ (loc[h].guarded /\ loc[h].ver # agr.ver)

SaveRefused(h) ==
    \/ agr.deleted
    \/ agr.status # "DRAFT"
    \/ loc[h].guarded /\ loc[h].ver # agr.ver

SaveRead(h) ==
    /\ pc[h] = "save_read"
    /\ IF SaveRefused(h) THEN Return(h)
       ELSE Move(h, "save_write",
                 [loc[h] EXCEPT !.ver = agr.ver, !.text = IF @ = 0 THEN agr.text ELSE @])
    /\ UNCHANGED <<agr, history, tab, reqs>>

\* Fault: the update goes by id alone.
SaveWriteUnguarded(h) ==
    /\ pc[h] = "save_write"
    /\ LET next == IncrementMinorVersion(loc[h].ver)
       IN  /\ agr' = [agr EXCEPT !.ver = next, !.text = loc[h].text]
           /\ Move(h, "save_snapshot", [loc[h] EXCEPT !.ver = next])
    /\ UNCHANGED <<history, tab, reqs>>

\* The update of a guarded save also names the version, but never the status.
SaveWrite(h) ==
    /\ pc[h] = "save_write"
    /\ IF loc[h].guarded /\ agr.ver # loc[h].ver
       THEN Return(h) /\ UNCHANGED agr
       ELSE LET next == IncrementMinorVersion(loc[h].ver)
            IN  /\ agr' = [agr EXCEPT !.ver = next, !.text = loc[h].text]
                /\ Move(h, "save_snapshot", [loc[h] EXCEPT !.ver = next])
    /\ UNCHANGED <<history, tab, reqs>>

\* (agreementId, version) is unique: a second snapshot throws.
Recorded(v) == \E e \in history : e.ver = v

Record(h) == history' = history \cup {[ver |-> loc[h].ver, text |-> loc[h].text]}

\* The answer puts the new version into the tab; "Move to active" goes on.
SaveSnapshot(h) ==
    /\ pc[h] = "save_snapshot"
    /\ IF Recorded(loc[h].ver) THEN Return(h) /\ UNCHANGED <<history, tab>>
       ELSE /\ Record(h)
            /\ IF loc[h].activate
               THEN Move(h, "activate_read", loc[h]) /\ UNCHANGED tab
               ELSE /\ Return(h)
                    /\ tab' = [t \in Tabs |->
                                 IF t \in loc[h].tabs
                                 THEN [stage |-> "open", ver |-> loc[h].ver, text |-> loc[h].text]
                                 ELSE tab[t]]
    /\ UNCHANGED <<agr, reqs>>

----------------------------------------------------------------------------
(* activateAgreement *)

Activate(h) ==
    /\ BeginEdit(h, "activateAgreement", "activate_read", NoLocals)
    /\ UNCHANGED <<agr, history, tab>>

\* A request that succeeded closes the editor that sent it.
CloseTabs(h) == tab' = [t \in Tabs |-> IF t \in loc[h].tabs
                                       THEN [tab[t] EXCEPT !.stage = "closed"]
                                       ELSE tab[t]]

ActivateRead(h) ==
    /\ pc[h] = "activate_read"
    /\ \/ agr.deleted /\ Return(h) /\ UNCHANGED tab
       \/ ~agr.deleted /\ agr.status = "ACTIVE" /\ Return(h) /\ CloseTabs(h)
       \/ /\ ~agr.deleted /\ agr.status # "ACTIVE"
          /\ Move(h, "activate_write", [loc[h] EXCEPT !.ver = agr.ver, !.text = agr.text])
          /\ UNCHANGED tab
    /\ UNCHANGED <<agr, history, reqs>>

\* Fault: the snapshot holds the text of the read.
ActivateWriteStale(h) ==
    /\ pc[h] = "activate_write"
    /\ LET next == BumpToMajorVersion(loc[h].ver)
       IN  /\ agr' = [agr EXCEPT !.status = "ACTIVE", !.ver = next]
           /\ Move(h, "activate_snapshot", [loc[h] EXCEPT !.ver = next])
    /\ UNCHANGED <<history, tab, reqs>>

ActivateWrite(h) ==
    /\ pc[h] = "activate_write"
    /\ LET next == BumpToMajorVersion(loc[h].ver)
       IN  /\ agr' = [agr EXCEPT !.status = "ACTIVE", !.ver = next]
           /\ Move(h, "activate_snapshot", [loc[h] EXCEPT !.ver = next, !.text = agr.text])
    /\ UNCHANGED <<history, tab, reqs>>

ActivateSnapshot(h) ==
    /\ pc[h] = "activate_snapshot"
    /\ Return(h)
    /\ IF Recorded(loc[h].ver) THEN UNCHANGED <<history, tab>>
       ELSE Record(h) /\ CloseTabs(h)
    /\ UNCHANGED <<agr, reqs>>

----------------------------------------------------------------------------
(* createVersion: the snapshot first, then the version by id *)

CreateVersion(h) ==
    /\ ~agr.deleted
    /\ BeginEdit(h, "createVersion", "version_snapshot",
                 [NoLocals EXCEPT !.ver = IncrementMinorVersion(agr.ver), !.text = agr.text,
                            !.alone = Serial])
    /\ UNCHANGED <<agr, history, tab>>

VersionSnapshot(h) ==
    /\ pc[h] = "version_snapshot"
    /\ IF Recorded(loc[h].ver) THEN Return(h) /\ UNCHANGED history
       ELSE Record(h) /\ Move(h, "version_write", loc[h])
    /\ UNCHANGED <<agr, tab, reqs>>

VersionWrite(h) ==
    /\ pc[h] = "version_write"
    /\ agr' = [agr EXCEPT !.ver = loc[h].ver]
    /\ Return(h)
    /\ UNCHANGED <<history, tab, reqs>>

----------------------------------------------------------------------------
(* Status changes that leave text and version alone, and deletion *)

\* Fault: a cancelled agreement gets a status of its own.
CancelledMoves == {[op |-> "cancelAgreement", from |-> Statuses, to |-> "CANCELLED"]}

StatusMoves ==
    {[op |-> "submitForReview", from |-> {"DRAFT", "REJECTED"}, to |-> "IN_REVIEW"],
     [op |-> "retractReview", from |-> {"IN_REVIEW"}, to |-> "DRAFT"],
     [op |-> "approveAgreement", from |-> {"IN_REVIEW"}, to |-> "APPROVED"],
     [op |-> "rejectAgreement", from |-> {"IN_REVIEW"}, to |-> "REJECTED"],
     [op |-> "sendForSignature", from |-> {"DRAFT", "APPROVED", "REJECTED", "ACTIVE"},
      to |-> "SENT"],
     [op |-> "cancelAgreement", from |-> Statuses, to |-> "DRAFT"]}

StatusRead(h) ==
    /\ ~agr.deleted
    /\ \E m \in StatusMoves :
         /\ agr.status \in m.from
         /\ Begin(h, m.op, "status_write", [NoLocals EXCEPT !.to = m.to, !.alone = Serial])
    /\ UNCHANGED <<agr, history, tab, reqs>>

StatusWrite(h) ==
    /\ pc[h] = "status_write"
    /\ agr' = [agr EXCEPT !.status = loc[h].to]
    /\ Return(h)
    /\ UNCHANGED <<history, tab, reqs>>

DeleteRead(h) ==
    /\ ~agr.deleted
    /\ Begin(h, "deleteAgreement", "delete_write", NoLocals)
    /\ UNCHANGED <<agr, history, tab, reqs>>

DeleteWrite(h) ==
    /\ pc[h] = "delete_write"
    /\ agr' = [agr EXCEPT !.deleted = TRUE]
    /\ Return(h)
    /\ UNCHANGED <<history, tab, reqs>>

----------------------------------------------------------------------------

Handle(h) ==
    \/ ApiSave(h) \/ SaveRead(h) \/ SaveWrite(h) \/ SaveSnapshot(h)
    \/ Activate(h) \/ ActivateRead(h) \/ ActivateWrite(h) \/ ActivateSnapshot(h)
    \/ CreateVersion(h) \/ VersionSnapshot(h) \/ VersionWrite(h)
    \/ StatusRead(h) \/ StatusWrite(h) \/ DeleteRead(h) \/ DeleteWrite(h)

Edit(t) ==
    \/ OpenTab(t) \/ LoadTab(t)
    \/ \E h \in Handlers : SaveTab(h, t) \/ MoveToActive(h, t)

Next == (\E h \in Handlers : Handle(h)) \/ (\E t \in Tabs : Edit(t))

Spec == Init /\ [][Next]_vars

----------------------------------------------------------------------------
(* Properties *)

\* Rows, tabs and locals have the types of the schema and of the code.
TypeOK ==
    /\ agr \in AgreementRow
    /\ history \subseteq Snapshots
    /\ tab \in [Tabs -> TabState]
    /\ reqs \in Nat
    /\ pc \in [Handlers -> PCs]
    /\ loc \in [Handlers -> Locals]

Quiet == \A h \in Handlers : pc[h] = "idle"

\* The version history tells the truth about the current version: its entry
\* never shows another text than the agreement has, and when no request is
\* under way there is one (saveDraft, activateAgreement and createVersion
\* write row and history in separate statements, two of them row first, the
\* third history first, against a unique index).
HistoryShowsDraft ==
    /\ \A e \in history : e.ver = agr.ver => e.text = agr.text
    /\ Quiet => Recorded(agr.ver)

\* Version numbers never go back, and a changed text has a new one: that is
\* what makes saveDraft's comparison of version numbers a comparison of texts.
VersionsGrow ==
    [][ /\ AtMost(agr.ver, agr'.ver)
        /\ agr'.text # agr.text => agr'.ver # agr.ver ]_vars

\* "This draft was changed in another tab": a save that carries the version it
\* started from replaces only the text its tab has shown.
SavesSeen ==
    [][ \A h \in Handlers :
          pc[h] = "save_write" /\ pc'[h] = "save_snapshot" /\ loc[h].guarded
            => loc[h].base = agr.text ]_vars

\* "Only DRAFT agreements can be edited": the text does not change in any
\* other status, however long ago saveDraft has read the status.
OnlyDraftsEdited == [][ agr'.text # agr.text => agr.status = "DRAFT" ]_vars
=============================================================================
