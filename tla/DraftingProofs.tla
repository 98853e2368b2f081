--------------------------- MODULE DraftingProofs ---------------------------
(***************************************************************************)
(* Theorems about Drafting, for every set of handlers and tabs.            *)
(*                                                                         *)
(*   TypeCorrect       rows, tabs and locals keep their types              *)
(*                                                                         *)
(* and, while the only requests are guarded saves of the editor,           *)
(* activations and deletions,                                              *)
(*                                                                         *)
(*   NoEditLost        a save replaces only the text its tab started from  *)
(*   VersionsAdvance   versions never go back, a new text has a new one    *)
(*   DraftsOnly        the text changes in status DRAFT only               *)
(*   HistoryTrue       the version history agrees with the agreement       *)
(***************************************************************************)
EXTENDS Drafting, TLAPS

----------------------------------------------------------------------------
(* Types                                                                    *)

\* Past its read, a handler that will write or record a text has one.
Writers == {"save_write", "save_snapshot", "activate_snapshot", "version_snapshot"}

Known == \A h \in Handlers : pc[h] \in Writers => loc[h].text \in Text

Places == pc \in [Handlers -> PCs] /\ loc \in [Handlers -> Locals] /\ Known

TInv ==
    /\ agr \in AgreementRow
    /\ history \subseteq Snapshots
    /\ tab \in [Tabs -> TabState]
    /\ reqs \in Nat
    /\ Places

LEMMA NoLocalsTyped == NoLocals \in Locals
BY DEF NoLocals, Locals, FirstVersion, Version, Statuses

LEMMA VersionsTyped ==
    ASSUME NEW v \in Version
    PROVE  IncrementMinorVersion(v) \in Version /\ BumpToMajorVersion(v) \in Version
BY DEF IncrementMinorVersion, BumpToMajorVersion, Version

LEMMA InitTyped == Init => TInv
<1> SUFFICES ASSUME Init PROVE TInv
  OBVIOUS
<1>1. FirstVersion \in Version
  BY DEF FirstVersion, Version
<1>2. agr \in AgreementRow /\ history \subseteq Snapshots /\ tab \in [Tabs -> TabState]
  BY <1>1 DEF Init, AgreementRow, Snapshots, TabState, Statuses, Text
<1> QED  BY <1>2, NoLocalsTyped DEF Init, TInv, Places, Known, PCs, Writers

\* Moving one handler keeps pc and loc typed, and every text known.
LEMMA MovePlaces ==
    ASSUME Places, NEW h \in Handlers, NEW p \in PCs, NEW l \in Locals, Move(h, p, l),
           p \in Writers => l.text \in Text
    PROVE  Places'
<1>1. pc' \in [Handlers -> PCs] /\ loc' \in [Handlers -> Locals]
  BY DEF Move, Places
<1>2. ASSUME NEW g \in Handlers, pc'[g] \in Writers PROVE loc'[g].text \in Text
  <2>1. CASE g = h
    BY <1>2, <2>1 DEF Move, Places
  <2>2. CASE g # h
    BY <1>2, <2>2 DEF Move, Places, Known
  <2> QED  BY <2>1, <2>2
<1> QED  BY <1>1, <1>2 DEF Places, Known

LEMMA ReturnPlaces == ASSUME Places, NEW h \in Handlers, Return(h) PROVE Places'
<1>1. "idle" \in PCs /\ "idle" \notin Writers
  BY DEF PCs, Writers
<1> QED  BY <1>1, NoLocalsTyped, MovePlaces DEF Return

\* What one handler knows is typed.
LEMMA LocalTyped ==
    ASSUME TInv, NEW h \in Handlers
    PROVE  /\ pc[h] \in PCs /\ loc[h] \in Locals
           /\ loc[h].ver \in Version /\ loc[h].text \in Nat
           /\ agr.ver \in Version /\ agr.text \in Text /\ agr.text \in Nat
           /\ pc[h] \in Writers => loc[h].text \in Text
BY DEF TInv, Places, Known, Locals, AgreementRow, Text

LEMMA EditTyped ==
    ASSUME TInv, NEW t \in Tabs, Edit(t)
    PROVE  TInv'
<1> USE DEF TInv
<1>1. CASE OpenTab(t)
  <2>1. agr.ver \in Version
    BY DEF AgreementRow
  <2>2. tab' \in [Tabs -> TabState]
    BY <1>1, <2>1 DEF OpenTab, TabState
  <2> QED  BY <1>1, <2>2 DEF OpenTab, Places, Known
<1>2. CASE LoadTab(t)
  <2>1. agr.text \in Text
    BY DEF AgreementRow
  <2>2. tab' \in [Tabs -> TabState]
    BY <1>2, <2>1 DEF LoadTab, TabState
  <2> QED  BY <1>2, <2>2 DEF LoadTab, Places, Known
<1>3. ASSUME NEW h \in Handlers, SaveTab(h, t) PROVE TInv'
  <2> DEFINE l == [NoLocals EXCEPT !.tabs = {t}, !.ver = tab[t].ver, !.text = NewText,
                                   !.base = tab[t].text, !.guarded = TRUE]
  <2>1. l \in Locals
    <3>1. tab[t].ver \in Version /\ tab[t].text \in Nat /\ NewText \in Nat
      BY DEF TabState, Text, NewText
    <3> QED  BY <3>1, NoLocalsTyped, SerialAssumption DEF NoLocals, Locals
  <2>2. Places'
    BY <1>3, <2>1, MovePlaces DEF SaveTab, BeginEdit, Begin, PCs, Writers
  <2> QED  BY <1>3, <2>2 DEF SaveTab, BeginEdit
<1>4. ASSUME NEW h \in Handlers, MoveToActive(h, t) PROVE TInv'
  <2>1. PICK text \in {tab[t].text, NewText} :
          BeginEdit(h, "moveToActive", "save_read",
                    [NoLocals EXCEPT !.tabs = {t}, !.text = text,
                                     !.base = tab[t].text, !.activate = TRUE,
                                     !.alone = Serial])
    BY <1>4 DEF MoveToActive
  <2>2. [NoLocals EXCEPT !.tabs = {t}, !.text = text,
                         !.base = tab[t].text, !.activate = TRUE,
                         !.alone = Serial] \in Locals
    <3>1. tab[t].text \in Nat /\ text \in Nat
      BY DEF TabState, Text, NewText
    <3> QED  BY <3>1, NoLocalsTyped, SerialAssumption DEF NoLocals, Locals
  <2>3. Places'
    BY <2>1, <2>2, MovePlaces DEF BeginEdit, Begin, PCs, Writers
  <2> QED  BY <1>4, <2>1, <2>3 DEF MoveToActive, BeginEdit
<1> HIDE DEF TInv
<1> QED  BY <1>1, <1>2, <1>3, <1>4 DEF Edit

LEMMA SaveTyped ==
    ASSUME TInv, NEW h \in Handlers,
           ApiSave(h) \/ SaveRead(h) \/ SaveWrite(h) \/ SaveSnapshot(h)
    PROVE  TInv'
<1>0. /\ loc[h] \in Locals /\ loc[h].ver \in Version /\ loc[h].text \in Nat
      /\ agr.ver \in Version /\ agr.text \in Text /\ agr.text \in Nat
      /\ pc[h] \in Writers => loc[h].text \in Text
  BY LocalTyped
<1>1. CASE ApiSave(h)
  <2>1. PICK text \in {NewText, agr.text, 0} :
          BeginEdit(h, "apiSave", "save_read", [NoLocals EXCEPT !.text = text, !.alone = Serial])
    BY <1>1 DEF ApiSave
  <2>2. [NoLocals EXCEPT !.text = text, !.alone = Serial] \in Locals
    <3>1. text \in Nat
      BY <1>0 DEF NewText, TInv
    <3> QED  BY <3>1, NoLocalsTyped, SerialAssumption DEF NoLocals, Locals
  <2>3. Places'
    BY <2>1, <2>2, MovePlaces DEF BeginEdit, Begin, PCs, Writers, TInv
  <2> QED  BY <1>1, <2>1, <2>3 DEF ApiSave, BeginEdit, TInv
<1>2. CASE SaveRead(h)
  <2> DEFINE text == IF loc[h].text = 0 THEN agr.text ELSE loc[h].text
             l == [loc[h] EXCEPT !.ver = agr.ver, !.text = text]
  <2>1. text \in Text /\ text \in Nat
    BY <1>0 DEF Text
  <2>2. l \in Locals /\ l.text = text
    BY <1>0, <2>1 DEF Locals
  <2>3. Return(h) \/ Move(h, "save_write", l)
    BY <1>2 DEF SaveRead
  <2>4. Places'
    BY <2>1, <2>2, <2>3, MovePlaces, ReturnPlaces DEF PCs, TInv
  <2> QED  BY <1>2, <2>4 DEF SaveRead, TInv
<1>3. CASE SaveWrite(h)
  <2> DEFINE next == IncrementMinorVersion(loc[h].ver)
             l == [loc[h] EXCEPT !.ver = next]
  <2>1. next \in Version
    BY <1>0, VersionsTyped
  <2>2. l \in Locals /\ l.text \in Text
    BY <1>0, <1>3, <2>1 DEF Locals, SaveWrite, Writers
  <2>3. CASE Return(h) /\ UNCHANGED agr
    BY <1>3, <2>3, ReturnPlaces DEF SaveWrite, TInv
  <2>4. CASE /\ agr' = [agr EXCEPT !.ver = next, !.text = loc[h].text]
             /\ Move(h, "save_snapshot", l)
    <3>1. agr' \in AgreementRow
      BY <1>0, <1>3, <2>1, <2>4 DEF TInv, AgreementRow, SaveWrite, Writers
    <3>2. Places'
      BY <2>2, <2>4, MovePlaces DEF PCs, TInv
    <3> QED  BY <1>3, <3>1, <3>2 DEF SaveWrite, TInv
  <2> QED  BY <1>3, <2>3, <2>4 DEF SaveWrite
<1>4. CASE SaveSnapshot(h)
  <2>1. history' = history \/ Record(h)
    BY <1>4 DEF SaveSnapshot
  <2>2. history' \subseteq Snapshots
    BY <1>0, <1>4, <2>1 DEF Record, Snapshots, TInv, SaveSnapshot, Writers
  <2>3. Return(h) \/ Move(h, "activate_read", loc[h])
    BY <1>4 DEF SaveSnapshot
  <2>4. Places'
    BY <1>0, <2>3, MovePlaces, ReturnPlaces DEF PCs, Writers, TInv
  <2>5. tab' \in [Tabs -> TabState]
    BY <1>0, <1>4 DEF SaveSnapshot, TInv, TabState, Writers
  <2> QED  BY <1>4, <2>2, <2>4, <2>5 DEF SaveSnapshot, TInv
<1> QED  BY <1>1, <1>2, <1>3, <1>4

LEMMA ActivateTyped ==
    ASSUME TInv, NEW h \in Handlers,
           Activate(h) \/ ActivateRead(h) \/ ActivateWrite(h) \/ ActivateSnapshot(h)
    PROVE  TInv'
<1>0. /\ loc[h] \in Locals /\ loc[h].ver \in Version
      /\ agr.ver \in Version /\ agr.text \in Text /\ agr.text \in Nat
      /\ pc[h] \in Writers => loc[h].text \in Text
  BY LocalTyped
<1>1. CASE Activate(h)
  <2>1. Places'
    BY <1>1, NoLocalsTyped, MovePlaces DEF Activate, BeginEdit, Begin, PCs, Writers, TInv
  <2> QED  BY <1>1, <2>1 DEF Activate, BeginEdit, TInv
<1>2. CloseTabs(h) => tab' \in [Tabs -> TabState]
  BY DEF CloseTabs, TInv, TabState
<1>3. CASE ActivateRead(h)
  <2> DEFINE l == [loc[h] EXCEPT !.ver = agr.ver, !.text = agr.text]
  <2>1. l \in Locals
    BY <1>0 DEF Locals
  <2>2. Return(h) \/ Move(h, "activate_write", l)
    BY <1>3 DEF ActivateRead
  <2>3. Places'
    BY <2>1, <2>2, MovePlaces, ReturnPlaces DEF PCs, Writers, TInv
  <2>4. tab' \in [Tabs -> TabState]
    BY <1>2, <1>3 DEF ActivateRead, TInv
  <2> QED  BY <1>3, <2>3, <2>4 DEF ActivateRead, TInv
<1>4. CASE ActivateWrite(h)
  <2> DEFINE next == BumpToMajorVersion(loc[h].ver)
             l == [loc[h] EXCEPT !.ver = next, !.text = agr.text]
  <2>1. next \in Version
    BY <1>0, VersionsTyped
  <2>2. l \in Locals /\ l.text \in Text
    BY <1>0, <2>1 DEF Locals
  <2>3. Move(h, "activate_snapshot", l) /\ agr' = [agr EXCEPT !.status = "ACTIVE", !.ver = next]
    BY <1>4 DEF ActivateWrite
  <2>4. Places'
    BY <2>2, <2>3, MovePlaces DEF PCs, TInv
  <2>5. agr' \in AgreementRow
    BY <2>1, <2>3 DEF TInv, AgreementRow, Statuses
  <2> QED  BY <1>4, <2>4, <2>5 DEF ActivateWrite, TInv
<1>5. CASE ActivateSnapshot(h)
  <2>1. history' = history \/ Record(h)
    BY <1>5 DEF ActivateSnapshot
  <2>2. history' \subseteq Snapshots
    BY <1>0, <1>5, <2>1 DEF Record, Snapshots, TInv, ActivateSnapshot, Writers
  <2>3. Places'
    BY <1>5, ReturnPlaces DEF ActivateSnapshot, TInv
  <2>4. tab' \in [Tabs -> TabState]
    BY <1>2, <1>5 DEF ActivateSnapshot, TInv
  <2> QED  BY <1>5, <2>2, <2>3, <2>4 DEF ActivateSnapshot, TInv
<1> QED  BY <1>1, <1>3, <1>4, <1>5

LEMMA VersionTyped ==
    ASSUME TInv, NEW h \in Handlers,
           CreateVersion(h) \/ VersionSnapshot(h) \/ VersionWrite(h)
    PROVE  TInv'
<1>0. /\ loc[h] \in Locals /\ loc[h].ver \in Version
      /\ agr.ver \in Version /\ agr.text \in Text /\ agr.text \in Nat
      /\ pc[h] \in Writers => loc[h].text \in Text
  BY LocalTyped
<1>1. CASE CreateVersion(h)
  <2> DEFINE l == [NoLocals EXCEPT !.ver = IncrementMinorVersion(agr.ver), !.text = agr.text,
                             !.alone = Serial]
  <2>1. l \in Locals /\ l.text \in Text
    BY <1>0, VersionsTyped, NoLocalsTyped, SerialAssumption DEF Locals, NoLocals
  <2>2. Places'
    BY <1>1, <2>1, MovePlaces DEF CreateVersion, BeginEdit, Begin, PCs, TInv
  <2> QED  BY <1>1, <2>2 DEF CreateVersion, BeginEdit, TInv
<1>2. CASE VersionSnapshot(h)
  <2>1. history' = history \/ Record(h)
    BY <1>2 DEF VersionSnapshot
  <2>2. history' \subseteq Snapshots
    BY <1>0, <1>2, <2>1 DEF Record, Snapshots, TInv, VersionSnapshot, Writers
  <2>3. Return(h) \/ Move(h, "version_write", loc[h])
    BY <1>2 DEF VersionSnapshot
  <2>4. Places'
    BY <1>0, <2>3, MovePlaces, ReturnPlaces DEF PCs, Writers, TInv
  <2> QED  BY <1>2, <2>2, <2>4 DEF VersionSnapshot, TInv
<1>3. CASE VersionWrite(h)
  <2>1. Places'
    BY <1>3, ReturnPlaces DEF VersionWrite, TInv
  <2>2. agr' \in AgreementRow
    BY <1>0, <1>3 DEF VersionWrite, TInv, AgreementRow
  <2> QED  BY <1>3, <2>1, <2>2 DEF VersionWrite, TInv
<1> QED  BY <1>1, <1>2, <1>3

LEMMA StatusTyped ==
    ASSUME TInv, NEW h \in Handlers,
           StatusRead(h) \/ StatusWrite(h) \/ DeleteRead(h) \/ DeleteWrite(h)
    PROVE  TInv'
<1>0. loc[h] \in Locals
  BY LocalTyped
<1>1. CASE StatusRead(h)
  <2>1. PICK m \in StatusMoves : Begin(h, m.op, "status_write", [NoLocals EXCEPT !.to = m.to, !.alone = Serial])
    BY <1>1 DEF StatusRead
  <2>2. m.to \in Statuses
    BY DEF StatusMoves, Statuses
  <2>3. [NoLocals EXCEPT !.to = m.to, !.alone = Serial] \in Locals
    BY <2>2, NoLocalsTyped, SerialAssumption DEF NoLocals, Locals
  <2>4. Places'
    BY <2>1, <2>3, MovePlaces DEF Begin, PCs, Writers, TInv
  <2> QED  BY <1>1, <2>4 DEF StatusRead, TInv
<1>2. CASE StatusWrite(h)
  <2>1. agr' \in AgreementRow
    BY <1>0, <1>2 DEF StatusWrite, TInv, AgreementRow, Locals
  <2> QED  BY <1>2, <2>1, ReturnPlaces DEF StatusWrite, TInv
<1>3. CASE DeleteRead(h)
  <2>1. Places'
    BY <1>3, NoLocalsTyped, MovePlaces DEF DeleteRead, Begin, PCs, Writers, TInv
  <2> QED  BY <1>3, <2>1 DEF DeleteRead, TInv
<1>4. CASE DeleteWrite(h)
  <2>1. agr' \in AgreementRow
    BY <1>4 DEF DeleteWrite, TInv, AgreementRow
  <2> QED  BY <1>4, <2>1, ReturnPlaces DEF DeleteWrite, TInv
<1> QED  BY <1>1, <1>2, <1>3, <1>4

LEMMA StepTyped == TInv /\ [Next]_vars => TInv'
<1> SUFFICES ASSUME TInv, [Next]_vars PROVE TInv'
  OBVIOUS
<1>1. ASSUME NEW h \in Handlers, Handle(h) PROVE TInv'
  BY <1>1, SaveTyped, ActivateTyped, VersionTyped, StatusTyped DEF Handle
<1>2. ASSUME NEW t \in Tabs, Edit(t) PROVE TInv'
  BY <1>2, EditTyped
<1>3. CASE UNCHANGED vars
  BY <1>3 DEF vars, TInv, Places, Known
<1> QED  BY <1>1, <1>2, <1>3 DEF Next

LEMMA AlwaysTyped == Spec => []TInv
BY InitTyped, StepTyped, PTL DEF Spec

\* Whatever is requested, in whatever order, rows, tabs and locals keep their
\* types: the writes of saveDraft, activateAgreement and createVersion never
\* store a text or a version that no read or request has provided.
THEOREM TypeCorrect == Spec => []TypeOK
<1>1. TInv => TypeOK
  BY DEF TInv, Places, TypeOK
<1> QED  BY <1>1, AlwaysTyped, PTL

----------------------------------------------------------------------------
(* The editor alone.  Version numbers stand for texts: whoever holds the    *)
(* current number holds the current text.                                   *)

EditorOps == {"saveDraft", "activateAgreement", "deleteAgreement"}

\* Number v is not ahead of the agreement, and means text x if it is current.
Current(v, x) == AtMost(v, agr.ver) /\ (v = agr.ver => x = agr.text)

\* Nothing but saves, activations and deletions is under way; a save holds the
\* number its tab started from, a snapshot the number it will be filed under.
Fits(p, l) ==
    /\ p \in {"idle", "save_read", "save_write", "save_snapshot", "activate_read",
              "activate_write", "activate_snapshot", "delete_write"}
    /\ ~l.activate
    /\ p \in {"save_read", "save_write"} => l.guarded /\ Current(l.ver, l.base)
    /\ p = "save_read" => l.text \in Text
    /\ p \in {"save_write", "activate_write"} => l.ver.major = 0
    /\ p \in {"save_snapshot", "activate_snapshot"} => Current(l.ver, l.text)

Published == [major |-> 1, minor |-> 0]

StatusInv == \/ agr.status = "DRAFT" /\ agr.ver.major = 0
             \/ agr.status = "ACTIVE" /\ agr.ver = Published

TabInv == \A t \in Tabs : /\ AtMost(tab[t].ver, agr.ver)
                          /\ tab[t].stage = "open" => Current(tab[t].ver, tab[t].text)

HistoryInv == \A e \in history : Current(e.ver, e.text)

\* The current version is on file, or the handler that wrote it will file it.
FiledInv == \/ Recorded(agr.ver)
            \/ \E h \in Handlers : /\ pc[h] \in {"save_snapshot", "activate_snapshot"}
                                   /\ loc[h].ver = agr.ver

HandlersFit == \A h \in Handlers : Fits(pc[h], loc[h])

IInv == TInv /\ HandlersFit /\ StatusInv /\ TabInv /\ HistoryInv /\ FiledInv

\* How the agreement may change: a new text only with a greater number.
Advance == \/ agr'.ver = agr.ver /\ agr'.text = agr.text
           \/ Before(agr.ver, agr'.ver)

LEMMA VersionOrder ==
    ASSUME NEW u \in Version, NEW v \in Version, NEW w \in Version
    PROVE  /\ ~Before(v, v)
           /\ AtMost(u, v) /\ Before(v, w) => Before(u, w)
           /\ Before(v, IncrementMinorVersion(v))
           /\ v.major = 0 => Before(v, Published) /\ BumpToMajorVersion(v) = Published
BY DEF Version, Before, AtMost, IncrementMinorVersion, BumpToMajorVersion, Published

LEMMA CurrentKept ==
    ASSUME TInv, TInv', Advance
    PROVE  \A v \in Version : \A x :
             /\ AtMost(v, agr.ver) => AtMost(v, agr'.ver)
             /\ Current(v, x) => AtMost(v, agr'.ver) /\ (v = agr'.ver => x = agr'.text)
<1>1. agr.ver \in Version /\ agr'.ver \in Version
  BY DEF TInv, AgreementRow
<1>2. TAKE v \in Version
<1>3. TAKE x
<1>4. CASE agr'.ver = agr.ver /\ agr'.text = agr.text
  BY <1>4 DEF Current
<1>5. CASE Before(agr.ver, agr'.ver)
  <2>1. AtMost(v, agr.ver) => Before(v, agr'.ver) /\ v # agr'.ver
    BY <1>1, <1>5, VersionOrder
  <2> QED  BY <2>1 DEF Current, AtMost
<1> QED  BY <1>4, <1>5 DEF Advance

\* What tabs and the history hold survives an advance that leaves them alone.
LEMMA TabsKept ==
    ASSUME IInv, TInv', Advance, tab' = tab
    PROVE  TabInv'
<1>1. SUFFICES ASSUME NEW t \in Tabs
               PROVE  /\ AtMost(tab[t].ver, agr'.ver)
                      /\ tab[t].stage = "open" =>
                           /\ AtMost(tab[t].ver, agr'.ver)
                           /\ tab[t].ver = agr'.ver => tab[t].text = agr'.text
  BY DEF TabInv, Current
<1>2. tab[t].ver \in Version
  BY DEF IInv, TInv, TabState
<1> QED  BY <1>2, CurrentKept DEF IInv, TabInv

LEMMA HistoryKept ==
    ASSUME IInv, TInv', Advance, history' = history
    PROVE  HistoryInv'
<1>1. SUFFICES ASSUME NEW e \in history
               PROVE  AtMost(e.ver, agr'.ver) /\ (e.ver = agr'.ver => e.text = agr'.text)
  BY DEF HistoryInv, Current
<1>2. e.ver \in Version
  BY DEF IInv, TInv, Snapshots
<1> QED  BY <1>2, CurrentKept DEF IInv, HistoryInv

\* One handler moves: the others still fit.
LEMMA OthersFit ==
    ASSUME IInv, TInv', Advance, NEW h \in Handlers, Fits(pc[h], loc[h])',
           \A g \in Handlers : g # h => pc'[g] = pc[g] /\ loc'[g] = loc[g]
    PROVE  HandlersFit'
<1>1. SUFFICES ASSUME NEW g \in Handlers, g # h
               PROVE  Fits(pc[g], loc[g])'
  BY DEF HandlersFit
<1>2. pc'[g] = pc[g] /\ loc'[g] = loc[g] /\ Fits(pc[g], loc[g])
  BY <1>1 DEF IInv, HandlersFit
<1>3. loc[g].ver \in Version
  BY LocalTyped DEF IInv
<1>4. ASSUME NEW x, Current(loc[g].ver, x)
      PROVE  AtMost(loc[g].ver, agr'.ver) /\ (loc[g].ver = agr'.ver => x = agr'.text)
  BY <1>3, <1>4, CurrentKept DEF IInv
<1> QED  BY <1>2, <1>4 DEF Fits, Current

LEMMA Moved ==
    ASSUME TInv, NEW h \in Handlers, NEW p, NEW l, Move(h, p, l)
    PROVE  /\ pc'[h] = p /\ loc'[h] = l
           /\ \A g \in Handlers : g # h => pc'[g] = pc[g] /\ loc'[g] = loc[g]
BY DEF Move, TInv, Places

\* A handler comes to rest, or begins a step with which nothing is promised.
LEMMA RestFits == Fits("idle", NoLocals) /\ Fits("activate_read", NoLocals)
                    /\ Fits("delete_write", NoLocals)
BY DEF Fits, NoLocals

LEMMA Returned ==
    ASSUME IInv, TInv', Advance, NEW h \in Handlers, Return(h)
    PROVE  HandlersFit'
<1>1. Fits(pc[h], loc[h])'
  BY Moved DEF Return, Fits, NoLocals, IInv
<1> QED  BY <1>1, Moved, OthersFit DEF Return, IInv

\* The current version stays on file while its number stands and the handler
\* that is to file it, if any, is not the one that moves.
LEMMA FiledKept ==
    ASSUME IInv, NEW h \in Handlers, agr'.ver = agr.ver, history \subseteq history',
           pc[h] \in {"save_snapshot", "activate_snapshot"} 
               => \E e \in history' : e.ver = loc[h].ver,
           \A g \in Handlers : g # h => pc'[g] = pc[g] /\ loc'[g] = loc[g]
    PROVE  FiledInv'
<1>1. CASE Recorded(agr.ver)
  BY <1>1 DEF Recorded, FiledInv
<1>2. CASE \E g \in Handlers : /\ pc[g] \in {"save_snapshot", "activate_snapshot"}
                               /\ loc[g].ver = agr.ver
  <2>1. PICK g \in Handlers : /\ pc[g] \in {"save_snapshot", "activate_snapshot"}
                              /\ loc[g].ver = agr.ver
    BY <1>2
  <2>2. CASE g = h
    BY <2>1, <2>2 DEF FiledInv, Recorded
  <2>3. CASE g # h
    BY <2>1, <2>3 DEF FiledInv
  <2> QED  BY <2>2, <2>3
<1> QED  BY <1>1, <1>2 DEF IInv, FiledInv

----------------------------------------------------------------------------
(* One lemma per group of steps.                                            *)

Editing == Ops \subseteq EditorOps

LEMMA InitInv == Init => IInv
<1> SUFFICES ASSUME Init PROVE IInv
  OBVIOUS
<1>1. HandlersFit
  BY RestFits DEF Init, HandlersFit
<1>2. StatusInv /\ TabInv /\ HistoryInv /\ FiledInv
  BY DEF Init, StatusInv, TabInv, HistoryInv, FiledInv, Recorded, Current, AtMost, FirstVersion
<1> QED  BY <1>1, <1>2, InitTyped DEF IInv

LEMMA TabKeeps ==
    ASSUME IInv, TInv', NEW t \in Tabs, OpenTab(t) \/ LoadTab(t)
    PROVE  IInv'
<1>1. UNCHANGED <<agr, history, reqs, pc, loc>>
  BY DEF OpenTab, LoadTab
<1>2. HandlersFit' /\ StatusInv' /\ HistoryInv' /\ FiledInv'
  BY <1>1 DEF IInv, HandlersFit, Fits, StatusInv, HistoryInv, FiledInv, Current, Recorded
<1>3. ASSUME NEW s \in Tabs
      PROVE  /\ AtMost(tab'[s].ver, agr.ver)
             /\ tab'[s].stage = "open" => Current(tab'[s].ver, tab'[s].text)
  <2>0. tab \in [Tabs -> TabState]
    BY DEF IInv, TInv
  <2>1. CASE s # t
    BY <2>0, <2>1 DEF OpenTab, LoadTab, IInv, TabInv
  <2>2. CASE s = t /\ OpenTab(t)
    BY <2>0, <2>2 DEF OpenTab, TabState, AtMost
  <2>3. CASE s = t /\ LoadTab(t)
    BY <2>0, <2>3 DEF LoadTab, TabState, IInv, TabInv, Current
  <2> QED  BY <2>1, <2>2, <2>3
<1>4. TabInv'
  BY <1>1, <1>3 DEF TabInv, Current
<1> QED  BY <1>2, <1>4 DEF IInv

\* A handler that was idle, or is at a place where nothing is owed, moves and
\* leaves every row alone.
LEMMA PlainKeeps ==
    ASSUME IInv, TInv', NEW h \in Handlers, NEW p, NEW l, Move(h, p, l), Fits(p, l),
           pc[h] \notin {"save_snapshot", "activate_snapshot"},
           UNCHANGED <<agr, history, tab>>
    PROVE  IInv'
<1>1. Advance
  BY DEF Advance
<1>2. Fits(pc[h], loc[h])'
  BY Moved DEF IInv, Fits, Current
<1>3. HandlersFit'
  BY <1>1, <1>2, Moved, OthersFit DEF IInv
<1>4. FiledInv'
  BY Moved, FiledKept DEF IInv
<1>5. StatusInv'
  BY DEF IInv, StatusInv
<1> QED  BY <1>1, <1>3, <1>4, <1>5, TabsKept, HistoryKept DEF IInv

LEMMA RequestKeeps ==
    ASSUME IInv, TInv', NEW h \in Handlers,
           (\E t \in Tabs : SaveTab(h, t)) \/ Activate(h) \/ DeleteRead(h)
    PROVE  IInv'
<1>1. CASE Activate(h) \/ DeleteRead(h)
  BY <1>1, RestFits, PlainKeeps DEF Activate, DeleteRead, BeginEdit, Begin
<1>2. ASSUME NEW t \in Tabs, SaveTab(h, t) PROVE IInv'
  <2> DEFINE l == [NoLocals EXCEPT !.tabs = {t}, !.ver = tab[t].ver, !.text = NewText,
                                   !.base = tab[t].text, !.guarded = TRUE]
  <2>1. l.ver = tab[t].ver /\ l.base = tab[t].text /\ l.guarded /\ ~l.activate /\ l.text = NewText
    BY DEF NoLocals
  <2>2. NewText \in Text
    BY DEF NewText, Text, IInv, TInv
  <2>3. Current(tab[t].ver, tab[t].text)
    BY <1>2 DEF SaveTab, IInv, TabInv
  <2>4. Fits("save_read", l)
    <3> HIDE DEF l
    <3> QED  BY <2>1, <2>2, <2>3 DEF Fits
  <2> QED  BY <1>2, <2>4, PlainKeeps DEF SaveTab, BeginEdit, Begin
<1> QED  BY <1>1, <1>2

LEMMA SaveReadKeeps ==
    ASSUME IInv, TInv', NEW h \in Handlers, SaveRead(h)
    PROVE  IInv'
<1>1. pc[h] = "save_read" /\ Fits("save_read", loc[h]) /\ loc[h] \in Locals
  BY LocalTyped DEF SaveRead, IInv, HandlersFit
<1>2. CASE Return(h)
  BY <1>1, <1>2, RestFits, PlainKeeps DEF SaveRead, Return
<1>3. CASE ~SaveRefused(h)
  <2> DEFINE l == [loc[h] EXCEPT !.ver = agr.ver, !.text = IF @ = 0 THEN agr.text ELSE @]
  <2>1. l.ver = agr.ver /\ l.base = loc[h].base /\ l.guarded = loc[h].guarded
          /\ l.activate = loc[h].activate
    BY <1>1 DEF Locals
  <2>2. agr.ver = loc[h].ver /\ agr.ver.major = 0
    BY <1>1, <1>3 DEF SaveRefused, Fits, IInv, StatusInv
  <2>3. Fits("save_write", l)
    <3> HIDE DEF l
    <3> QED  BY <1>1, <2>1, <2>2 DEF Fits
  <2> QED  BY <1>1, <1>3, <2>3, PlainKeeps DEF SaveRead
<1> QED  BY <1>2, <1>3 DEF SaveRead

LEMMA SaveWriteKeeps ==
    ASSUME IInv, TInv', NEW h \in Handlers, SaveWrite(h)
    PROVE  /\ IInv' /\ Advance
           /\ agr' # agr => agr.status = "DRAFT" /\ loc[h].base = agr.text
<1>1. pc[h] = "save_write" /\ Fits("save_write", loc[h]) /\ loc[h] \in Locals
        /\ loc[h].ver \in Version /\ agr.ver \in Version /\ agr \in AgreementRow
  BY LocalTyped DEF SaveWrite, IInv, HandlersFit, TInv
<1>2. CASE Return(h) /\ agr' = agr
  BY <1>1, <1>2, RestFits, PlainKeeps DEF SaveWrite, Return, Advance
<1>3. CASE agr.ver = loc[h].ver
  <2> DEFINE next == IncrementMinorVersion(loc[h].ver)
             l == [loc[h] EXCEPT !.ver = next]
  <2>1. agr' = [agr EXCEPT !.ver = next, !.text = loc[h].text] /\ Move(h, "save_snapshot", l)
    BY <1>3 DEF SaveWrite
  <2>2. agr'.ver = next /\ agr'.text = loc[h].text /\ agr'.status = agr.status
    BY <1>1, <2>1 DEF AgreementRow
  <2>3. l.ver = next /\ l.text = loc[h].text /\ l.activate = loc[h].activate
    BY <1>1 DEF Locals
  <2>4. Before(agr.ver, next) /\ next.major = 0 /\ agr.ver.major = 0
    BY <1>1, <1>3, VersionOrder DEF Fits, IncrementMinorVersion, Version
  <2>5. agr.status = "DRAFT" /\ loc[h].base = agr.text
    BY <1>1, <1>3, <2>4 DEF IInv, StatusInv, Published, Fits, Current
  <2> HIDE DEF next, l
  <2>6. Advance
    BY <2>2, <2>4 DEF Advance
  <2>7. pc'[h] = "save_snapshot" /\ loc'[h] = l
          /\ \A g \in Handlers : g # h => pc'[g] = pc[g] /\ loc'[g] = loc[g]
    BY <2>1, Moved DEF IInv
  <2>8. Fits(pc[h], loc[h])'
    BY <1>1, <2>2, <2>3, <2>7 DEF Fits, Current, AtMost
  <2>9. HandlersFit'
    BY <2>6, <2>7, <2>8, OthersFit
  <2>10. StatusInv'
    BY <2>2, <2>4, <2>5 DEF StatusInv
  <2>11. FiledInv'
    BY <2>2, <2>3, <2>7 DEF FiledInv
  <2> QED  BY <2>5, <2>6, <2>9, <2>10, <2>11, TabsKept, HistoryKept DEF IInv, SaveWrite
<1> QED  BY <1>1, <1>2, <1>3 DEF SaveWrite, Fits

\* A snapshot is on file after the insert, whoever made it.
LEMMA Filed ==
    ASSUME NEW h \in Handlers,
           \/ history' = history \cup {[ver |-> loc[h].ver, text |-> loc[h].text]}
           \/ history' = history /\ Recorded(loc[h].ver)
    PROVE  history \subseteq history' /\ \E e \in history' : e.ver = loc[h].ver
<1> DEFINE new == [ver |-> loc[h].ver, text |-> loc[h].text]
<1>1. CASE history' = history \cup {new}
  <2>1. new \in history' /\ new.ver = loc[h].ver
    BY <1>1
  <2> QED  BY <1>1, <2>1
<1>2. CASE history' = history /\ Recorded(loc[h].ver)
  BY <1>2 DEF Recorded
<1> QED  BY <1>1, <1>2

LEMMA SaveSnapshotKeeps ==
    ASSUME IInv, TInv', NEW h \in Handlers, SaveSnapshot(h)
    PROVE  IInv'
<1>1. /\ pc[h] = "save_snapshot" /\ Current(loc[h].ver, loc[h].text) /\ ~loc[h].activate
      /\ agr' = agr /\ Advance
  BY DEF SaveSnapshot, IInv, HandlersFit, Fits, Advance
<1>2. Return(h)
  BY <1>1 DEF SaveSnapshot
<1>3. HandlersFit'
  BY <1>1, <1>2, Returned
<1>4. \/ history' = history \cup {[ver |-> loc[h].ver, text |-> loc[h].text]}
      \/ history' = history /\ Recorded(loc[h].ver)
  BY <1>1 DEF SaveSnapshot, Record
<1>5. HistoryInv'
  BY <1>1, <1>4 DEF IInv, HistoryInv, Current
<1>6. TabInv'
  <2>1. ASSUME NEW t \in Tabs
        PROVE  \/ tab'[t] = tab[t]
               \/ tab'[t].ver = loc[h].ver /\ tab'[t].text = loc[h].text
    BY <1>1 DEF SaveSnapshot
  <2> QED  BY <1>1, <2>1 DEF IInv, TabInv, Current
<1>7. FiledInv'
  <2>1. history \subseteq history' /\ \E e \in history' : e.ver = loc[h].ver
    BY <1>4, Filed
  <2> QED  BY <1>1, <1>2, <2>1, Moved, FiledKept DEF Return, IInv
<1> QED  BY <1>1, <1>3, <1>5, <1>6, <1>7 DEF IInv, StatusInv

LEMMA ClosedTabs ==
    ASSUME IInv, agr' = agr, NEW h \in Handlers, CloseTabs(h)
    PROVE  TabInv'
<1>1. ASSUME NEW t \in Tabs
      PROVE  /\ tab'[t].ver = tab[t].ver
             /\ tab'[t].stage = "open" => tab'[t] = tab[t]
  BY DEF CloseTabs, IInv, TInv, TabState
<1> QED  BY <1>1 DEF IInv, TabInv, Current

LEMMA ActivateReadKeeps ==
    ASSUME IInv, TInv', NEW h \in Handlers, ActivateRead(h)
    PROVE  IInv'
<1>1. /\ pc[h] = "activate_read" /\ ~loc[h].activate /\ loc[h] \in Locals
      /\ agr' = agr /\ history' = history /\ Advance
  BY LocalTyped DEF ActivateRead, IInv, HandlersFit, Fits, Advance
<1>2. CASE Return(h) /\ tab' = tab
  BY <1>1, <1>2, RestFits, PlainKeeps DEF Return
<1>3. CASE Return(h) /\ CloseTabs(h)
  <2>1. FiledInv'
    BY <1>1, <1>3, Moved, FiledKept DEF Return, IInv
  <2> QED  BY <1>1, <1>3, <2>1, Returned, ClosedTabs, HistoryKept DEF IInv, StatusInv
<1>4. CASE /\ agr.status # "ACTIVE" /\ tab' = tab
           /\ Move(h, "activate_write", [loc[h] EXCEPT !.ver = agr.ver, !.text = agr.text])
  <2> DEFINE l == [loc[h] EXCEPT !.ver = agr.ver, !.text = agr.text]
  <2>1. l.ver = agr.ver /\ l.activate = loc[h].activate
    BY <1>1 DEF Locals
  <2>2. agr.ver.major = 0
    BY <1>4 DEF IInv, StatusInv
  <2>3. Fits("activate_write", l)
    <3> HIDE DEF l
    <3> QED  BY <1>1, <2>1, <2>2 DEF Fits
  <2> QED  BY <1>1, <1>4, <2>3, PlainKeeps
<1> QED  BY <1>2, <1>3, <1>4 DEF ActivateRead

LEMMA ActivateWriteKeeps ==
    ASSUME IInv, TInv', NEW h \in Handlers, ActivateWrite(h)
    PROVE  IInv' /\ Advance /\ agr'.text = agr.text
<1> DEFINE l == [loc[h] EXCEPT !.ver = Published, !.text = agr.text]
<1>1. /\ pc[h] = "activate_write" /\ ~loc[h].activate /\ loc[h].ver.major = 0
      /\ loc[h].ver \in Version /\ loc[h] \in Locals /\ agr.ver \in Version
      /\ agr \in AgreementRow
  BY LocalTyped DEF ActivateWrite, IInv, HandlersFit, Fits, TInv
<1>2. BumpToMajorVersion(loc[h].ver) = Published
  BY <1>1, VersionOrder
<1>3. agr' = [agr EXCEPT !.status = "ACTIVE", !.ver = Published] /\ Move(h, "activate_snapshot", l)
  BY <1>2 DEF ActivateWrite
<1>4. agr'.status = "ACTIVE" /\ agr'.ver = Published /\ agr'.text = agr.text
  BY <1>1, <1>3 DEF AgreementRow
<1>5. Advance
  <2>1. CASE agr.status = "DRAFT" /\ agr.ver.major = 0
    BY <1>1, <1>4, <2>1, VersionOrder DEF Advance
  <2>2. CASE agr.ver = Published
    BY <1>4, <2>2 DEF Advance
  <2> QED  BY <2>1, <2>2 DEF IInv, StatusInv
<1>6. l.ver = Published /\ l.text = agr.text /\ l.activate = loc[h].activate
  BY <1>1 DEF Locals
<1> HIDE DEF l
<1>7. pc'[h] = "activate_snapshot" /\ loc'[h] = l
        /\ \A g \in Handlers : g # h => pc'[g] = pc[g] /\ loc'[g] = loc[g]
  BY <1>3, Moved DEF IInv
<1>8. Fits(pc[h], loc[h])'
  BY <1>1, <1>4, <1>6, <1>7 DEF Fits, Current, AtMost
<1>9. HandlersFit'
  BY <1>5, <1>7, <1>8, OthersFit
<1>10. StatusInv' /\ FiledInv'
  BY <1>4, <1>6, <1>7 DEF StatusInv, FiledInv
<1> QED  BY <1>4, <1>5, <1>9, <1>10, TabsKept, HistoryKept DEF IInv, ActivateWrite

LEMMA ActivateSnapshotKeeps ==
    ASSUME IInv, TInv', NEW h \in Handlers, ActivateSnapshot(h)
    PROVE  IInv'
<1>1. /\ pc[h] = "activate_snapshot" /\ Current(loc[h].ver, loc[h].text)
      /\ Return(h) /\ agr' = agr /\ Advance
  BY DEF ActivateSnapshot, IInv, HandlersFit, Fits, Advance
<1>2. HandlersFit'
  BY <1>1, Returned
<1>3. \/ history' = history \cup {[ver |-> loc[h].ver, text |-> loc[h].text]}
      \/ history' = history /\ Recorded(loc[h].ver)
  BY DEF ActivateSnapshot, Record
<1>4. HistoryInv'
  BY <1>1, <1>3 DEF IInv, HistoryInv, Current
<1>5. TabInv'
  BY <1>1, ClosedTabs, TabsKept DEF ActivateSnapshot
<1>6. FiledInv'
  <2>1. history \subseteq history' /\ \E e \in history' : e.ver = loc[h].ver
    BY <1>3, Filed
  <2> QED  BY <1>1, <2>1, Moved, FiledKept DEF Return, IInv
<1> QED  BY <1>1, <1>2, <1>4, <1>5, <1>6 DEF IInv, StatusInv

LEMMA DeleteWriteKeeps ==
    ASSUME IInv, TInv', NEW h \in Handlers, DeleteWrite(h)
    PROVE  IInv' /\ Advance /\ agr'.text = agr.text
<1>1. pc[h] = "delete_write" /\ Return(h) /\ history' = history /\ tab' = tab
  BY DEF DeleteWrite
<1>2. agr'.status = agr.status /\ agr'.ver = agr.ver /\ agr'.text = agr.text
  BY DEF DeleteWrite, IInv, TInv, AgreementRow
<1>3. Advance
  BY <1>2 DEF Advance
<1>4. FiledInv'
  BY <1>1, <1>2, Moved, FiledKept DEF Return, IInv
<1>5. StatusInv'
  BY <1>2 DEF IInv, StatusInv
<1> QED  BY <1>1, <1>2, <1>3, <1>4, <1>5, Returned, TabsKept, HistoryKept DEF IInv

\* No other request arrives, and none is under way.
LEMMA OnlyEditing ==
    ASSUME IInv, Editing, NEW h \in Handlers
    PROVE  /\ ~ApiSave(h) /\ ~CreateVersion(h) /\ ~VersionSnapshot(h) /\ ~VersionWrite(h)
           /\ ~StatusRead(h) /\ ~StatusWrite(h)
           /\ \A t \in Tabs : ~MoveToActive(h, t)
<1>1. ~ApiSave(h) /\ ~CreateVersion(h) /\ \A t \in Tabs : ~MoveToActive(h, t)
  BY DEF Editing, EditorOps, ApiSave, CreateVersion, MoveToActive, BeginEdit, Begin
<1>2. ~StatusRead(h)
  <2>1. \A m \in StatusMoves : m.op \notin EditorOps
    BY DEF StatusMoves, EditorOps
  <2> QED  BY <2>1 DEF Editing, StatusRead, Begin
<1>3. ~VersionSnapshot(h) /\ ~VersionWrite(h) /\ ~StatusWrite(h)
  BY DEF IInv, HandlersFit, Fits, VersionSnapshot, VersionWrite, StatusWrite
<1> QED  BY <1>1, <1>2, <1>3

\* What a step may do to the agreement.
Edits == agr' # agr =>
           /\ Advance
           /\ \/ agr'.text = agr.text
              \/ /\ agr.status = "DRAFT"
                 /\ \E h \in Handlers : pc[h] = "save_write" /\ loc[h].base = agr.text

LEMMA StepKeeps ==
    ASSUME Editing
    PROVE  IInv /\ [Next]_vars => IInv' /\ Edits
<1> SUFFICES ASSUME IInv, [Next]_vars PROVE IInv' /\ Edits
  OBVIOUS
<1>1. TInv'
  BY StepTyped DEF IInv
<1>2. ASSUME NEW h \in Handlers, SaveWrite(h) PROVE IInv' /\ Edits
  BY <1>1, <1>2, SaveWriteKeeps DEF Edits, SaveWrite
<1>3. ASSUME NEW h \in Handlers, ActivateWrite(h) \/ DeleteWrite(h) PROVE IInv' /\ Edits
  BY <1>1, <1>3, ActivateWriteKeeps, DeleteWriteKeeps DEF Edits
<1>4. ASSUME NEW h \in Handlers,
             \/ SaveRead(h) \/ SaveSnapshot(h) \/ ActivateRead(h) \/ ActivateSnapshot(h)
             \/ Activate(h) \/ DeleteRead(h) \/ \E t \in Tabs : SaveTab(h, t)
      PROVE  IInv' /\ Edits
  <2>1. agr' = agr
    BY <1>4 DEF SaveRead, SaveSnapshot, ActivateRead, ActivateSnapshot, Activate,
                DeleteRead, SaveTab
  <2>2. IInv'
    BY <1>1, <1>4, SaveReadKeeps, SaveSnapshotKeeps, ActivateReadKeeps,
       ActivateSnapshotKeeps, RequestKeeps
  <2> QED  BY <2>1, <2>2 DEF Edits
<1>5. ASSUME NEW t \in Tabs, OpenTab(t) \/ LoadTab(t) PROVE IInv' /\ Edits
  <2>1. agr' = agr
    BY <1>5 DEF OpenTab, LoadTab
  <2> QED  BY <1>1, <1>5, <2>1, TabKeeps DEF Edits
<1>6. CASE UNCHANGED vars
  BY <1>1, <1>6 DEF vars, Edits, IInv, HandlersFit, Fits, StatusInv, TabInv, HistoryInv,
                    FiledInv, Current, Recorded
<1>7. ASSUME NEW h \in Handlers, Handle(h) PROVE IInv' /\ Edits
  BY <1>2, <1>3, <1>4, <1>7, OnlyEditing DEF Handle
<1>8. ASSUME NEW t \in Tabs, Edit(t) PROVE IInv' /\ Edits
  BY <1>4, <1>5, <1>8, OnlyEditing DEF Edit
<1> QED  BY <1>6, <1>7, <1>8 DEF Next

LEMMA AlwaysInv == ASSUME Editing PROVE Spec => []IInv
<1>1. IInv /\ [Next]_vars => IInv'
  BY StepKeeps
<1> QED  BY <1>1, InitInv, PTL DEF Spec

\* Only a handler's own SaveWrite takes it from the read to the snapshot.
LEMMA SavesApart ==
    ASSUME IInv, [Next]_vars, NEW h \in Handlers,
           pc[h] = "save_write", pc'[h] = "save_snapshot", loc[h].guarded
    PROVE  loc[h].base = agr.text
<1>1. ASSUME NEW g \in Handlers, NEW p, NEW l, Move(g, p, l) PROVE g = h /\ p = "save_snapshot"
  BY <1>1, Moved DEF IInv
<1>2. ASSUME NEW g \in Handlers, NEW op, NEW p, NEW l, Begin(g, op, p, l) PROVE FALSE
  BY <1>1, <1>2 DEF Begin
<1>3. ASSUME NEW g \in Handlers, Return(g) PROVE FALSE
  BY <1>1, <1>3 DEF Return
<1>4. ASSUME NEW g \in Handlers, SaveWrite(g) PROVE loc[h].base = agr.text
  <2>1. g = h /\ ~Return(g)
    BY <1>1, <1>3, <1>4 DEF SaveWrite
  <2>2. agr.ver = loc[h].ver /\ agr'.ver = IncrementMinorVersion(agr.ver)
    BY <1>4, <2>1 DEF SaveWrite, IInv, TInv, AgreementRow
  <2>3. agr' # agr
    BY <2>2 DEF IncrementMinorVersion, IInv, TInv, AgreementRow, Version
  <2> QED  BY <1>4, <2>1, <2>3, SaveWriteKeeps, StepTyped DEF IInv
<1>5. ASSUME NEW g \in Handlers, Handle(g) PROVE loc[h].base = agr.text
  <2>1. ~(\/ ApiSave(g) \/ Activate(g) \/ CreateVersion(g) \/ StatusRead(g) \/ DeleteRead(g))
    BY <1>2 DEF ApiSave, Activate, CreateVersion, StatusRead, DeleteRead, BeginEdit
  <2>2. ~(SaveRead(g) \/ SaveSnapshot(g) \/ ActivateRead(g) \/ ActivateWrite(g)
          \/ ActivateSnapshot(g) \/ VersionSnapshot(g) \/ VersionWrite(g)
          \/ StatusWrite(g) \/ DeleteWrite(g))
    BY <1>1, <1>3 DEF SaveRead, SaveSnapshot, ActivateRead, ActivateWrite, ActivateSnapshot,
                      VersionSnapshot, VersionWrite, StatusWrite, DeleteWrite
  <2> QED  BY <1>4, <1>5, <2>1, <2>2 DEF Handle
<1>6. ASSUME NEW t \in Tabs, Edit(t) PROVE FALSE
  <2>1. ~(OpenTab(t) \/ LoadTab(t))
    BY DEF OpenTab, LoadTab
  <2>2. \A g \in Handlers : ~(SaveTab(g, t) \/ MoveToActive(g, t))
    BY <1>2 DEF SaveTab, MoveToActive, BeginEdit
  <2> QED  BY <1>6, <2>1, <2>2 DEF Edit
<1>7. ~UNCHANGED vars
  BY DEF vars
<1> QED  BY <1>5, <1>6, <1>7 DEF Next

\* While the editor's saves, activations and deletions are the only requests,
\* no tab ever overwrites a text that it has not shown: the expectedVersion
\* check of saveDraft works for any number of tabs and handlers.
THEOREM NoEditLost == ASSUME Editing PROVE Spec => SavesSeen
<1>1. IInv /\ [Next]_vars =>
        [\A h \in Handlers :
           pc[h] = "save_write" /\ pc'[h] = "save_snapshot" /\ loc[h].guarded
             => loc[h].base = agr.text]_vars
  BY SavesApart
<1> QED  BY <1>1, AlwaysInv, PTL DEF Spec, SavesSeen

\* Under the same requests the version number never goes back and every new
\* text gets a number of its own, which is what the check relies on.
THEOREM VersionsAdvance == ASSUME Editing PROVE Spec => VersionsGrow
<1>1. IInv => agr.ver \in Version
  BY DEF IInv, TInv, AgreementRow
<1>2. IInv /\ [Next]_vars =>
        [ /\ AtMost(agr.ver, agr'.ver)
          /\ agr'.text # agr.text => agr'.ver # agr.ver ]_vars
  <2> SUFFICES ASSUME IInv, [Next]_vars
               PROVE  /\ AtMost(agr.ver, agr'.ver)
                      /\ agr'.text # agr.text => agr'.ver # agr.ver
    OBVIOUS
  <2>1. agr' = agr \/ Advance
    BY StepKeeps DEF Edits
  <2> QED  BY <1>1, <2>1, VersionOrder DEF Advance, AtMost
<1> QED  BY <1>2, AlwaysInv, PTL DEF Spec, VersionsGrow

\* Under the same requests only a DRAFT is edited: an activation that overtakes
\* a save has changed the version the save's update asks for.
THEOREM DraftsOnly == ASSUME Editing PROVE Spec => OnlyDraftsEdited
<1>1. IInv /\ [Next]_vars => [agr'.text # agr.text => agr.status = "DRAFT"]_vars
  BY StepKeeps DEF Edits
<1> QED  BY <1>1, AlwaysInv, PTL DEF Spec, OnlyDraftsEdited

\* Under the same requests the version history agrees with the agreement: two
\* handlers that file the same number file the same text.
THEOREM HistoryTrue == ASSUME Editing PROVE Spec => []HistoryShowsDraft
<1>1. IInv => HistoryShowsDraft
  BY DEF IInv, HistoryInv, FiledInv, Current, HistoryShowsDraft, Quiet
<1> QED  BY <1>1, AlwaysInv, PTL
=============================================================================
