--------------------------- MODULE ReportsProofs ---------------------------
(* Type correctness of Reports, that the active confirmation is always     *)
(* that of the current version, and that what is filed is what the page    *)
(* showed, for every number of versions and events.                        *)
EXTENDS Reports, TLAPS

\* The inductive invariant, by the variables its parts are about.
RowsOK ==
  /\ report \in View /\ report.cur \in Versions
  /\ version[report.cur].origin \in {"rule", "manual"}
  /\ version \in [Versions -> Row]
  /\ active \subseteq Versions
  /\ today \in BOOLEAN
  /\ Pointed

PageOK == page \in Page /\ page.view.cur \in Versions

EditOK == edit \in Request /\ (edit.pc = "done" => edit.got.cur \in Versions)

UndoOK ==
  /\ undo \in [pc: {"idle", "sent", "done", "refused"}, base: View, to: 0..NumVersions]
  /\ undo.pc = "sent" => undo.to \in Versions

AiOK ==
  /\ ai \in [Askers -> Asking]
  /\ ai["page"].pc = "refresh" => ai["page"].base.cur \in Versions
  /\ \A w \in Askers : ai[w].pc = "suggested" => ai[w].gen \in Versions

RestOK ==
  /\ pending \subseteq Versions
  /\ submit \in Flow
  /\ facts \in {0, 1}
  /\ budget \in [events: Nat, strays: Nat]

LEMMA Parts ==
  IInv <=> RowsOK /\ PageOK /\ EditOK /\ UndoOK /\ AiOK /\ RestOK /\ ReadOnce
BY DEF IInv, TypeOK, Named, RowsOK, PageOK, EditOK, UndoOK, AiOK, RestOK

LEMMA PartsNext ==
  ASSUME RowsOK', PageOK', EditOK', UndoOK', AiOK', RestOK', ReadOnce'
  PROVE  IInv'
BY DEF IInv, TypeOK, Named, RowsOK, PageOK, EditOK, UndoOK, AiOK, RestOK

----------------------------------------------------------------------------
(* The operators *)

\* A new current version: a well-formed row, no confirmation if the one that is
\* ended is the one the row names.
LEMMA PutRow ==
  ASSUME RowsOK, NEW row \in Row, row.origin \in {"rule", "manual"}, NEW c, Put(row, c),
         c = report.conf
  PROVE  /\ RowsOK'
         /\ report' \in View /\ report'.cur \in Versions /\ report'.ver = report.ver + 1
<1> USE ReportsAssumption
<1>1. PICK v \in Versions :
        /\ version' = [version EXCEPT ![v] = row]
        /\ report' = [cur |-> v, ver |-> report.ver + 1, conf |-> 0]
  BY DEF Put
<1>2. report' \in View /\ report'.cur = v /\ report'.conf = 0 /\ report'.ver = report.ver + 1
  BY <1>1 DEF RowsOK, View, Versions
<1>3. version' \in [Versions -> Row] /\ version'[v] = row
  BY <1>1 DEF RowsOK
<1>4. active' = {} /\ today' = TRUE
  BY DEF Put, Invalidated, RowsOK, Pointed
<1> QED
  BY <1>2, <1>3, <1>4 DEF RowsOK, Pointed

LEMMA RowFields ==
  ASSUME RowsOK, NEW v \in Versions
  PROVE  /\ version[v].text \in Texts /\ version[v].at \in Schedules
         /\ version[v].base \in 0..NumVersions /\ version[v].facts \in {0, 1}
BY DEF RowsOK, Row

\* A restored, adopted, refreshed or derived version is a row of manual origin.
LEMMA RestoredOf ==
  ASSUME NEW r \in Row
  PROVE  /\ [r EXCEPT !.origin = "manual", !.base = 0] \in Row
         /\ [r EXCEPT !.origin = "manual", !.base = 0].origin = "manual"
<1>1. 0 \in 0..NumVersions
  BY ReportsAssumption
<1> QED
  BY <1>1 DEF Row, Origins

LEMMA ManualOf ==
  ASSUME NEW r \in Row, NEW t \in Texts, NEW s \in Schedules, NEW f \in {0, 1}
  PROVE  /\ [r EXCEPT !.origin = "manual", !.facts = f, !.hash = "sources"] \in Row
         /\ [r EXCEPT !.origin = "manual", !.facts = f, !.hash = "sources"].origin = "manual"
         /\ [r EXCEPT !.origin = "manual", !.text = t, !.at = s, !.hash = "snapshot"] \in Row
         /\ [r EXCEPT !.origin = "manual", !.text = t, !.at = s, !.hash = "snapshot"].origin = "manual"
BY DEF Row, Origins, Hashes

LEMMA ManualRow ==
  ASSUME RowsOK, NEW v \in Versions, NEW t \in Texts, NEW s \in Schedules, NEW f \in {0, 1}
  PROVE  /\ [version[v] EXCEPT !.origin = "manual", !.base = 0] \in Row
         /\ [version[v] EXCEPT !.origin = "manual", !.base = 0].origin = "manual"
         /\ [version[v] EXCEPT !.origin = "manual", !.facts = f, !.hash = "sources"] \in Row
         /\ [version[v] EXCEPT !.origin = "manual", !.facts = f, !.hash = "sources"].origin = "manual"
         /\ Derived(t, s) \in Row /\ Derived(t, s).origin = "manual"
<1>1. version[v] \in Row /\ version[report.cur] \in Row
  BY DEF RowsOK
<1>2. Derived(t, s) \in Row /\ Derived(t, s).origin = "manual"
  BY <1>1, ManualOf DEF Derived
<1> QED
  BY <1>1, <1>2, ManualOf, RestoredOf

\* What the page shows after a read of the report.
LEMMA ViewOnly ==
  ASSUME NEW p \in Page, NEW w \in View
  PROVE  /\ [p EXCEPT !.view = w] \in Page /\ [p EXCEPT !.view = w].view = w
         /\ [p EXCEPT !.view = w, !.own = 0] \in Page
         /\ [p EXCEPT !.view = w, !.own = 0].view = w
<1>1. 0 \in 0..NumVersions
  BY ReportsAssumption
<1> QED
  BY <1>1 DEF Page

LEMMA CachedPage ==
  ASSUME RowsOK, NEW p \in Page, p.view.cur \in Versions, NEW w \in View, w.cur \in Versions
  PROVE  /\ Cached(p, w) \in Page /\ Cached(p, w).view.cur \in Versions
         /\ Shown(p, w) \in Page /\ Shown(p, w).view.cur \in Versions
<1>1. version[w.cur].text \in Texts /\ version[w.cur].at \in Schedules
  BY RowFields
<1>2. Shown(p, w) \in Page /\ Shown(p, w).view = w
  <2>1. CASE p.own = w.cur
    BY <2>1, ViewOnly DEF Shown
  <2>2. CASE p.own # w.cur
    <3> DEFINE t == version[w.cur].text
               s == version[w.cur].at
    <3>1. Shown(p, w) = [p EXCEPT !.view = w, !.form = t, !.dirty = FALSE,
                                  !.at = s, !.unsaved = FALSE]
      BY <2>2 DEF Shown
    <3>2. t \in Texts /\ s \in Schedules
      BY <1>1
    <3> HIDE DEF t, s
    <3> QED
      BY <3>1, <3>2 DEF Page
  <2> QED
    BY <2>1, <2>2
<1> QED
  BY <1>2, ViewOnly DEF Cached

LEMMA AskedRequest ==
  ASSUME NEW b \in View, NEW t \in Texts, NEW s \in Schedules,
         Asked(b, t) \/ AskedSettings(b, s) \/ edit' = NoEdit
  PROVE  EditOK'
<1>1. NoEdit \in Request
  BY ReportsAssumption DEF NoEdit, Request, Unread, View, Texts, Typed, Schedules
<1> QED
  BY <1>1 DEF Asked, AskedSettings, EditOK, NoEdit, Request

LEMMA Blank == NoAsking \in Asking /\ NoUndo \in
                 [pc: {"idle", "sent", "done", "refused"}, base: View, to: 0..NumVersions]
               /\ NoFlow \in Flow /\ NoEdit \in Request /\ Unused \in Row
BY ReportsAssumption DEF NoAsking, NoUndo, NoFlow, NoEdit, Unused, Asking, Flow, Request, Row,
     Unread, View, Texts, Typed, Schedules, Origins, Hashes

\* The page's asking after a step that is not "refresh".
LEMMA Asks ==
  ASSUME AiOK, NEW w \in Askers, NEW a \in Asking, Step(w, a),
         a.pc # "refresh", a.pc = "suggested" => a.gen \in Versions
  PROVE  /\ AiOK'
         /\ ai'["page"].pc = "refresh" => ai'["page"] = ai["page"]
BY DEF AiOK, Step, Askers

\* What an action leaves alone keeps its part of the invariant.
LEMMA Stays ==
  ASSUME IInv
  PROVE  /\ UNCHANGED <<report, version, active, today>> => RowsOK'
         /\ UNCHANGED page => PageOK'
         /\ UNCHANGED edit => EditOK'
         /\ UNCHANGED undo => UndoOK'
         /\ UNCHANGED ai => AiOK'
         /\ UNCHANGED <<report, ai>> => ReadOnce'
         /\ report'.ver = report.ver + 1 /\ UNCHANGED ai => ReadOnce'
<1>0. RowsOK /\ PageOK /\ EditOK /\ UndoOK /\ AiOK /\ ReadOnce
  BY Parts
<1>1. UNCHANGED <<report, version, active, today>> => RowsOK'
  BY <1>0 DEF RowsOK, Pointed
<1>2. /\ UNCHANGED page => PageOK'
      /\ UNCHANGED edit => EditOK'
      /\ UNCHANGED undo => UndoOK'
      /\ UNCHANGED ai => AiOK'
  BY <1>0 DEF PageOK, EditOK, UndoOK, AiOK
<1>3. UNCHANGED <<report, ai>> => ReadOnce'
  BY <1>0 DEF ReadOnce
<1>4. report'.ver = report.ver + 1 /\ UNCHANGED ai => ReadOnce'
  <2>1. report.ver \in Nat /\ ai["page"].base.ver \in Nat
    BY <1>0 DEF RowsOK, AiOK, Asking, View, Askers
  <2> QED
    BY <1>0, <2>1 DEF ReadOnce
<1> QED
  BY <1>1, <1>2, <1>3, <1>4

----------------------------------------------------------------------------
(* The actions *)

LEMMA TypeStep == ASSUME IInv, Type PROVE IInv'
<1>0. RowsOK /\ PageOK /\ EditOK /\ UndoOK /\ AiOK /\ RestOK /\ ReadOnce
  BY Parts
<1>1. PageOK'
  BY <1>0 DEF Type, PageOK, Page, Texts
<1>2. RestOK'
  BY <1>0 DEF Type, RestOK
<1> QED
  BY <1>0, <1>1, <1>2, Stays, PartsNext DEF Type

LEMMA RefetchStep == ASSUME IInv, Refetch PROVE IInv'
<1>0. RowsOK /\ PageOK /\ EditOK /\ UndoOK /\ AiOK /\ RestOK /\ ReadOnce
  BY Parts
<1>1. PageOK'
  BY <1>0, CachedPage DEF Refetch, PageOK, RowsOK
<1>2. RestOK'
  BY <1>0 DEF Refetch, RestOK, Strays
<1> QED
  BY <1>0, <1>1, <1>2, Stays, PartsNext DEF Refetch

LEMMA LeaveStep == ASSUME IInv, Leave PROVE IInv'
<1>0. RowsOK /\ PageOK /\ EditOK /\ UndoOK /\ AiOK /\ RestOK /\ ReadOnce
  BY Parts
<1>1. PageOK'
  BY <1>0 DEF Leave, PageOK, Page, Texts, Schedules
<1>2. RestOK'
  BY <1>0 DEF Leave, RestOK, Strays
<1> QED
  BY <1>0, <1>1, <1>2, Stays, PartsNext DEF Leave

LEMMA ReturnStep == ASSUME IInv, Return PROVE IInv'
<1>0. RowsOK /\ PageOK /\ EditOK /\ UndoOK /\ AiOK /\ RestOK /\ ReadOnce
  BY Parts
<1>1. [page EXCEPT !.away = FALSE] \in Page /\ [page EXCEPT !.away = FALSE].view = page.view
  BY <1>0 DEF PageOK, Page
<1>2. page.view \in View /\ page.view.cur \in Versions
  BY <1>0 DEF PageOK, Page
<1>3. PageOK'
  BY <1>0, <1>1, <1>2, CachedPage DEF Return, PageOK
<1>4. RestOK'
  BY <1>0 DEF Return, RestOK
<1> QED
  BY <1>0, <1>1, <1>2, <1>3, <1>4, Stays, PartsNext DEF Return

LEMMA SaveStep == ASSUME IInv, Save PROVE IInv'
<1>0. RowsOK /\ PageOK /\ EditOK /\ UndoOK /\ AiOK /\ RestOK /\ ReadOnce
  BY Parts
<1>1. EditOK'
  BY <1>0, AskedRequest DEF Save, PageOK, Page, Schedules
<1>2. RestOK'
  BY <1>0 DEF Save, RestOK
<1> QED
  BY <1>0, <1>1, <1>2, Stays, PartsNext DEF Save

LEMMA ScheduleStep == ASSUME IInv, Schedule PROVE IInv'
<1>0. RowsOK /\ PageOK /\ EditOK /\ UndoOK /\ AiOK /\ RestOK /\ ReadOnce
  BY Parts
<1>1. PICK s \in Schedules : /\ page' = [page EXCEPT !.at = s, !.unsaved = TRUE]
                             /\ AskedSettings(page.view, s)
                             /\ Happens \/ UNCHANGED budget
  BY DEF Schedule
<1>2. PageOK'
  BY <1>0, <1>1 DEF PageOK, Page
<1>3. EditOK'
  BY <1>0, <1>1, AskedRequest DEF PageOK, Page, Texts, Typed
<1>4. RestOK'
  BY <1>0, <1>1 DEF Schedule, RestOK, Happens
<1> QED
  BY <1>0, <1>1, <1>2, <1>3, <1>4, Stays, PartsNext DEF Schedule

LEMMA LoseStep == ASSUME IInv, Lose PROVE IInv'
<1>0. RowsOK /\ PageOK /\ EditOK /\ UndoOK /\ AiOK /\ RestOK /\ ReadOnce
  BY Parts
<1>1. EditOK'
  BY <1>0, Blank DEF Lose, EditOK, Request
<1>2. RestOK'
  BY <1>0 DEF Lose, RestOK, Happens
<1> QED
  BY <1>0, <1>1, <1>2, Stays, PartsNext DEF Lose

LEMMA EditStep == ASSUME IInv, Edit PROVE IInv'
<1>0. RowsOK /\ PageOK /\ EditOK /\ UndoOK /\ AiOK /\ RestOK /\ ReadOnce
  BY Parts
<1> DEFINE row == IF edit.kind = "text" THEN Derived(edit.text, version[report.cur].at)
                  ELSE Derived(version[report.cur].text, edit.at)
<1>1. row \in Row /\ row.origin = "manual"
  <2>1. version[report.cur].text \in Texts /\ version[report.cur].at \in Schedules
    BY <1>0, RowFields DEF RowsOK
  <2>2. edit.text \in Texts /\ edit.at \in Schedules /\ report.cur \in Versions
    BY <1>0 DEF EditOK, Request, RowsOK
  <2> QED
    BY <1>0, <2>1, <2>2, ManualRow
<1>2. RestOK' /\ PageOK' /\ UndoOK' /\ AiOK'
  BY <1>0 DEF Edit, RestOK, PageOK, UndoOK, AiOK
<1>3. CASE NoRow /\ edit' = [NoEdit EXCEPT !.pc = "refused", !.kind = edit.kind]
  <2>1. EditOK'
    BY <1>0, <1>3, Blank DEF EditOK, Request
  <2> QED
    BY <1>2, <1>3, <2>1, Stays, PartsNext DEF Edit, NoRow
<1>4. CASE NoRow /\ edit' = [edit EXCEPT !.pc = "done", !.base = Unread, !.got = report]
  <2>1. EditOK'
    BY <1>0, <1>4, Blank DEF EditOK, Request, NoEdit, RowsOK
  <2> QED
    BY <1>2, <1>4, <2>1, Stays, PartsNext DEF Edit, NoRow
<1>5. CASE Put(row, report.conf)
           /\ edit' = [edit EXCEPT !.pc = "done", !.base = Unread, !.got = report']
  <2>1. RowsOK' /\ report' \in View /\ report'.cur \in Versions /\ report'.ver = report.ver + 1
    <3> HIDE DEF row
    <3> QED
      BY <1>0, <1>1, <1>5, PutRow
  <2>2. EditOK'
    BY <1>0, <1>5, <2>1, Blank DEF EditOK, Request, NoEdit
  <2>3. ReadOnce'
    BY <2>1, Stays DEF Edit
  <2> QED
    BY <1>2, <2>1, <2>2, <2>3, PartsNext
<1> QED
  BY <1>3, <1>4, <1>5 DEF Edit

LEMMA SavedPage ==
  ASSUME NEW p \in Page, EditOK
  PROVE  Saved(p) \in Page /\ Saved(p).view = p.view
BY DEF Saved, Page, EditOK, Request

LEMMA ProceedFlow ==
  ASSUME RestOK, EditOK, NEW w \in View, Proceed(w)
  PROVE  EditOK' /\ submit' \in Flow
<1>1. submit \in Flow /\ submit.at \in Schedules /\ "draft" \in Texts
  BY DEF RestOK, Flow, Texts, Typed
<1>2. submit' \in Flow
  BY <1>1 DEF Proceed, Flow
<1>3. AskedSettings(w, submit.at) \/ edit' = NoEdit
  BY DEF Proceed
<1>4. EditOK'
  BY <1>1, <1>3, AskedRequest
<1> QED
  BY <1>2, <1>4

LEMMA SaveDoneStep == ASSUME IInv, SaveDone PROVE IInv'
<1>0. RowsOK /\ PageOK /\ EditOK /\ UndoOK /\ AiOK /\ RestOK /\ ReadOnce
  BY Parts
<1>1. edit.got \in View /\ edit.got.cur \in Versions /\ edit.got.cur \in 0..NumVersions
  BY <1>0, ReportsAssumption DEF EditOK, Request, SaveDone, Versions, View
<1>2. [page EXCEPT !.own = edit.got.cur] \in Page
      /\ [page EXCEPT !.own = edit.got.cur].view = page.view
  BY <1>0, <1>1 DEF PageOK, Page
<1>3. /\ Cached([page EXCEPT !.own = edit.got.cur], edit.got) \in Page
      /\ Cached([page EXCEPT !.own = edit.got.cur], edit.got).view.cur \in Versions
  BY <1>0, <1>1, <1>2, CachedPage DEF PageOK
<1>4. PageOK'
  BY <1>0, <1>3, SavedPage DEF SaveDone, PageOK
<1>5. EditOK' /\ RestOK'
  BY <1>0, <1>1, ProceedFlow DEF SaveDone, RestOK
<1> QED
  BY <1>0, <1>1, <1>2, <1>3, <1>4, <1>5, Stays, PartsNext DEF SaveDone

LEMMA SaveFailedStep == ASSUME IInv, SaveFailed PROVE IInv'
<1>0. RowsOK /\ PageOK /\ EditOK /\ UndoOK /\ AiOK /\ RestOK /\ ReadOnce
  BY Parts
<1>1. PageOK'
  BY <1>0 DEF SaveFailed, PageOK, Page
<1>2. EditOK'
  BY <1>0, Blank DEF SaveFailed, EditOK, NoEdit
<1>3. RestOK'
  BY <1>0, Blank DEF SaveFailed, RestOK
<1> QED
  BY <1>0, <1>1, <1>2, <1>3, Stays, PartsNext DEF SaveFailed

LEMMA SubmitStep == ASSUME IInv, Submit PROVE IInv'
<1>0. RowsOK /\ PageOK /\ EditOK /\ UndoOK /\ AiOK /\ RestOK /\ ReadOnce
  BY Parts
<1>1. page.view \in View /\ page.form \in Texts /\ page.at \in Schedules
      /\ page.dirty \in BOOLEAN /\ page.unsaved \in BOOLEAN
  BY <1>0 DEF PageOK, Page
<1>2. EditOK'
  BY <1>0, <1>1, AskedRequest DEF Submit, EditOK
<1>3. submit' \in Flow
  BY <1>1 DEF Submit, Flow
<1>4. RestOK'
  BY <1>0, <1>3 DEF Submit, RestOK
<1> QED
  BY <1>0, <1>1, <1>2, <1>3, <1>4, Stays, PartsNext DEF Submit

LEMMA ConfirmStep == ASSUME IInv, Confirm PROVE IInv'
<1>0. RowsOK /\ PageOK /\ EditOK /\ UndoOK /\ AiOK /\ RestOK /\ ReadOnce
  BY Parts
<1>1. PageOK' /\ EditOK' /\ UndoOK' /\ AiOK'
  BY Stays DEF Confirm
<1>2. CASE submit.view.conf = submit.view.cur
           /\ submit' = [submit EXCEPT !.pc = "queue"] /\ UNCHANGED <<report, active>>
  <2>1. RestOK'
    BY <1>0, <1>2 DEF Confirm, RestOK, Flow
  <2> QED
    BY <1>1, <1>2, <2>1, Stays, PartsNext DEF Confirm
<1>3. CASE /\ submit.view.conf # submit.view.cur /\ Unchanged(submit.view)
           /\ active' = active \union {report.cur}
           /\ report' = [report EXCEPT !.ver = @ + 1, !.conf = report.cur]
           /\ submit' = [submit EXCEPT !.pc = "queue", !.view = report']
  <2>1. report' \in View /\ report'.cur = report.cur /\ report'.conf = report.cur
        /\ report'.ver = report.ver + 1
    <3>1. report \in View /\ report' = [report EXCEPT !.ver = @ + 1, !.conf = report.cur]
      BY <1>0, <1>3 DEF RowsOK
    <3>2. report.cur \in 0..NumVersions /\ report.ver + 1 \in Nat
      BY <3>1 DEF View
    <3> QED
      BY <3>1, <3>2 DEF View
  <2>2. RowsOK'
    <3>1. active \subseteq {report.cur}
      BY <1>0, ReportsAssumption DEF RowsOK, Pointed, Versions
    <3> QED
      BY <1>0, <1>3, <2>1, <3>1 DEF Confirm, RowsOK, Pointed
  <2>3. RestOK'
    BY <1>0, <1>3, <2>1 DEF Confirm, RestOK, Flow
  <2>4. ReadOnce'
    BY <2>1, Stays DEF Confirm
  <2> QED
    BY <1>1, <2>2, <2>3, <2>4, PartsNext
<1>4. CASE submit' = NoFlow /\ UNCHANGED <<report, active>>
  <2>1. RestOK'
    BY <1>0, <1>4, Blank DEF Confirm, RestOK
  <2> QED
    BY <1>1, <1>4, <2>1, Stays, PartsNext DEF Confirm
<1> QED
  BY <1>2, <1>3, <1>4 DEF Confirm

LEMMA FileStep == ASSUME IInv, File PROVE IInv'
<1>0. RowsOK /\ PageOK /\ EditOK /\ UndoOK /\ AiOK /\ RestOK /\ ReadOnce
  BY Parts
<1>1. RestOK'
  BY <1>0, Blank DEF File, RestOK
<1> QED
  BY <1>0, <1>1, Stays, PartsNext DEF File

LEMMA UndoStep == ASSUME IInv, Undo PROVE IInv'
<1>0. RowsOK /\ PageOK /\ EditOK /\ UndoOK /\ AiOK /\ RestOK /\ ReadOnce
  BY Parts
<1>1. UndoOK'
  BY <1>0, ReportsAssumption DEF Undo, UndoOK, PageOK, Page, Versions
<1>2. RestOK'
  BY <1>0 DEF Undo, RestOK, Happens
<1> QED
  BY <1>0, <1>1, <1>2, Stays, PartsNext DEF Undo

LEMMA RestoreStep == ASSUME IInv, Restore PROVE IInv'
<1>0. RowsOK /\ PageOK /\ EditOK /\ UndoOK /\ AiOK /\ RestOK /\ ReadOnce
  BY Parts
<1>1. UndoOK'
  BY <1>0, Blank DEF Restore, UndoOK, NoUndo
<1>2. RestOK'
  BY <1>0 DEF Restore, RestOK
<1>3. CASE NoRow
  BY <1>1, <1>2, <1>3, Stays, PartsNext DEF Restore, NoRow
<1>4. CASE Put([version[undo.to] EXCEPT !.origin = "manual", !.base = 0], report.conf)
  <2>1. undo.to \in Versions
    BY <1>0 DEF Restore, UndoOK
  <2>2. /\ [version[undo.to] EXCEPT !.origin = "manual", !.base = 0] \in Row
        /\ [version[undo.to] EXCEPT !.origin = "manual", !.base = 0].origin = "manual"
    BY <1>0, <2>1, RestoredOf DEF RowsOK
  <2>3. RowsOK' /\ report'.ver = report.ver + 1
    <3> DEFINE row == [version[undo.to] EXCEPT !.origin = "manual", !.base = 0]
    <3> HIDE DEF row
    <3> QED
      BY <1>0, <1>4, <2>2, PutRow DEF row
  <2> QED
    BY <1>1, <1>2, <2>3, Stays, PartsNext DEF Restore
<1> QED
  BY <1>3, <1>4 DEF Restore

LEMMA UndoneStep == ASSUME IInv, Undone PROVE IInv'
<1>0. RowsOK /\ PageOK /\ EditOK /\ UndoOK /\ AiOK /\ RestOK /\ ReadOnce
  BY Parts
<1>1. PageOK'
  BY <1>0 DEF Undone, PageOK, Page
<1>2. UndoOK'
  BY <1>0, Blank DEF Undone, UndoOK, NoUndo
<1>3. RestOK'
  BY <1>0 DEF Undone, RestOK
<1> QED
  BY <1>0, <1>1, <1>2, <1>3, Stays, PartsNext DEF Undone

LEMMA OtherWindowStep == ASSUME IInv, OtherWindow PROVE IInv'
<1>0. RowsOK /\ PageOK /\ EditOK /\ UndoOK /\ AiOK /\ RestOK /\ ReadOnce
  BY Parts
<1>1. PICK t \in Typed : Put(Derived(t, version[report.cur].at), report.conf)
  BY DEF OtherWindow
<1>2. version[report.cur].at \in Schedules /\ t \in Texts /\ report.cur \in Versions
  BY <1>0, RowFields DEF RowsOK, Texts
<1>3. /\ Derived(t, version[report.cur].at) \in Row
      /\ Derived(t, version[report.cur].at).origin = "manual"
  BY <1>0, <1>2, ManualRow
<1>4. RowsOK' /\ report'.ver = report.ver + 1
  BY <1>0, <1>1, <1>3, PutRow
<1>5. RestOK'
  BY <1>0 DEF OtherWindow, RestOK, Happens
<1> QED
  BY <1>4, <1>5, Stays, PartsNext DEF OtherWindow

----------------------------------------------------------------------------
(* Drafts and suggestions *)

\* A step of one who asks, to anything but a refresh, with the row left alone or
\* its version used up.
LEMMA AskStep ==
  ASSUME IInv, NEW w \in Askers, NEW a \in Asking, Step(w, a), a.pc # "refresh",
         a.pc = "suggested" => a.gen \in Versions,
         RowsOK', RestOK', UNCHANGED <<page, edit, undo>>,
         report' = report \/ report'.ver = report.ver + 1
  PROVE  IInv'
<1>0. RowsOK /\ PageOK /\ EditOK /\ UndoOK /\ AiOK /\ RestOK /\ ReadOnce
  BY Parts
<1>1. AiOK' /\ (ai'["page"].pc = "refresh" => ai'["page"] = ai["page"])
  BY <1>0, Asks
<1>2. report.ver \in Nat /\ ai["page"].base.ver \in Nat
  BY <1>0 DEF RowsOK, AiOK, Asking, View, Askers
<1>3. ReadOnce'
  BY <1>0, <1>1, <1>2 DEF ReadOnce
<1> QED
  BY <1>1, <1>3, Stays, PartsNext

LEMMA DraftStartsStep == ASSUME IInv, DraftStarts PROVE IInv'
<1>0. RowsOK /\ PageOK /\ EditOK /\ UndoOK /\ AiOK /\ RestOK /\ ReadOnce
  BY Parts
<1>1. [NoAsking EXCEPT !.pc = "reading", !.facts = facts] \in Asking
  BY <1>0, Blank DEF Asking, RestOK
<1>2. [NoAsking EXCEPT !.pc = "reading", !.facts = facts].pc = "reading"
  BY DEF NoAsking
<1>3. RowsOK' /\ RestOK'
  BY <1>0, Stays DEF DraftStarts, NoRow, Elsewhere, RestOK
<1> QED
  BY <1>1, <1>2, <1>3, AskStep DEF DraftStarts, NoRow, Elsewhere, Askers

LEMMA DraftMadeStep == ASSUME IInv, DraftMade PROVE IInv'
<1>0. RowsOK /\ PageOK /\ EditOK /\ UndoOK /\ AiOK /\ RestOK /\ ReadOnce
  BY Parts
<1>1. RestOK' /\ UNCHANGED <<page, edit, undo>>
  BY <1>0 DEF DraftMade, Elsewhere, RestOK
<1>2. CASE NoRow /\ \E v \in Same :
                      Step("timer", [NoAsking EXCEPT !.pc = "based", !.base = [report EXCEPT !.cur = v]])
  <2>1. PICK v \in Same :
          Step("timer", [NoAsking EXCEPT !.pc = "based", !.base = [report EXCEPT !.cur = v]])
    BY <1>2
  <2>2. [report EXCEPT !.cur = v] \in View
    BY <1>0, ReportsAssumption DEF RowsOK, View, Same, Versions
  <2>3. [NoAsking EXCEPT !.pc = "based", !.base = [report EXCEPT !.cur = v]] \in Asking
        /\ [NoAsking EXCEPT !.pc = "based", !.base = [report EXCEPT !.cur = v]].pc = "based"
    <3> DEFINE b == [report EXCEPT !.cur = v]
    <3> HIDE DEF b
    <3> QED
      BY <2>2, Blank DEF Asking, NoAsking, b
  <2>4. RowsOK'
    BY <1>2, Stays DEF NoRow
  <2> QED
    BY <1>1, <1>2, <2>1, <2>3, <2>4, AskStep DEF NoRow, Askers
<1>3. CASE /\ Put([text |-> "draft", at |-> "none", origin |-> "rule", base |-> 0,
                   facts |-> ai["timer"].facts, hash |-> "sources"], report.conf)
           /\ Step("timer", [NoAsking EXCEPT !.pc = "based", !.base = report'])
  <2> DEFINE row == [text |-> "draft", at |-> "none", origin |-> "rule", base |-> 0,
                     facts |-> ai["timer"].facts, hash |-> "sources"]
  <2>1. row \in Row /\ row.origin = "rule"
    BY <1>0, ReportsAssumption
    DEF AiOK, Askers, Asking, Row, Texts, Typed, Schedules, Origins, Hashes
  <2>2. RowsOK' /\ report' \in View /\ report'.ver = report.ver + 1
    <3> HIDE DEF row
    <3> QED
      BY <1>0, <1>3, <2>1, PutRow DEF row
  <2>3. [NoAsking EXCEPT !.pc = "based", !.base = report'] \in Asking
        /\ [NoAsking EXCEPT !.pc = "based", !.base = report'].pc = "based"
    BY <2>2, Blank DEF Asking, NoAsking
  <2> HIDE DEF row
  <2> QED
    BY <1>1, <1>3, <2>2, <2>3, AskStep DEF Askers
<1> QED
  BY <1>2, <1>3 DEF DraftMade

LEMMA AskedStep == ASSUME IInv, Ask PROVE IInv'
<1>0. RowsOK /\ PageOK /\ EditOK /\ UndoOK /\ AiOK /\ RestOK /\ ReadOnce
  BY Parts
<1>1. RowsOK' /\ RestOK' /\ UNCHANGED <<page, edit, undo, report>>
  BY <1>0, Stays DEF Ask, NoRow, RestOK, Happens
<1>2. CASE UNCHANGED ai
  BY <1>1, <1>2, Stays, PartsNext
<1>3. CASE Step("page", [NoAsking EXCEPT !.pc = "refresh", !.base = report, !.facts = facts])
  <2>1. /\ [NoAsking EXCEPT !.pc = "refresh", !.base = report, !.facts = facts] \in Asking
        /\ [NoAsking EXCEPT !.pc = "refresh", !.base = report, !.facts = facts].pc = "refresh"
        /\ [NoAsking EXCEPT !.pc = "refresh", !.base = report, !.facts = facts].base = report
    BY <1>0, Blank DEF Asking, NoAsking, RowsOK, RestOK
  <2> DEFINE a == [NoAsking EXCEPT !.pc = "refresh", !.base = report, !.facts = facts]
  <2> HIDE DEF a
  <2>2. a \in Asking /\ a.pc = "refresh" /\ a.base = report
    BY <2>1 DEF a
  <2>3. AiOK' /\ ai'["page"] = a
    BY <1>0, <1>3, <2>2 DEF AiOK, Step, Askers, RowsOK, a
  <2>4. ReadOnce'
    BY <1>0, <1>1, <2>2, <2>3 DEF ReadOnce, RowsOK, View
  <2> QED
    BY <1>1, <2>3, <2>4, Stays, PartsNext
<1> QED
  BY <1>2, <1>3 DEF Ask

\* The confirmation that was read before is the active one, since the row is
\* still as it was.
LEMMA RefreshStep == ASSUME IInv, Refresh PROVE IInv'
<1>0. RowsOK /\ PageOK /\ EditOK /\ UndoOK /\ AiOK /\ RestOK /\ ReadOnce
  BY Parts
<1> DEFINE a == ai["page"]
<1>1. a \in Asking /\ a.pc = "refresh" /\ a.base.cur \in Versions /\ "page" \in Askers
  BY <1>0 DEF Refresh, AskerAt, AiOK, Askers
<1>2. RestOK' /\ UNCHANGED <<page, edit, undo>>
  BY <1>0 DEF Refresh, Elsewhere, RestOK
<1>3. CASE NoRow /\ Step("page", [a EXCEPT !.pc = "based", !.facts = 0])
  <2>1. [a EXCEPT !.pc = "based", !.facts = 0] \in Asking
        /\ [a EXCEPT !.pc = "based", !.facts = 0].pc = "based"
    BY <1>1 DEF Asking
  <2>2. RowsOK'
    BY <1>3, Stays DEF NoRow
  <2> QED
    BY <1>1, <1>2, <1>3, <2>1, <2>2, AskStep DEF NoRow
<1>4. CASE NoRow /\ Step("page", NoAsking)
  <2>1. RowsOK' /\ NoAsking.pc = "idle"
    BY <1>4, Stays DEF NoRow, NoAsking
  <2> QED
    BY <1>1, <1>2, <1>4, <2>1, Blank, AskStep DEF NoRow
<1>5. CASE /\ Unchanged(a.base)
           /\ Put([version[a.base.cur] EXCEPT !.origin = "manual", !.facts = a.facts, !.hash = "sources"], a.base.conf)
           /\ Step("page", [NoAsking EXCEPT !.pc = "based", !.base = report'])
  <2> DEFINE row == [version[a.base.cur] EXCEPT !.origin = "manual", !.facts = a.facts, !.hash = "sources"]
  <2>1. row \in Row /\ row.origin = "manual"
    <3>1. version[a.base.cur] \in Row /\ a.facts \in {0, 1}
      BY <1>0, <1>1 DEF RowsOK, Asking
    <3> QED
      BY <3>1 DEF Row, Origins, Hashes
  <2>2. a.base.conf = report.conf
    BY <1>0, <1>1, <1>5 DEF ReadOnce, Unchanged
  <2>3. RowsOK' /\ report' \in View /\ report'.ver = report.ver + 1
    <3> HIDE DEF row
    <3> QED
      BY <1>0, <1>5, <2>1, <2>2, PutRow DEF row
  <2>4. [NoAsking EXCEPT !.pc = "based", !.base = report'] \in Asking
        /\ [NoAsking EXCEPT !.pc = "based", !.base = report'].pc = "based"
    BY <2>3, Blank DEF Asking, NoAsking
  <2> HIDE DEF row
  <2> QED
    BY <1>1, <1>2, <1>5, <2>3, <2>4, AskStep
<1> QED
  BY <1>3, <1>4, <1>5 DEF Refresh

LEMMA GenerateStep == ASSUME IInv, Generate PROVE IInv'
<1>0. RowsOK /\ PageOK /\ EditOK /\ UndoOK /\ AiOK /\ RestOK /\ ReadOnce
  BY Parts
<1>1. RowsOK' /\ RestOK' /\ UNCHANGED <<page, edit, undo, report>>
  BY <1>0, Stays DEF Generate, NoRow, Elsewhere, RestOK
<1>2. PICK w \in Askers : Step(w, [ai[w] EXCEPT !.pc = "asked"]) \/ Step(w, NoAsking)
  BY DEF Generate
<1>3. /\ [ai[w] EXCEPT !.pc = "asked"] \in Asking
      /\ [ai[w] EXCEPT !.pc = "asked"].pc = "asked"
  BY <1>0 DEF AiOK, Asking
<1>4. NoAsking.pc = "idle"
  BY DEF NoAsking
<1> QED
  BY <1>1, <1>2, <1>3, <1>4, Blank, AskStep

LEMMA GenerateFailsStep == ASSUME IInv, GenerateFails PROVE IInv'
<1>0. RowsOK /\ PageOK /\ EditOK /\ UndoOK /\ AiOK /\ RestOK /\ ReadOnce
  BY Parts
<1>1. RowsOK' /\ RestOK' /\ UNCHANGED <<page, edit, undo, report>>
  BY <1>0, Stays DEF GenerateFails, NoRow, Elsewhere, RestOK
<1>2. PICK w \in Askers : Step(w, NoAsking)
  BY DEF GenerateFails
<1>3. NoAsking.pc = "idle"
  BY DEF NoAsking
<1> QED
  BY <1>1, <1>2, <1>3, Blank, AskStep

LEMMA PersistStep == ASSUME IInv, Persist PROVE IInv'
<1>0. RowsOK /\ PageOK /\ EditOK /\ UndoOK /\ AiOK /\ RestOK /\ ReadOnce
  BY Parts
<1>1. PICK w \in Askers :
        /\ UNCHANGED <<page, edit, undo, submit, facts, budget>>
        /\ \/ NoRow /\ Step(w, NoAsking) /\ UNCHANGED pending
           \/ /\ report' = [report EXCEPT !.ver = @ + 1]
              /\ today' = TRUE /\ UNCHANGED active
              /\ \E v \in Versions :
                   /\ First(v)
                   /\ version' = [version EXCEPT ![v] =
                        [version[report.cur] EXCEPT !.origin = "ai", !.text = "suggested",
                                                    !.base = report.cur, !.hash = "snapshot"]]
                   /\ pending' = pending \union {v}
                   /\ Step(w, [ai[w] EXCEPT !.pc = "suggested", !.gen = v,
                                  !.base = IF w = "page" THEN report' ELSE ai[w].base])
  BY DEF Persist
<1>2. CASE NoRow /\ Step(w, NoAsking) /\ UNCHANGED pending
  <2>1. RowsOK' /\ RestOK' /\ NoAsking.pc = "idle"
    BY <1>0, <1>1, <1>2, Stays DEF NoRow, RestOK, NoAsking
  <2> QED
    BY <1>1, <1>2, <2>1, Blank, AskStep DEF NoRow
<1>3. CASE ~(NoRow /\ Step(w, NoAsking) /\ UNCHANGED pending)
  <2>1. PICK v \in Versions :
          /\ First(v)
          /\ version' = [version EXCEPT ![v] =
               [version[report.cur] EXCEPT !.origin = "ai", !.text = "suggested",
                                           !.base = report.cur, !.hash = "snapshot"]]
          /\ pending' = pending \union {v}
          /\ Step(w, [ai[w] EXCEPT !.pc = "suggested", !.gen = v,
                         !.base = IF w = "page" THEN report' ELSE ai[w].base])
    BY <1>1, <1>3
  <2>2. /\ report' = [report EXCEPT !.ver = @ + 1]
        /\ today' = TRUE /\ active' = active
    BY <1>1, <1>3
  <2>3. report' \in View /\ report'.cur = report.cur /\ report'.conf = report.conf
        /\ report'.ver = report.ver + 1
    BY <1>0, <2>2 DEF RowsOK, View
  <2>4. v # report.cur
    BY <1>0, <2>1 DEF First, Free, RowsOK
  <2>5. version' \in [Versions -> Row] /\ version'[report.cur] = version[report.cur]
    <3>1. version[report.cur] \in Row /\ report.cur \in 0..NumVersions
      BY <1>0 DEF RowsOK, View
    <3>2. [version[report.cur] EXCEPT !.origin = "ai", !.text = "suggested", !.base = report.cur, !.hash = "snapshot"]
            \in Row
      BY <3>1 DEF Row, Texts, Origins, Hashes
    <3> QED
      BY <1>0, <2>1, <2>4, <3>2 DEF RowsOK
  <2>6. RowsOK'
    BY <1>0, <2>2, <2>3, <2>5 DEF RowsOK, Pointed
  <2>7. RestOK'
    BY <1>0, <1>1, <2>1 DEF RestOK
  <2>8. (IF w = "page" THEN report' ELSE ai[w].base) \in View /\ v \in 0..NumVersions
    BY <1>0, <2>3, ReportsAssumption DEF AiOK, Asking, Versions
  <2> DEFINE b == IF w = "page" THEN report' ELSE ai[w].base
             a == [ai[w] EXCEPT !.pc = "suggested", !.gen = v, !.base = b]
  <2>9. a \in Asking /\ a.pc = "suggested" /\ a.gen = v
    <3> HIDE DEF b
    <3>1. b \in View
      BY <2>8 DEF b
    <3> QED
      BY <1>0, <2>8, <3>1 DEF AiOK, Asking
  <2>10. Step(w, a)
    BY <2>1
  <2> HIDE DEF a
  <2> QED
    BY <1>1, <2>3, <2>6, <2>7, <2>9, <2>10, AskStep
<1> QED
  BY <1>2, <1>3

\* Adopting a suggestion, whoever does it.
LEMMA AdoptedRow ==
  ASSUME IInv, NEW g, NEW b, Adopted(g, b)
  PROVE  RowsOK' /\ report'.ver = report.ver + 1 /\ pending' \subseteq Versions
<1>0. RowsOK /\ PageOK /\ EditOK /\ UndoOK /\ AiOK /\ RestOK /\ ReadOnce
  BY Parts
<1>1. g \in Versions
  BY <1>0 DEF Adopted, Adoptable, RestOK
<1> DEFINE row == [version[g] EXCEPT !.origin = "manual", !.base = 0]
<1>2. row \in Row /\ row.origin = "manual"
  BY <1>0, <1>1, RestoredOf DEF RowsOK
<1>3. Put(row, report.conf)
  BY DEF Adopted
<1> HIDE DEF row
<1> QED
  BY <1>0, <1>2, <1>3, PutRow DEF Adopted, RestOK

LEMMA FillStep == ASSUME IInv, Fill PROVE IInv'
<1>0. RowsOK /\ PageOK /\ EditOK /\ UndoOK /\ AiOK /\ RestOK /\ ReadOnce
  BY Parts
<1>1. PICK w \in Askers :
        /\ \/ Adopted(ai[w].gen, ai[w].base)
           \/ NoRow /\ UNCHANGED pending
        /\ Step(w, NoAsking)
        /\ UNCHANGED <<page, edit, undo, submit, facts, budget>>
  BY DEF Fill
<1>2. RowsOK' /\ pending' \subseteq Versions
      /\ (report' = report \/ report'.ver = report.ver + 1)
  BY <1>0, <1>1, AdoptedRow, Stays DEF NoRow, RestOK
<1>3. RestOK'
  BY <1>0, <1>1, <1>2 DEF RestOK
<1>4. NoAsking.pc = "idle"
  BY DEF NoAsking
<1> QED
  BY <1>1, <1>2, <1>3, <1>4, Blank, AskStep

LEMMA KeepStep == ASSUME IInv, Keep PROVE IInv'
<1>0. RowsOK /\ PageOK /\ EditOK /\ UndoOK /\ AiOK /\ RestOK /\ ReadOnce
  BY Parts
<1>1. RowsOK' /\ RestOK' /\ UNCHANGED <<page, edit, undo, report>>
  BY <1>0, Stays DEF Keep, NoRow, Elsewhere, RestOK
<1>2. NoAsking.pc = "idle" /\ "page" \in Askers /\ Step("page", NoAsking)
  BY DEF NoAsking, Askers, Keep
<1> QED
  BY <1>1, <1>2, Blank, AskStep

LEMMA AdoptStep == ASSUME IInv, Adopt PROVE IInv'
<1>0. RowsOK /\ PageOK /\ EditOK /\ UndoOK /\ AiOK /\ RestOK /\ ReadOnce
  BY Parts
<1>1. PICK g \in Versions : Adopted(g, page.view)
  BY DEF Adopt
<1>2. RowsOK' /\ report'.ver = report.ver + 1 /\ pending' \subseteq Versions
  BY <1>1, AdoptedRow
<1>3. RestOK'
  BY <1>0, <1>2 DEF Adopt, RestOK
<1> QED
  BY <1>2, <1>3, Stays, PartsNext DEF Adopt

LEMMA RejectStep == ASSUME IInv, Reject PROVE IInv'
<1>0. RowsOK /\ PageOK /\ EditOK /\ UndoOK /\ AiOK /\ RestOK /\ ReadOnce
  BY Parts
<1>1. RestOK'
  BY <1>0 DEF Reject, RestOK
<1> QED
  BY <1>1, Stays, PartsNext DEF Reject, NoRow

----------------------------------------------------------------------------

LEMMA Initially == Init => IInv
<1> SUFFICES ASSUME Init PROVE IInv
  OBVIOUS
<1> USE ReportsAssumption
<1>1. report = [cur |-> 1, ver |-> 1, conf |-> 0] /\ report \in View /\ report.cur = 1
      /\ 1 \in Versions /\ report.conf = 0
  BY DEF Init, View, Versions
<1>2. RowsOK
  <2>1. Unused \in Row /\ [Unused EXCEPT !.origin = "rule"] \in Row
        /\ [Unused EXCEPT !.origin = "rule"].origin = "rule"
    BY Blank DEF Row, Origins, Hashes
  <2>2. version \in [Versions -> Row] /\ version[1].origin = "rule"
    BY <1>1, <2>1 DEF Init
  <2> QED
    BY <1>1, <2>2 DEF Init, RowsOK, Pointed
<1>3. PageOK
  BY <1>1 DEF Init, PageOK, Page, Texts, Typed, Schedules
<1>4. EditOK /\ UndoOK
  BY Blank DEF Init, EditOK, UndoOK, NoEdit, NoUndo
<1>5. AiOK /\ ReadOnce
  BY Blank DEF Init, AiOK, ReadOnce, NoAsking, Askers
<1>6. RestOK
  BY Blank DEF Init, RestOK
<1> QED
  BY <1>2, <1>3, <1>4, <1>5, <1>6, Parts

LEMMA Inductive == IInv /\ [Next]_vars => IInv'
<1> SUFFICES ASSUME IInv, [Next]_vars PROVE IInv'
  OBVIOUS
<1>1. CASE UNCHANGED vars
  BY <1>1, Parts, Stays, PartsNext DEF vars, RestOK
<1>2. CASE Type \/ Refetch \/ Leave \/ Return
  BY <1>2, TypeStep, RefetchStep, LeaveStep, ReturnStep
<1>3. CASE Save \/ Schedule \/ Edit \/ Lose \/ SaveDone \/ SaveFailed
  BY <1>3, SaveStep, ScheduleStep, EditStep, LoseStep, SaveDoneStep, SaveFailedStep
<1>4. CASE Submit \/ Confirm \/ File \/ Undo \/ Restore \/ Undone \/ OtherWindow
  BY <1>4, SubmitStep, ConfirmStep, FileStep, UndoStep, RestoreStep, UndoneStep, OtherWindowStep
<1>5. CASE DraftStarts \/ DraftMade \/ Ask \/ Refresh \/ Generate \/ GenerateFails
  BY <1>5, DraftStartsStep, DraftMadeStep, AskedStep, RefreshStep, GenerateStep,
     GenerateFailsStep
<1>6. CASE Persist \/ Fill \/ Keep \/ Adopt \/ Reject
  BY <1>6, PersistStep, FillStep, KeepStep, AdoptStep, RejectStep
<1> QED
  BY <1>1, <1>2, <1>3, <1>4, <1>5, <1>6 DEF Next

\* The invariant that carries the others: the row names the active confirmation,
\* and the row version tells a refresh whether what it has read still holds.
THEOREM ReportInvariant == Spec => []IInv
BY Initially, Inductive, PTL DEF Spec

\* Every reachable state has the types Reports declares; in particular a
\* suggestion never becomes the current version itself (weekly-report-ai.service.ts).
THEOREM TypeCorrect == Spec => []TypeOK
<1>1. IInv => TypeOK
  BY DEF IInv
<1> QED
  BY <1>1, ReportInvariant, PTL

\* Whatever is saved, restored, drafted, refreshed or adopted in whatever order,
\* the active confirmation is that of the current version.
THEOREM ConfirmedIsCurrent == Spec => []ConfirmationIsCurrent
<1>1. IInv => ConfirmationIsCurrent
  <2> SUFFICES ASSUME IInv, NEW v \in active PROVE report.cur = v /\ report.conf = v
    BY DEF ConfirmationIsCurrent
  <2>1. v = report.conf /\ v # 0
    BY ReportsAssumption DEF IInv, Pointed, TypeOK, Versions
  <2> QED
    BY <2>1 DEF IInv, Pointed
<1> QED
  BY <1>1, ReportInvariant, PTL

----------------------------------------------------------------------------
(* What the page submits is what it showed *)

\* Versions are kept as they are, and a new current version is a new one.
Grown ==
  /\ \A v \in Seen : version'[v] = version[v]
  /\ report'.cur = report.cur \/ report'.cur \notin Seen

LEMMA SeenStays ==
  ASSUME Grown
  PROVE  Seen \subseteq Seen'
BY DEF Grown, Seen

LEMMA RowStays == ASSUME NoRow PROVE Grown
BY DEF NoRow, Grown

\* A new version, current or not, is none that has been seen.
LEMMA FreeGrows ==
  ASSUME RowsOK, NEW v \in Versions, First(v), NEW row,
         version' = [version EXCEPT ![v] = row],
         report'.cur \in {report.cur, v}
  PROVE  Grown
<1>1. v \notin Seen
  BY DEF First, Free, Seen
<1>2. version \in [Versions -> Row] /\ Seen \subseteq Versions
  BY DEF RowsOK, Seen
<1> QED
  BY <1>1, <1>2 DEF Grown

LEMMA PutGrows ==
  ASSUME RowsOK, NEW row, row.origin # "unused", NEW c, Put(row, c)
  PROVE  /\ Grown
         /\ report'.cur \in Seen' /\ report'.cur \notin Seen
         /\ version'[report'.cur] = row
<1>1. PICK v \in Versions :
        /\ First(v)
        /\ version' = [version EXCEPT ![v] = row]
        /\ report' = [cur |-> v, ver |-> report.ver + 1, conf |-> 0]
  BY DEF Put
<1>2. report'.cur = v
  BY <1>1
<1>3. Grown
  BY <1>1, <1>2, FreeGrows
<1>4. v \notin Seen
  BY <1>1 DEF First, Free, Seen
<1>5. version'[v] = row /\ v \in Seen'
  BY <1>1 DEF RowsOK, Seen
<1> QED
  BY <1>2, <1>3, <1>4, <1>5

LEMMA CurrentSeen == ASSUME RowsOK PROVE report.cur \in Seen /\ 0 \notin Seen
BY ReportsAssumption DEF RowsOK, Seen, Versions

Counts(b) == b.strays = budget.strays

LEMMA HappensCounts == ASSUME RestOK, Happens \/ UNCHANGED budget PROVE Counts(budget')
BY DEF RestOK, Happens, Counts

\* What is done to the report outside the page keeps the invariant.
LEMMA OutsideThePage ==
  ASSUME ShowInv, Grown, UNCHANGED <<page, edit, undo, submit>>, Counts(budget')
  PROVE  ShowInv'
<1>1. Seen \subseteq Seen' /\ \A v \in Seen : version'[v] = version[v]
  BY SeenStays DEF Grown
<1>2. PageKnows'
  BY <1>1 DEF ShowInv, PageKnows, Grown
<1>3. SentTells'
  BY <1>1 DEF ShowInv, SentTells, Grown
<1>4. DoneTells'
  BY <1>1 DEF ShowInv, DoneTells, PageKnows, Grown
<1>5. UndoTells'
  BY <1>1 DEF ShowInv, UndoTells, PageKnows, SentTells, DoneTells, Grown
<1>6. FormTells'
  BY <1>1 DEF ShowInv, FormTells, Latest, PageKnows, DoneTells, Grown
<1>7. FlowTells'
  BY <1>1 DEF ShowInv, FlowTells, SentTells, DoneTells, Grown
<1> QED
  BY <1>2, <1>3, <1>4, <1>5, <1>6, <1>7 DEF ShowInv, Counts

LEMMA TypeShows == ASSUME IInv, ShowInv, Type PROVE ShowInv'
<1>1. PICK t \in Typed : page' = [page EXCEPT !.form = t, !.dirty = TRUE]
  BY DEF Type
<1>2. page \in Page
  BY DEF IInv, TypeOK
<1>3. /\ page'.view = page.view /\ page'.at = page.at /\ page'.unsaved = page.unsaved
      /\ page'.own = page.own /\ page'.away = page.away /\ page'.dirty = TRUE
  BY <1>1, <1>2 DEF Page
<1>4. UNCHANGED <<report, version, edit, undo, submit, budget>> /\ Seen' = Seen
  BY DEF Type, Seen
<1>5. FormTells'
  BY <1>3, <1>4 DEF ShowInv, FormTells, Latest
<1>6. PageKnows' /\ SentTells' /\ DoneTells' /\ UndoTells'
  BY <1>3, <1>4 DEF ShowInv, PageKnows, SentTells, DoneTells, UndoTells
<1>7. FlowTells'
  BY <1>3, <1>4 DEF ShowInv, FlowTells
<1> QED
  BY <1>4, <1>5, <1>6, <1>7 DEF ShowInv

\* The report is read again: what is then shown is current.
LEMMA RefetchShows == ASSUME IInv, ShowInv, Refetch PROVE ShowInv'
<1>0. RowsOK /\ PageOK /\ report.cur \in Seen /\ 0 \notin Seen
  BY Parts, CurrentSeen
<1>1. UNCHANGED <<report, version, edit, undo, submit, budget>> /\ Seen' = Seen
  BY DEF Refetch, Strays, ShowInv, Seen
<1>2. report.cur = page.view.cur \/ (edit.pc # "done" /\ undo.pc # "done")
  BY DEF Refetch, Strays, ShowInv
<1>3. CASE page.away \/ report.cur = page.view.cur
  <2>1. page' = [page EXCEPT !.view = report]
    BY <1>3 DEF Refetch, Cached
  <2>2. /\ page'.view = report /\ page'.at = page.at /\ page'.unsaved = page.unsaved
        /\ page'.own = page.own /\ page'.away = page.away /\ page'.dirty = page.dirty
        /\ page'.form = page.form
    BY <2>1, <1>0 DEF PageOK, Page
  <2>3. FormTells'
    BY <1>1, <1>3, <2>2 DEF ShowInv, FormTells, Latest
  <2>4. PageKnows' /\ SentTells'
    BY <1>0, <1>1, <1>3, <2>2 DEF ShowInv, PageKnows, SentTells
  <2>5. DoneTells' /\ UndoTells'
    BY <1>1, <1>2, <1>3, <2>2 DEF ShowInv, PageKnows, DoneTells, UndoTells
  <2>6. FlowTells'
    BY <1>1, <1>3, <2>2 DEF ShowInv, FlowTells
  <2> QED
    BY <1>1, <2>3, <2>4, <2>5, <2>6 DEF ShowInv
<1>4. CASE ~page.away /\ report.cur # page.view.cur
  <2>1. page' = Shown(page, report) /\ page.own # report.cur
    BY <1>0, <1>4 DEF Refetch, Cached, ShowInv, PageKnows
  <2>2. /\ page'.view = report /\ page'.at = version[report.cur].at /\ page'.unsaved = FALSE
        /\ page'.own = page.own /\ page'.away = page.away /\ page'.dirty = FALSE
        /\ page'.form = version[report.cur].text
    BY <2>1, <1>0 DEF Shown, PageOK, Page
  <2>3. edit.pc # "done" /\ undo.pc # "done"
    BY <1>2, <1>4
  <2>4. FormTells'
    BY <1>1, <2>2, <2>3 DEF FormTells, Latest
  <2>5. PageKnows'
    BY <1>0, <1>1, <1>4, <2>2 DEF ShowInv, PageKnows
  <2>6. SentTells' /\ DoneTells' /\ UndoTells'
    BY <1>1, <1>4, <2>2, <2>3 DEF ShowInv, SentTells, DoneTells, UndoTells
  <2>7. FlowTells'
    BY <1>1, <1>4, <2>2, <2>3 DEF ShowInv, FlowTells, SentTells
  <2> QED
    BY <1>1, <2>4, <2>5, <2>6, <2>7 DEF ShowInv
<1> QED
  BY <1>3, <1>4

LEMMA LeaveShows == ASSUME IInv, ShowInv, Leave PROVE ShowInv'
<1>1. page \in Page
  BY DEF IInv, TypeOK
<1>2. page' = [page EXCEPT !.away = TRUE, !.form = "elsewhere", !.dirty = FALSE,
                           !.at = "none", !.unsaved = FALSE]
  BY DEF Leave
<1>3. page'.view = page.view /\ page'.own = page.own /\ page'.away = TRUE
  BY <1>1, <1>2 DEF Page
<1>4. UNCHANGED <<report, version, edit, undo, submit, budget>> /\ Seen' = Seen /\ page.own = 0
  BY DEF Leave, Strays, ShowInv, Seen
<1>5. edit.pc = "idle" /\ submit.pc = "idle"
  BY DEF Leave
<1>6. FormTells' /\ PageKnows'
  BY <1>3, <1>4, <1>5 DEF ShowInv, FormTells, PageKnows
<1>7. SentTells' /\ DoneTells' /\ UndoTells' /\ FlowTells'
  BY <1>3, <1>4, <1>5 DEF ShowInv, SentTells, DoneTells, UndoTells, FlowTells
<1> QED
  BY <1>4, <1>6, <1>7 DEF ShowInv

LEMMA ReturnShows == ASSUME IInv, ShowInv, Return PROVE ShowInv'
<1>0. PageOK /\ 0 \notin Seen
  BY Parts, CurrentSeen
<1>1. page.own = 0 /\ edit.pc = "idle" /\ submit.pc = "idle" /\ page.view.cur \in Seen
  BY DEF Return, ShowInv, PageKnows
<1>2. UNCHANGED <<report, version, edit, undo, submit, budget>> /\ Seen' = Seen
  BY DEF Return, Seen
<1>3. page' = Shown([page EXCEPT !.away = FALSE], page.view)
  BY DEF Return
<1>4. [page EXCEPT !.away = FALSE] \in Page /\ [page EXCEPT !.away = FALSE].own = 0
      /\ [page EXCEPT !.away = FALSE].away = FALSE
  BY <1>0, <1>1 DEF PageOK, Page
<1> DEFINE p == [page EXCEPT !.away = FALSE]
<1>5. /\ page'.view = page.view /\ page'.at = version[page.view.cur].at
      /\ page'.own = 0 /\ page'.form = version[page.view.cur].text
  <2>1. p \in Page /\ p.own = 0
    BY <1>4
  <2>2. page' = Shown(p, page.view)
    BY <1>3
  <2> HIDE DEF p
  <2> QED
    BY <1>0, <1>1, <2>1, <2>2 DEF Shown, Page
<1>6. FormTells' /\ PageKnows'
  BY <1>1, <1>2, <1>5 DEF FormTells, PageKnows, Latest
<1>7. SentTells' /\ DoneTells' /\ UndoTells' /\ FlowTells'
  BY <1>1, <1>2, <1>5 DEF ShowInv, SentTells, DoneTells, UndoTells, FlowTells
<1> QED
  BY <1>2, <1>6, <1>7 DEF ShowInv

LEMMA SaveShows == ASSUME IInv, ShowInv, Save PROVE ShowInv'
<1>1. UNCHANGED <<report, version, page, undo, submit, budget>> /\ Seen' = Seen
  BY DEF Save, Seen
<1>2. edit'.pc = "sent" /\ edit'.kind = "text" /\ edit'.base = page.view /\ edit.pc = "idle"
  BY DEF Save, Asked, NoEdit
<1>3. submit.pc \notin {"text", "settings"}
  BY <1>2 DEF ShowInv, FlowTells
<1>4. FormTells' /\ PageKnows'
  BY <1>1, <1>2 DEF ShowInv, FormTells, PageKnows, Latest, Save
<1>5. SentTells' /\ DoneTells' /\ UndoTells'
  BY <1>1, <1>2 DEF ShowInv, PageKnows, SentTells, DoneTells, UndoTells
<1>6. FlowTells'
  BY <1>1, <1>2, <1>3 DEF ShowInv, FlowTells
<1> QED
  BY <1>1, <1>4, <1>5, <1>6 DEF ShowInv

LEMMA ScheduleShows == ASSUME IInv, ShowInv, Schedule PROVE ShowInv'
<1>0. RestOK /\ PageOK
  BY Parts
<1>1. PICK s \in Schedules : /\ page' = [page EXCEPT !.at = s, !.unsaved = TRUE]
                             /\ AskedSettings(page.view, s)
                             /\ Happens \/ UNCHANGED budget
  BY DEF Schedule
<1>2. UNCHANGED <<report, version, undo, submit>> /\ Seen' = Seen /\ budget'.strays = 0
  BY <1>0, <1>1, HappensCounts DEF Schedule, Seen, ShowInv, Counts
<1>3. /\ edit'.pc = "sent" /\ edit'.kind = "settings" /\ edit'.base = page.view /\ edit'.at = s
      /\ edit.pc = "idle" /\ submit.pc = "idle" /\ ~page.away
  BY <1>1 DEF Schedule, AskedSettings, NoEdit
<1>4. /\ page'.view = page.view /\ page'.at = s /\ page'.unsaved = TRUE
      /\ page'.own = page.own /\ page'.away = page.away /\ page'.dirty = page.dirty
      /\ page'.form = page.form
  BY <1>0, <1>1 DEF PageOK, Page
<1>5. FormTells' /\ PageKnows'
  BY <1>2, <1>3, <1>4 DEF ShowInv, FormTells, PageKnows, Latest
<1>6. SentTells' /\ DoneTells' /\ UndoTells'
  BY <1>2, <1>3, <1>4 DEF ShowInv, PageKnows, SentTells, DoneTells, UndoTells
<1>7. FlowTells'
  BY <1>2, <1>3 DEF FlowTells
<1> QED
  BY <1>2, <1>5, <1>6, <1>7 DEF ShowInv

\* An edit is made of the current version, which is then the one the page shows.
LEMMA EditShows == ASSUME IInv, ShowInv, Edit PROVE ShowInv'
<1>0. RowsOK /\ PageOK /\ EditOK /\ report.cur \in Seen
  BY Parts, CurrentSeen
<1>1. UNCHANGED <<page, undo, submit, budget>> /\ edit.pc = "sent" /\ ~page.away
  BY DEF Edit, ShowInv, PageKnows
<1> DEFINE row == IF edit.kind = "text" THEN Derived(edit.text, version[report.cur].at)
                  ELSE Derived(version[report.cur].text, edit.at)
<1>2. CASE NoRow /\ edit' = [NoEdit EXCEPT !.pc = "refused", !.kind = edit.kind]
  <2>1. UNCHANGED <<report, version>> /\ Seen' = Seen
    BY <1>2 DEF NoRow, Seen
  <2>2. edit'.pc = "refused" /\ edit'.kind = edit.kind
    BY <1>2 DEF NoEdit
  <2>3. FormTells' /\ PageKnows' /\ SentTells' /\ DoneTells' /\ UndoTells'
    BY <1>1, <2>1, <2>2
    DEF ShowInv, FormTells, PageKnows, SentTells, DoneTells, UndoTells, Latest
  <2>4. FlowTells'
    BY <1>1, <2>1, <2>2 DEF ShowInv, FlowTells
  <2> QED
    BY <1>1, <2>3, <2>4 DEF ShowInv
<1>3. CASE ~(NoRow /\ edit' = [NoEdit EXCEPT !.pc = "refused", !.kind = edit.kind])
  <2>1. Unchanged(edit.base)
    BY <1>3 DEF Edit
  <2>2. edit.base.cur = report.cur /\ page.view.cur = report.cur /\ undo.pc # "done"
    BY <1>1, <2>1 DEF Unchanged, ShowInv, SentTells, UndoTells
  <2>3. edit' = [edit EXCEPT !.pc = "done", !.base = Unread, !.got = report']
    BY <1>3 DEF Edit, NoRow
  <2>4. /\ edit'.pc = "done" /\ edit'.kind = edit.kind /\ edit'.text = edit.text
        /\ edit'.at = edit.at /\ edit'.got = report'
    BY <1>0, <2>3 DEF EditOK, Request
  <2>5. row.text = (IF edit.kind = "text" THEN edit.text ELSE version[report.cur].text)
        /\ row.at = (IF edit.kind = "text" THEN version[report.cur].at ELSE edit.at)
        /\ row.origin = "manual"
    BY <1>0 DEF Derived, RowsOK, Row
  <2>6. /\ Grown /\ report'.cur \in Seen' /\ Seen \subseteq Seen'
        /\ version'[report'.cur].text = row.text /\ version'[report'.cur].at = row.at
        /\ version'[page.view.cur] = version[page.view.cur]
    <3>1. CASE NoRow /\ row.text = version[report.cur].text /\ row.at = version[report.cur].at
      <4> HIDE DEF row
      <4> QED
        BY <1>0, <2>2, <3>1, RowStays DEF NoRow, Seen
    <3>2. CASE Put(row, report.conf)
      <4>1. row.origin # "unused"
        BY <2>5
      <4> HIDE DEF row
      <4>2. Grown /\ report'.cur \in Seen' /\ version'[report'.cur] = row
        BY <1>0, <3>2, <4>1, PutGrows
      <4> QED
        BY <1>0, <2>2, <4>2, SeenStays DEF Grown
    <3> QED
      BY <1>3, <3>1, <3>2 DEF Edit
  <2>7. (page.view.cur = report'.cur \/ page.view.cur # report'.cur)
        /\ page.view.cur \in Seen /\ (page.own # 0 => page.own \in Seen)
    BY DEF ShowInv, PageKnows
  <2> HIDE DEF row
  <2>8. FormTells'
    BY <1>1, <2>2, <2>4, <2>6 DEF ShowInv, FormTells, Latest
  <2>9. PageKnows'
    BY <1>1, <2>6, <2>7 DEF ShowInv, PageKnows, Grown
  <2>10. SentTells' /\ UndoTells'
    BY <1>1, <2>2, <2>4 DEF SentTells, UndoTells
  <2>11. DoneTells'
    <3>1. edit.kind = "text" \/ edit.kind = "settings"
      BY <1>0 DEF EditOK, Request
    <3>2. edit.kind = "settings" => page.at = edit.at
      BY <1>1, <2>2 DEF ShowInv, SentTells
    <3> QED
      BY <1>1, <2>2, <2>4, <2>5, <2>6, <3>1, <3>2 DEF DoneTells
  <2>12. FlowTells'
    <3>1. CASE submit.pc = "text"
      BY <1>1, <2>2, <2>4, <2>5, <2>6, <3>1 DEF ShowInv, FlowTells
    <3>2. CASE submit.pc = "settings"
      BY <1>1, <2>2, <2>4, <2>5, <2>6, <3>2 DEF ShowInv, FlowTells
    <3>3. CASE submit.pc \in {"confirm", "queue"}
      BY <1>1, <2>6, <3>3 DEF ShowInv, FlowTells, Grown
    <3> QED
      BY <1>1, <3>1, <3>2, <3>3 DEF FlowTells
  <2> QED
    BY <1>1, <2>8, <2>9, <2>10, <2>11, <2>12 DEF ShowInv
<1> QED
  BY <1>2, <1>3

LEMMA LoseShows == ASSUME IInv, ShowInv, Lose PROVE ShowInv'
<1>1. UNCHANGED <<report, version, page, undo, submit>> /\ Seen' = Seen /\ budget'.strays = 0
  BY Parts, HappensCounts DEF Lose, Seen, ShowInv, Counts
<1>2. edit'.pc = "lost" /\ edit'.kind = edit.kind /\ edit.pc \in {"sent", "done"} /\ ~page.away
  BY DEF Lose, NoEdit, ShowInv, PageKnows
<1>3. FormTells'
  BY <1>1, <1>2 DEF ShowInv, FormTells, DoneTells, Latest
<1>4. PageKnows' /\ SentTells' /\ DoneTells' /\ UndoTells'
  BY <1>1, <1>2 DEF ShowInv, PageKnows, SentTells, DoneTells, UndoTells
<1>5. FlowTells'
  BY <1>1, <1>2 DEF ShowInv, FlowTells
<1> QED
  BY <1>1, <1>3, <1>4, <1>5 DEF ShowInv

\* The page is told of its save: what it shows beside is left as it is.
LEMMA SaveDoneShows == ASSUME IInv, ShowInv, SaveDone PROVE ShowInv'
<1>0. PageOK /\ EditOK /\ RestOK /\ 0 \notin Seen
  BY Parts, CurrentSeen
<1>1. edit.pc = "done" /\ ~page.away
  BY DEF SaveDone, ShowInv, PageKnows
<1>2. UNCHANGED <<report, version, undo, budget>> /\ Seen' = Seen
  BY DEF SaveDone, Seen
<1> DEFINE g == edit.got
           p == [page EXCEPT !.own = g.cur]
           q == Cached(p, g)
<1>3. g \in View /\ g.cur \in Seen /\ edit.kind \in {"text", "settings"} /\ edit.text \in Texts
      /\ g.cur \in 0..NumVersions
  BY <1>0, <1>1 DEF EditOK, Request, ShowInv, DoneTells, View
<1>4. /\ p \in Page /\ p.view = page.view /\ p.form = page.form /\ p.dirty = page.dirty
      /\ p.at = page.at /\ p.unsaved = page.unsaved /\ p.own = g.cur /\ p.away = page.away
  <2> HIDE DEF g
  <2> QED
    BY <1>0, <1>3 DEF PageOK, Page
<1>5. /\ q \in Page /\ q.view = g /\ q.form = page.form /\ q.dirty = page.dirty
      /\ q.at = page.at /\ q.unsaved = page.unsaved /\ q.own \in {0, g.cur} /\ ~q.away
  <2> HIDE DEF p, g
  <2>1. q = [p EXCEPT !.view = g] \/ q = [p EXCEPT !.view = g, !.own = 0]
    BY <1>4 DEF Cached, Shown
  <2>2. 0 \in 0..NumVersions
    BY ReportsAssumption
  <2> HIDE DEF q
  <2> QED
    BY <1>1, <1>3, <1>4, <2>1, <2>2 DEF Page
<1>6. /\ page'.view = g /\ page'.form = page.form /\ page'.at = page.at
      /\ page'.own \in {0, g.cur} /\ page'.away = FALSE
      /\ IF edit.kind = "text"
         THEN page'.dirty = (page.form # edit.text) /\ page'.unsaved = page.unsaved
         ELSE page'.dirty = page.dirty /\ page'.unsaved = FALSE
  <2>1. page' = Saved(q)
    BY DEF SaveDone
  <2> HIDE DEF q, g
  <2> QED
    BY <1>1, <1>3, <1>5, <2>1 DEF Saved, Page
<1>7. Proceed(g)
  BY DEF SaveDone
<1> HIDE DEF g, p, q
<1>8. \/ edit'.pc = "idle"
      \/ /\ edit'.pc = "sent" /\ edit'.kind = "settings" /\ edit'.base = g
         /\ edit'.at = submit.at /\ submit.pc = "text" /\ submit.settings
  <2>1. CASE submit.pc = "text" /\ submit.settings
    <3>1. AskedSettings(g, submit.at)
      BY <1>7, <2>1 DEF Proceed
    <3> QED
      BY <2>1, <3>1 DEF AskedSettings, NoEdit
  <2>2. CASE ~(submit.pc = "text" /\ submit.settings)
    <3>1. edit' = NoEdit
      BY <1>7, <2>2 DEF Proceed
    <3> QED
      BY <3>1 DEF NoEdit
  <2> QED
    BY <2>1, <2>2
<1>9. FormTells'
  <2>1. page'.dirty \/ page'.form = version[g.cur].text \/ g.cur # report.cur
    BY <1>1, <1>3, <1>6 DEF ShowInv, FormTells, DoneTells, Latest, g
  <2>2. page'.unsaved \/ page'.at = version[g.cur].at \/ g.cur # report.cur
    BY <1>1, <1>3, <1>6 DEF ShowInv, FormTells, DoneTells, Latest, g
  <2> QED
    BY <1>2, <1>6, <1>8, <2>1, <2>2 DEF FormTells, Latest
<1>10. PageKnows'
  BY <1>0, <1>2, <1>3, <1>6 DEF PageKnows
<1>11. SentTells' /\ DoneTells'
  <2>1. submit.pc = "text" => page.at = submit.at
    BY <1>1 DEF ShowInv, FlowTells
  <2> QED
    BY <1>2, <1>3, <1>6, <1>8, <2>1 DEF SentTells, DoneTells
<1>12. UndoTells'
  BY <1>1, <1>2, <1>6, <1>8 DEF ShowInv, UndoTells, g
<1>13. FlowTells'
  <2>1. submit \in Flow
    BY <1>0 DEF RestOK
  <2>2. CASE submit.pc = "text" /\ submit.settings
    <3>1. /\ submit'.pc = "settings" /\ submit'.text = submit.text /\ submit'.at = submit.at
          /\ edit'.pc = "sent" /\ edit'.kind = "settings" /\ edit'.base = g /\ edit'.at = submit.at
      <4>1. /\ AskedSettings(g, submit.at)
            /\ submit' = [submit EXCEPT !.pc = "settings", !.view = g, !.settings = FALSE]
        BY <1>7, <2>2 DEF Proceed
      <4>2. /\ edit'.pc = "sent" /\ edit'.kind = "settings" /\ edit'.base = g
            /\ edit'.at = submit.at
        BY <4>1 DEF AskedSettings, NoEdit
      <4> QED
        BY <2>1, <4>1, <4>2 DEF Flow
    <3>2. version[g.cur].text = submit.text
      BY <1>1, <2>2 DEF ShowInv, FlowTells, DoneTells, g
    <3> QED
      BY <1>2, <3>1, <3>2 DEF FlowTells
  <2>3. CASE submit.pc \in {"text", "settings"} /\ ~(submit.pc = "text" /\ submit.settings)
    <3>1. /\ submit'.pc = "confirm" /\ submit'.text = submit.text /\ submit'.at = submit.at
          /\ submit'.view = g
      BY <1>7, <1>3, <2>1, <2>3 DEF Proceed, Flow
    <3>2. version[g.cur].text = submit.text /\ version[g.cur].at = submit.at
      BY <1>1, <2>3 DEF ShowInv, FlowTells, DoneTells, g
    <3> QED
      BY <1>2, <1>3, <3>1, <3>2 DEF FlowTells
  <2>4. CASE submit.pc \notin {"text", "settings"}
    <3>1. submit' = submit
      BY <1>7, <2>4 DEF Proceed
    <3> QED
      BY <1>2, <2>4, <3>1 DEF ShowInv, FlowTells
  <2> QED
    BY <2>2, <2>3, <2>4
<1> QED
  BY <1>2, <1>9, <1>10, <1>11, <1>12, <1>13 DEF ShowInv

LEMMA SaveFailedShows == ASSUME IInv, ShowInv, SaveFailed PROVE ShowInv'
<1>0. PageOK
  BY Parts
<1>1. UNCHANGED <<report, version, undo, budget>> /\ Seen' = Seen
      /\ edit.pc \in {"refused", "lost"} /\ ~page.away
  BY DEF SaveFailed, Seen, ShowInv, PageKnows
<1>2. edit'.pc = "idle" /\ edit' = NoEdit
  BY DEF SaveFailed, NoEdit
<1>3. /\ page'.view = page.view /\ page'.form = page.form /\ page'.dirty = page.dirty
      /\ page'.at = page.at /\ page'.unsaved \in {page.unsaved, TRUE}
      /\ page'.own = page.own /\ page'.away = page.away
  BY <1>0 DEF SaveFailed, PageOK, Page
<1>4. submit'.pc = "idle" \/ (submit' = submit /\ submit.pc \notin {"text", "settings"})
  BY DEF SaveFailed, NoFlow
<1>5. FormTells' /\ PageKnows'
  BY <1>1, <1>2, <1>3 DEF ShowInv, FormTells, PageKnows, Latest
<1>6. SentTells' /\ DoneTells' /\ UndoTells'
  BY <1>1, <1>2, <1>3 DEF ShowInv, SentTells, DoneTells, UndoTells
<1>7. FlowTells'
  BY <1>1, <1>2, <1>4 DEF ShowInv, FlowTells
<1> QED
  BY <1>1, <1>5, <1>6, <1>7 DEF ShowInv

LEMMA SubmitShows == ASSUME IInv, ShowInv, Submit PROVE ShowInv'
<1>1. UNCHANGED <<report, version, page, undo, budget>> /\ Seen' = Seen
      /\ edit.pc = "idle" /\ ~page.away /\ page.view.cur \in Seen
  BY DEF Submit, Seen, ShowInv, PageKnows
<1>2. /\ submit'.view = page.view /\ submit'.text = page.form /\ submit'.at = page.at
      /\ submit'.settings = (page.dirty /\ page.unsaved)
      /\ submit'.pc = (IF page.dirty THEN "text" ELSE IF page.unsaved THEN "settings" ELSE "confirm")
  BY DEF Submit
<1>3. CASE page.dirty
  <2>1. edit'.pc = "sent" /\ edit'.kind = "text" /\ edit'.base = page.view /\ edit'.text = page.form
    BY <1>3 DEF Submit, Asked, NoEdit
  <2>2. FormTells' /\ PageKnows'
    BY <1>1, <2>1 DEF ShowInv, FormTells, PageKnows, Latest
  <2>3. SentTells' /\ DoneTells' /\ UndoTells'
    BY <1>1, <2>1 DEF ShowInv, SentTells, DoneTells, UndoTells
  <2>4. FlowTells'
    BY <1>1, <1>2, <1>3, <2>1 DEF ShowInv, FormTells, FlowTells, Latest
  <2> QED
    BY <1>1, <2>2, <2>3, <2>4 DEF ShowInv
<1>4. CASE ~page.dirty /\ page.unsaved
  <2>1. edit'.pc = "sent" /\ edit'.kind = "settings" /\ edit'.base = page.view /\ edit'.at = page.at
    BY <1>4 DEF Submit, AskedSettings, NoEdit
  <2>2. FormTells' /\ PageKnows'
    BY <1>1, <2>1 DEF ShowInv, FormTells, PageKnows, Latest
  <2>3. SentTells' /\ DoneTells' /\ UndoTells'
    BY <1>1, <2>1 DEF ShowInv, SentTells, DoneTells, UndoTells
  <2>4. FlowTells'
    BY <1>1, <1>2, <1>4, <2>1 DEF ShowInv, FormTells, FlowTells, Latest
  <2> QED
    BY <1>1, <2>2, <2>3, <2>4 DEF ShowInv
<1>5. CASE ~page.dirty /\ ~page.unsaved
  <2>1. edit' = edit
    BY <1>5 DEF Submit
  <2>2. FormTells' /\ PageKnows'
    BY <1>1, <2>1 DEF ShowInv, FormTells, PageKnows, Latest
  <2>3. SentTells' /\ DoneTells' /\ UndoTells'
    BY <1>1, <2>1 DEF ShowInv, SentTells, DoneTells, UndoTells
  <2>4. FlowTells'
    BY <1>1, <1>2, <1>5, <2>1 DEF ShowInv, FormTells, FlowTells, Latest
  <2> QED
    BY <1>1, <2>2, <2>3, <2>4 DEF ShowInv
<1> QED
  BY <1>3, <1>4, <1>5

LEMMA ConfirmShows == ASSUME IInv, ShowInv, Confirm PROVE ShowInv'
<1>0. RowsOK /\ RestOK
  BY Parts
<1>1. UNCHANGED <<version, page, edit, undo, budget>> /\ Seen' = Seen /\ submit.pc = "confirm"
  BY DEF Confirm, Seen
<1>2. report'.cur = report.cur
  BY <1>0 DEF Confirm, RowsOK, View
<1>3. FormTells' /\ PageKnows' /\ SentTells' /\ DoneTells' /\ UndoTells'
  BY <1>1, <1>2 DEF ShowInv, FormTells, PageKnows, SentTells, DoneTells, UndoTells, Latest
<1>4. \/ submit'.pc = "idle"
      \/ /\ submit'.pc = "queue" /\ submit'.text = submit.text /\ submit'.at = submit.at
         /\ submit'.view.cur = submit.view.cur
  <2>1. submit \in Flow
    BY <1>0 DEF RestOK
  <2>2. CASE submit' = NoFlow
    BY <2>2 DEF NoFlow
  <2>3. CASE submit' = [submit EXCEPT !.pc = "queue"]
    BY <2>1, <2>3 DEF Flow
  <2>4. CASE Unchanged(submit.view) /\ submit' = [submit EXCEPT !.pc = "queue", !.view = report']
    BY <1>2, <2>1, <2>4 DEF Flow, Unchanged
  <2> QED
    BY <2>2, <2>3, <2>4 DEF Confirm
<1>5. FlowTells'
  BY <1>1, <1>2, <1>4 DEF ShowInv, FlowTells
<1> QED
  BY <1>1, <1>3, <1>5 DEF ShowInv

LEMMA FileShows == ASSUME IInv, ShowInv, File PROVE ShowInv'
<1>1. UNCHANGED <<report, version, page, edit, undo, budget>> /\ Seen' = Seen
      /\ submit'.pc = "idle"
  BY DEF File, Seen, NoFlow
<1>2. FormTells' /\ PageKnows' /\ SentTells' /\ DoneTells' /\ UndoTells'
  BY <1>1 DEF ShowInv, FormTells, PageKnows, SentTells, DoneTells, UndoTells, Latest
<1>3. FlowTells'
  BY <1>1 DEF FlowTells
<1> QED
  BY <1>1, <1>2, <1>3 DEF ShowInv

LEMMA UndoShows == ASSUME IInv, ShowInv, Undo PROVE ShowInv'
<1>1. UNCHANGED <<report, version, page, edit, submit>> /\ Seen' = Seen /\ budget'.strays = 0
      /\ undo'.pc = "sent"
  BY Parts, HappensCounts DEF Undo, Seen, ShowInv, Counts
<1>2. FormTells' /\ PageKnows' /\ SentTells' /\ DoneTells' /\ UndoTells'
  BY <1>1 DEF ShowInv, FormTells, PageKnows, SentTells, DoneTells, UndoTells, Latest
<1>3. FlowTells'
  BY <1>1 DEF ShowInv, FlowTells
<1> QED
  BY <1>1, <1>2, <1>3 DEF ShowInv

\* A restore that is made makes everything the page knows old.
LEMMA RestoreShows == ASSUME IInv, ShowInv, Restore PROVE ShowInv'
<1>0. RowsOK /\ undo.to \in Versions
  BY Parts DEF UndoOK, Restore
<1>1. UNCHANGED <<page, edit, submit, budget>>
  BY DEF Restore
<1>2. CASE NoRow /\ undo' = [NoUndo EXCEPT !.pc = "refused"]
  <2>1. UNCHANGED <<report, version>> /\ Seen' = Seen /\ undo'.pc = "refused"
    BY <1>2 DEF NoRow, Seen, NoUndo
  <2>2. FormTells' /\ PageKnows' /\ SentTells' /\ DoneTells' /\ UndoTells'
    BY <1>1, <2>1 DEF ShowInv, FormTells, PageKnows, SentTells, DoneTells, UndoTells, Latest
  <2>3. FlowTells'
    BY <1>1, <2>1 DEF ShowInv, FlowTells
  <2> QED
    BY <1>1, <2>2, <2>3 DEF ShowInv
<1>3. CASE Put([version[undo.to] EXCEPT !.origin = "manual", !.base = 0], report.conf)
  <2> DEFINE row == [version[undo.to] EXCEPT !.origin = "manual", !.base = 0]
  <2>1. row.origin # "unused"
    BY <1>0 DEF RowsOK, Row
  <2> HIDE DEF row
  <2>2. Grown /\ report'.cur \notin Seen /\ Seen \subseteq Seen'
        /\ \A v \in Seen : version'[v] = version[v]
    BY <1>0, <1>3, <2>1, PutGrows, SeenStays DEF row, Grown
  <2>3. PageKnows'
    BY <1>1, <2>2 DEF ShowInv, PageKnows
  <2>4. SentTells'
    BY <1>1, <2>2 DEF ShowInv, SentTells
  <2>5. DoneTells'
    BY <1>1, <2>2 DEF ShowInv, DoneTells, PageKnows
  <2>6. UndoTells'
    BY <1>1, <2>2 DEF ShowInv, UndoTells, PageKnows, SentTells, DoneTells
  <2>7. FormTells'
    BY <1>1, <2>2 DEF ShowInv, FormTells, Latest, PageKnows, DoneTells
  <2>8. FlowTells'
    BY <1>1, <2>2 DEF ShowInv, FlowTells, SentTells, DoneTells
  <2> QED
    BY <1>1, <2>3, <2>4, <2>5, <2>6, <2>7, <2>8 DEF ShowInv
<1> QED
  BY <1>2, <1>3 DEF Restore

\* The page takes its form for saved; the version it shows is no longer current.
LEMMA UndoneShows == ASSUME IInv, ShowInv, Undone PROVE ShowInv'
<1>0. PageOK
  BY Parts
<1>1. UNCHANGED <<report, version, edit, submit, budget>> /\ Seen' = Seen /\ undo'.pc = "idle"
  BY DEF Undone, Seen, NoUndo
<1>2. /\ page'.view = page.view /\ page'.form = page.form
      /\ page'.at = page.at /\ page'.unsaved = page.unsaved
      /\ page'.own = page.own /\ page'.away = page.away
      /\ page'.dirty = page.dirty \/ undo.pc = "done"
  BY <1>0 DEF Undone, PageOK, Page
<1>3. FormTells'
  BY <1>1, <1>2 DEF ShowInv, FormTells, UndoTells, Latest
<1>4. PageKnows' /\ SentTells' /\ DoneTells' /\ UndoTells'
  BY <1>1, <1>2 DEF ShowInv, PageKnows, SentTells, DoneTells, UndoTells
<1>5. FlowTells'
  BY <1>1, <1>2 DEF ShowInv, FlowTells
<1> QED
  BY <1>1, <1>3, <1>4, <1>5 DEF ShowInv

\* Another window, the timer and suggestions: none of them touches the page.
LEMMA DraftMadeShows == ASSUME IInv, ShowInv, DraftMade PROVE ShowInv'
<1>0. RowsOK
  BY Parts
<1>1. UNCHANGED <<page, edit, undo, submit, budget>> /\ Counts(budget')
  BY DEF DraftMade, Elsewhere, Counts
<1> DEFINE row == [text |-> "draft", at |-> "none", origin |-> "rule", base |-> 0,
                   facts |-> ai["timer"].facts, hash |-> "sources"]
<1>2. row.origin # "unused" /\ (NoRow \/ Put(row, report.conf))
  BY DEF DraftMade
<1> HIDE DEF row
<1>3. Grown
  BY <1>0, <1>2, RowStays, PutGrows
<1> QED
  BY <1>1, <1>3, OutsideThePage

LEMMA RefreshShows == ASSUME IInv, ShowInv, Refresh PROVE ShowInv'
<1>0. RowsOK /\ AiOK
  BY Parts
<1>1. UNCHANGED <<page, edit, undo, submit, budget>> /\ Counts(budget')
  BY DEF Refresh, Elsewhere, Counts
<1> DEFINE a == ai["page"]
           row == [version[a.base.cur] EXCEPT !.origin = "manual", !.facts = a.facts, !.hash = "sources"]
<1>2. NoRow \/ Put(row, a.base.conf)
  BY DEF Refresh
<1>3. row.origin # "unused"
  BY <1>0 DEF Refresh, AskerAt, AiOK, RowsOK, Row
<1> HIDE DEF row, a
<1>4. Grown
  BY <1>0, <1>2, <1>3, RowStays, PutGrows
<1> QED
  BY <1>1, <1>4, OutsideThePage

LEMMA PersistShows == ASSUME IInv, ShowInv, Persist PROVE ShowInv'
<1>0. RowsOK
  BY Parts
<1>1. UNCHANGED <<page, edit, undo, submit, budget>> /\ Counts(budget')
  BY DEF Persist, Counts
<1>2. CASE NoRow
  BY <1>1, <1>2, RowStays, OutsideThePage
<1>3. CASE ~NoRow
  <2>1. PICK v \in Versions :
          /\ First(v)
          /\ version' = [version EXCEPT ![v] =
               [version[report.cur] EXCEPT !.origin = "ai", !.text = "suggested",
                                           !.base = report.cur, !.hash = "snapshot"]]
    BY <1>3 DEF Persist
  <2>2. report' = [report EXCEPT !.ver = @ + 1]
    BY <1>3 DEF Persist
  <2>3. report'.cur = report.cur
    BY <1>0, <2>2 DEF RowsOK, View
  <2>4. Grown
    BY <1>0, <2>1, <2>3, FreeGrows
  <2> QED
    BY <1>1, <2>4, OutsideThePage
<1> QED
  BY <1>2, <1>3

LEMMA AdoptedGrows == ASSUME IInv, NEW g, NEW b, Adopted(g, b) PROVE Grown
<1>0. RowsOK /\ RestOK
  BY Parts
<1> DEFINE row == [version[g] EXCEPT !.origin = "manual", !.base = 0]
<1>1. row.origin # "unused" /\ Put(row, report.conf)
  <2>1. g \in Versions
    BY <1>0 DEF Adopted, Adoptable, RestOK
  <2> QED
    BY <1>0, <2>1 DEF Adopted, RowsOK, Row
<1> HIDE DEF row
<1> QED
  BY <1>0, <1>1, PutGrows

LEMMA OthersShow ==
  ASSUME IInv, ShowInv,
         OtherWindow \/ DraftStarts \/ Ask \/ Generate \/ GenerateFails \/ Fill \/ Keep
           \/ Adopt \/ Reject
  PROVE  ShowInv'
<1>0. RowsOK /\ RestOK
  BY Parts
<1>1. UNCHANGED <<page, edit, undo, submit>> /\ Counts(budget')
  BY <1>0, HappensCounts
  DEF OtherWindow, DraftStarts, Ask, Generate, GenerateFails, Fill, Keep, Adopt, Reject,
      Elsewhere, Counts
<1>2. CASE DraftStarts \/ Ask \/ Generate \/ GenerateFails \/ Keep \/ Reject
  BY <1>1, <1>2, RowStays, OutsideThePage
  DEF DraftStarts, Ask, Generate, GenerateFails, Keep, Reject
<1>3. CASE Fill \/ Adopt
  BY <1>1, <1>3, RowStays, AdoptedGrows, OutsideThePage DEF Fill, Adopt
<1>4. CASE OtherWindow
  <2>1. PICK t \in Typed : Put(Derived(t, version[report.cur].at), report.conf)
    BY <1>4 DEF OtherWindow
  <2>2. Derived(t, version[report.cur].at).origin # "unused"
    BY <1>0 DEF Derived, RowsOK, Row
  <2>3. Grown
    BY <1>0, <2>1, <2>2, PutGrows
  <2> QED
    BY <1>1, <2>3, OutsideThePage
<1> QED
  BY <1>2, <1>3, <1>4

LEMMA ShowInitially == ASSUME MaxStrays = 0, Init PROVE ShowInv
<1>1. IInv
  BY Initially
<1>2. RowsOK /\ report.cur \in Seen /\ report.cur = 1
  BY <1>1, Parts, CurrentSeen DEF Init
<1>3. version[1].text = "draft" /\ version[1].at = "none"
  <2>1. 1 \in Versions
    BY ReportsAssumption DEF Versions
  <2> QED
    BY <2>1 DEF Init, Unused
<1>4. edit.pc = "idle" /\ undo.pc = "idle" /\ submit.pc = "idle"
  BY DEF Init, NoEdit, NoUndo, NoFlow
<1>5. /\ page.view.cur = report.cur /\ page.form = "draft" /\ page.at = "none" /\ page.own = 0
  BY DEF Init
<1>6. FormTells /\ PageKnows
  BY <1>2, <1>3, <1>4, <1>5 DEF FormTells, PageKnows
<1>7. SentTells /\ DoneTells /\ UndoTells /\ FlowTells
  BY <1>4 DEF SentTells, DoneTells, UndoTells, FlowTells
<1>8. budget.strays = 0
  BY DEF Init
<1> QED
  BY <1>6, <1>7, <1>8 DEF ShowInv

LEMMA ShowInductive == IInv /\ ShowInv /\ [Next]_vars => ShowInv'
<1> SUFFICES ASSUME IInv, ShowInv, [Next]_vars PROVE ShowInv'
  OBVIOUS
<1>1. CASE UNCHANGED vars
  BY <1>1, RowStays, OutsideThePage DEF vars, NoRow, Counts
<1>2. CASE Type \/ Refetch \/ Leave \/ Return
  BY <1>2, TypeShows, RefetchShows, LeaveShows, ReturnShows
<1>3. CASE Save \/ Schedule \/ Edit \/ Lose \/ SaveDone \/ SaveFailed
  BY <1>3, SaveShows, ScheduleShows, EditShows, LoseShows, SaveDoneShows, SaveFailedShows
<1>4. CASE Submit \/ Confirm \/ File \/ Undo \/ Restore \/ Undone
  BY <1>4, SubmitShows, ConfirmShows, FileShows, UndoShows, RestoreShows, UndoneShows
<1>5. CASE DraftMade \/ Refresh \/ Persist
  BY <1>5, DraftMadeShows, RefreshShows, PersistShows
<1>6. CASE OtherWindow \/ DraftStarts \/ Ask \/ Generate \/ GenerateFails \/ Fill \/ Keep
           \/ Adopt \/ Reject
  BY <1>6, OthersShow
<1> QED
  BY <1>1, <1>2, <1>3, <1>4, <1>5, <1>6 DEF Next

\* As long as no answer overtakes another one and the page is not left after a
\* save that changed nothing, what the service accepts for submission is what the
\* page showed when the button was pressed: the version a flow of submission works
\* on differs from it only in what the flow has yet to save, or is no longer
\* current, and the service then refuses it.
THEOREM SubmittedIsShown == MaxStrays = 0 => (Spec => []FiledAsShown)
<1> SUFFICES ASSUME MaxStrays = 0 PROVE Spec => []FiledAsShown
  OBVIOUS
<1>1. Init => ShowInv
  BY ShowInitially
<1>2. ShowInv => FiledAsShown
  BY DEF ShowInv, FlowTells, FiledAsShown, Accepted, Unchanged
<1> QED
  BY <1>1, <1>2, ShowInductive, ReportInvariant, PTL DEF Spec

=============================================================================
