------------------------------ MODULE Reports ------------------------------
(***************************************************************************)
(* One weekly report (modules/weekly-reports) up to its submission: the    *)
(* immutable versions and the confirmation kept by the service, and those  *)
(* who write them: the page of the user (pages/WeeklyReportsPage.tsx) with *)
(* its form, its saves in flight and its flow of submission, another       *)
(* window, the draft of the day made by a timer, and AI suggestions.       *)
(*                                                                         *)
(* The six fields of a version are one text, its submission settings one   *)
(* schedule.  A transaction of the service is one step; each await outside *)
(* a transaction, in the service or in the page, separates two steps.      *)
(***************************************************************************)
EXTENDS Naturals, FiniteSets

CONSTANTS
  NumVersions,   \* bound: versions of the report
  MaxEvents,     \* bound: what happens now and then, in all: schedules picked, restores,
                 \* requests for a suggestion, answers that are lost, edits of another window
  MaxStrays      \* bound: answers to the page that overtake one another, and visits to
                 \* another report after a save that changed nothing

Versions == 1..NumVersions

ASSUME ReportsAssumption ==
  /\ NumVersions \in Nat \ {0}
  /\ MaxEvents \in Nat /\ MaxStrays \in Nat

VARIABLES
  report,    \* the weekly_report row: current version, row version, confirmation
  version,   \* version[v]: the weekly_report_version row
  active,    \* the versions whose confirmation is active
  pending,   \* the AI versions whose suggestion is neither adopted nor rejected
  page,      \* what the page shows
  edit,      \* the PUT of the page in flight
  undo,      \* the restore of the page in flight
  submit,    \* the flow of submission in the page
  ai,        \* ai[w]: the generation asked for by w
  facts,     \* the synchronised tasks: 0, or 1 when they have changed since version 1
  today,     \* a version has been created today
  budget     \* what may still happen

vars == <<report, version, active, pending, page, edit, undo, submit, ai, facts, today, budget>>

Typed == {"draft", "typed"}
Texts == Typed \union {"suggested", "elsewhere"}
Schedules == {"none", "later"}
\* "manual" stands for restored versions too.
Origins == {"unused", "rule", "manual", "ai"}
\* What the content hash of a version is made over beside its content: the hash of its sources
\* (generate, refreshSourceSnapshotForAi) or the id of its snapshot (edit, the AI service).
Hashes == {"sources", "snapshot"}
Askers == {"page", "timer"}

\* What a read of the report tells the page.
View == [cur: 0..NumVersions, ver: Nat, conf: 0..NumVersions]
Unread == [cur |-> 0, ver |-> 0, conf |-> 0]

Row == [text: Texts, at: Schedules, origin: Origins, base: 0..NumVersions, facts: {0, 1},
        hash: Hashes]
Page == [view: View, form: Texts, dirty: BOOLEAN, at: Schedules, unsaved: BOOLEAN,
         own: 0..NumVersions, away: BOOLEAN]
Request == [pc: {"idle", "sent", "done", "refused", "lost"}, kind: {"text", "settings"},
            base: View, text: Texts, at: Schedules, got: View]
Flow == [pc: {"idle", "text", "settings", "confirm", "queue"}, view: View, text: Texts,
         at: Schedules, settings: BOOLEAN]
Asking == [pc: {"idle", "reading", "refresh", "based", "asked", "suggested"},
           base: View, facts: {0, 1}, gen: 0..NumVersions]

TypeOK ==
  /\ report \in View /\ report.cur \in Versions
  /\ version[report.cur].origin \in {"rule", "manual"}
  /\ version \in [Versions -> Row]
  /\ active \subseteq Versions /\ pending \subseteq Versions
  /\ page \in Page
  /\ edit \in Request
  /\ undo \in [pc: {"idle", "sent", "done", "refused"}, base: View, to: 0..NumVersions]
  /\ submit \in Flow
  /\ ai \in [Askers -> Asking]
  /\ facts \in {0, 1} /\ today \in BOOLEAN
  /\ budget \in [events: Nat, strays: Nat]

Unused == [text |-> "draft", at |-> "none", origin |-> "unused", base |-> 0, facts |-> 0,
           hash |-> "sources"]
NoEdit == [pc |-> "idle", kind |-> "text", base |-> Unread, text |-> "draft",
           at |-> "none", got |-> Unread]
NoUndo == [pc |-> "idle", base |-> Unread, to |-> 0]
NoFlow == [pc |-> "idle", view |-> Unread, text |-> "draft", at |-> "none", settings |-> FALSE]
NoAsking == [pc |-> "idle", base |-> Unread, facts |-> 0, gen |-> 0]

\* The report has been generated before today and is open in the page.
Init ==
  /\ report = [cur |-> 1, ver |-> 1, conf |-> 0]
  /\ version = [v \in Versions |-> IF v = 1 THEN [Unused EXCEPT !.origin = "rule"] ELSE Unused]
  /\ active = {} /\ pending = {}
  /\ page = [view |-> report, form |-> "draft", dirty |-> FALSE, at |-> "none",
             unsaved |-> FALSE, own |-> 0, away |-> FALSE]
  /\ edit = NoEdit /\ undo = NoUndo /\ submit = NoFlow
  /\ ai = [w \in Askers |-> NoAsking]
  /\ facts \in {0, 1} /\ today = FALSE
  /\ budget = [events |-> MaxEvents, strays |-> MaxStrays]

----------------------------------------------------------------------------
(* The rows *)

Free == {v \in Versions : version[v].origin = "unused"}
First(v) == v \in Free /\ \A u \in Free : v <= u

\* assertEditBase, and the guard of every update of the row.
Unchanged(base) == report.cur = base.cur /\ report.ver = base.ver

\* invalidateConfirmation: c is the confirmation the caller has read.  What it
\* does to a pending submission is in Delivery.
Invalidated(c) == active \ {c}

\* A new version becomes the current one.
Put(row, c) ==
  /\ \E v \in Versions :
       /\ First(v)
       /\ version' = [version EXCEPT ![v] = row]
       /\ report' = [cur |-> v, ver |-> report.ver + 1, conf |-> 0]
  /\ active' = Invalidated(c)
  /\ today' = TRUE

Derived(text, at) ==
  [version[report.cur] EXCEPT !.origin = "manual", !.text = text, !.at = at, !.hash = "snapshot"]

Happens == budget.events > 0 /\ budget' = [budget EXCEPT !.events = @ - 1]
Strays == budget.strays > 0 /\ budget' = [budget EXCEPT !.strays = @ - 1]

NoRow == UNCHANGED <<report, version, active, today>>

----------------------------------------------------------------------------
(* The page: its form and what it reads *)

\* The effect of a new version id: the form takes its text, unless the page
\* itself has saved it.
Shown(p, w) ==
  IF p.own = w.cur THEN [p EXCEPT !.view = w, !.own = 0]
  ELSE [p EXCEPT !.view = w, !.form = version[w.cur].text, !.dirty = FALSE,
                 !.at = version[w.cur].at, !.unsaved = FALSE]

\* The report in the cache is now w.
Cached(p, w) ==
  IF p.away \/ w.cur = p.view.cur THEN [p EXCEPT !.view = w] ELSE Shown(p, w)

Type ==
  \E t \in Typed :
    /\ ~page.away /\ t # page.form
    /\ page' = [page EXCEPT !.form = t, !.dirty = TRUE]
    /\ UNCHANGED <<report, version, active, pending, edit, undo, submit, ai, facts, today, budget>>

\* The report is read again, whenever the page invalidates it or polls.  The answer
\* overtakes that of a save or a restore at most MaxStrays times.
Refetch ==
  /\ page' = Cached(page, report)
  /\ IF report.cur # page.view.cur /\ (edit.pc = "done" \/ undo.pc = "done") THEN Strays
     ELSE UNCHANGED budget
  /\ UNCHANGED <<report, version, active, pending, edit, undo, submit, ai, facts, today>>

\* The page goes to another report, whose text its form takes, and comes back
\* to this one as it is in the cache; at most MaxStrays times when its last save
\* changed nothing.
Leave ==
  /\ ~page.away /\ edit.pc = "idle" /\ submit.pc = "idle"
  /\ page' = [page EXCEPT !.away = TRUE, !.form = "elsewhere", !.dirty = FALSE,
                          !.at = "none", !.unsaved = FALSE]
  /\ IF page.own # 0 THEN Strays ELSE UNCHANGED budget
  /\ UNCHANGED <<report, version, active, pending, edit, undo, submit, ai, facts, today>>

Return ==
  /\ page.away
  /\ page' = Shown([page EXCEPT !.away = FALSE], page.view)
  /\ UNCHANGED <<report, version, active, pending, edit, undo, submit, ai, facts, today, budget>>

----------------------------------------------------------------------------
(* The page saves: the timer and the button send the form, the schedule is
   sent when it is picked.  Both are off while a save is in flight. *)

Asked(base, text) == edit' = [NoEdit EXCEPT !.pc = "sent", !.base = base, !.text = text]
AskedSettings(base, at) ==
  edit' = [NoEdit EXCEPT !.pc = "sent", !.kind = "settings", !.base = base, !.at = at]

Save ==
  /\ ~page.away /\ page.dirty /\ edit.pc = "idle"
  /\ Asked(page.view, page.form)
  /\ UNCHANGED <<report, version, active, pending, page, undo, submit, ai, facts, today, budget>>

Schedule ==
  \E s \in Schedules :
    /\ ~page.away /\ edit.pc = "idle" /\ submit.pc = "idle"
    /\ IF s # page.at THEN Happens ELSE page.unsaved /\ UNCHANGED budget
    /\ page' = [page EXCEPT !.at = s, !.unsaved = TRUE]
    /\ AskedSettings(page.view, s)
    /\ UNCHANGED <<report, version, active, pending, undo, submit, ai, facts,
                   today>>

\* WeeklyReportService.edit: a save that changes nothing is replayed, if the hash of the current
\* version is made as that of an edit; otherwise it makes a version and ends the confirmation.
Edit ==
  LET row == IF edit.kind = "text" THEN Derived(edit.text, version[report.cur].at)
             ELSE Derived(version[report.cur].text, edit.at)
      same == /\ version[report.cur].hash = "snapshot"
              /\ row.text = version[report.cur].text /\ row.at = version[report.cur].at
  IN /\ edit.pc = "sent"
     /\ \/ ~Unchanged(edit.base) /\ NoRow
           /\ edit' = [NoEdit EXCEPT !.pc = "refused", !.kind = edit.kind]
        \/ /\ Unchanged(edit.base) /\ same /\ NoRow
           /\ edit' = [edit EXCEPT !.pc = "done", !.base = Unread, !.got = report]
        \/ /\ Unchanged(edit.base) /\ ~same /\ Put(row, report.conf)
           /\ edit' = [edit EXCEPT !.pc = "done", !.base = Unread, !.got = report']
     /\ UNCHANGED <<pending, page, undo, submit, ai, facts, budget>>

Lose ==
  /\ edit.pc \in {"sent", "done"}
  /\ Happens
  /\ edit' = [NoEdit EXCEPT !.pc = "lost", !.kind = edit.kind]
  /\ UNCHANGED <<report, version, active, pending, page, undo, submit, ai, facts, today>>

\* Mutant: what has been typed since the request was sent counts as saved.
SavedAll(p) ==
  IF edit.kind = "settings" THEN [p EXCEPT !.unsaved = FALSE] ELSE [p EXCEPT !.dirty = FALSE]

\* onSuccess of editMutation, after applyLocalEditResult.
Saved(p) ==
  IF edit.kind = "settings" THEN [p EXCEPT !.unsaved = FALSE]
  ELSE [p EXCEPT !.dirty = (p.form # edit.text)]

\* The flow of submission goes on with its next request.
Proceed(view) ==
  IF submit.pc = "text" /\ submit.settings
  THEN /\ submit' = [submit EXCEPT !.pc = "settings", !.view = view, !.settings = FALSE]
       /\ AskedSettings(view, submit.at)
  ELSE /\ edit' = NoEdit
       /\ IF submit.pc \in {"text", "settings"}
          THEN submit' = [submit EXCEPT !.pc = "confirm", !.view = view]
          ELSE UNCHANGED submit

SaveDone ==
  /\ edit.pc = "done"
  /\ page' = Saved(Cached([page EXCEPT !.own = edit.got.cur], edit.got))
  /\ Proceed(edit.got)
  /\ UNCHANGED <<report, version, active, pending, undo, ai, facts, today, budget>>

SaveFailed ==
  /\ edit.pc \in {"refused", "lost"}
  /\ page' = IF edit.kind = "settings" THEN [page EXCEPT !.unsaved = TRUE] ELSE page
  /\ edit' = NoEdit
  /\ submit' = IF submit.pc \in {"text", "settings"} THEN NoFlow ELSE submit
  /\ UNCHANGED <<report, version, active, pending, undo, ai, facts, today, budget>>

----------------------------------------------------------------------------
(* The page submits what it shows: it saves, confirms and files *)

Submit ==
  /\ ~page.away /\ edit.pc = "idle" /\ submit.pc = "idle"
  /\ submit' = [pc |-> IF page.dirty THEN "text"
                       ELSE IF page.unsaved THEN "settings" ELSE "confirm",
                view |-> page.view, text |-> page.form, at |-> page.at,
                settings |-> page.dirty /\ page.unsaved]
  /\ IF page.dirty THEN Asked(page.view, page.form)
     ELSE IF page.unsaved THEN AskedSettings(page.view, page.at)
     ELSE UNCHANGED edit
  /\ UNCHANGED <<report, version, active, pending, page, undo, ai, facts,
                 today, budget>>

\* confirm: the confirmation the page knows of is used as it is.
Confirm ==
  /\ submit.pc = "confirm"
  /\ \/ /\ submit.view.conf = submit.view.cur
        /\ submit' = [submit EXCEPT !.pc = "queue"] /\ UNCHANGED <<report, active>>
     \/ /\ submit.view.conf # submit.view.cur /\ Unchanged(submit.view)
        /\ active' = active \union {report.cur}
        /\ report' = [report EXCEPT !.ver = @ + 1, !.conf = report.cur]
        /\ submit' = [submit EXCEPT !.pc = "queue", !.view = report']
     \/ /\ submit.view.conf # submit.view.cur /\ ~Unchanged(submit.view)
        /\ submit' = NoFlow /\ UNCHANGED <<report, active>>
  /\ UNCHANGED <<version, pending, page, edit, undo, ai, facts, today, budget>>

\* submitLog accepts the confirmation of the current version; what it does then
\* is in Delivery.
Accepted == Unchanged(submit.view) /\ report.conf = submit.view.cur /\ report.conf \in active

File ==
  /\ submit.pc = "queue"
  /\ submit' = NoFlow
  /\ UNCHANGED <<report, version, active, pending, page, edit, undo, ai, facts, today,
                 budget>>

----------------------------------------------------------------------------
(* Restoring an older version: undo, redo and the history *)

Undo ==
  \E v \in Versions :
    /\ ~page.away /\ undo.pc = "idle"
    /\ version[v].origin # "unused" /\ v # page.view.cur
    /\ Happens
    /\ undo' = [pc |-> "sent", base |-> page.view, to |-> v]
    /\ UNCHANGED <<report, version, active, pending, page, edit, submit, ai, facts, today>>

Restore ==
  /\ undo.pc = "sent"
  /\ \/ ~Unchanged(undo.base) /\ NoRow /\ undo' = [NoUndo EXCEPT !.pc = "refused"]
     \/ /\ Unchanged(undo.base)
        /\ Put([version[undo.to] EXCEPT !.origin = "manual", !.base = 0], report.conf)
        /\ undo' = [NoUndo EXCEPT !.pc = "done"]
  /\ UNCHANGED <<pending, page, edit, submit, ai, facts, budget>>

Undone ==
  /\ undo.pc \in {"done", "refused"}
  /\ page' = IF undo.pc = "done" /\ ~page.away THEN [page EXCEPT !.dirty = FALSE] ELSE page
  /\ undo' = NoUndo
  /\ UNCHANGED <<report, version, active, pending, edit, submit, ai, facts,
                 today, budget>>

----------------------------------------------------------------------------
(* Another window, which is up to date *)

OtherWindow ==
  \E t \in Typed :
    /\ t # version[report.cur].text \/ version[report.cur].hash # "snapshot"
    /\ Happens
    /\ Put(Derived(t, version[report.cur].at), report.conf)
    /\ UNCHANGED <<pending, page, edit, undo, submit, ai, facts>>

----------------------------------------------------------------------------
(* WeeklyReportAutomaticDraftService: every ten minutes, unless a version has
   been created today; the tasks are read before the transaction of generate *)

AskerAt(w, pc) == ai[w].pc = pc
Step(w, a) == ai' = [ai EXCEPT ![w] = a]
Elsewhere == <<pending, page, edit, undo, submit, facts, budget>>

DraftStarts ==
  /\ AskerAt("timer", "idle") /\ ~today
  /\ Step("timer", [NoAsking EXCEPT !.pc = "reading", !.facts = facts])
  /\ NoRow /\ UNCHANGED Elsewhere

Drafts == {v \in Versions : version[v].origin = "rule" /\ version[v].facts = ai["timer"].facts}
Same == {v \in Versions : version[v].origin # "unused" /\ version[v].facts = ai["timer"].facts}

\* The same tasks replay the latest version made of them.
DraftMade ==
  /\ AskerAt("timer", "reading")
  /\ \/ /\ Drafts # {} /\ NoRow
        /\ \E v \in Same :
             /\ \A u \in Same : u <= v
             /\ Step("timer", [NoAsking EXCEPT !.pc = "based", !.base = [report EXCEPT !.cur = v]])
     \/ /\ Drafts = {}
        /\ Put([text |-> "draft", at |-> "none", origin |-> "rule", base |-> 0,
                facts |-> ai["timer"].facts, hash |-> "sources"], report.conf)
        /\ Step("timer", [NoAsking EXCEPT !.pc = "based", !.base = report'])
  /\ UNCHANGED Elsewhere

----------------------------------------------------------------------------
(* AI suggestions: asked for by the page, or by the timer for its draft *)

\* The page asks: refreshSourceSnapshotForAi reads the report and the tasks.
Ask ==
  /\ ~page.away /\ AskerAt("page", "idle")
  /\ Happens
  /\ IF Unchanged(page.view)
     THEN Step("page", [NoAsking EXCEPT !.pc = "refresh", !.base = report, !.facts = facts])
     ELSE UNCHANGED ai
  /\ NoRow /\ UNCHANGED <<pending, page, edit, undo, submit, facts>>

\* Mutant: the update is guarded by the current version alone.
RefreshCurrentOnly ==
  LET a == ai["page"]
  IN /\ AskerAt("page", "refresh")
     /\ \/ /\ version[a.base.cur].facts = a.facts
           /\ NoRow /\ Step("page", [a EXCEPT !.pc = "based", !.facts = 0])
        \/ /\ version[a.base.cur].facts # a.facts /\ report.cur = a.base.cur
           /\ Put([version[a.base.cur] EXCEPT !.origin = "manual", !.facts = a.facts,
                                             !.hash = "sources"], a.base.conf)
           /\ Step("page", [NoAsking EXCEPT !.pc = "based", !.base = report'])
        \/ /\ version[a.base.cur].facts # a.facts /\ report.cur # a.base.cur
           /\ NoRow /\ Step("page", NoAsking)
     /\ UNCHANGED Elsewhere

\* New tasks make a version with the text of the current one; the confirmation
\* it ends is the one read before.
Refresh ==
  LET a == ai["page"]
  IN /\ AskerAt("page", "refresh")
     /\ \/ /\ version[a.base.cur].facts = a.facts
           /\ NoRow /\ Step("page", [a EXCEPT !.pc = "based", !.facts = 0])
        \/ /\ version[a.base.cur].facts # a.facts /\ Unchanged(a.base)
           /\ Put([version[a.base.cur] EXCEPT !.origin = "manual", !.facts = a.facts,
                                             !.hash = "sources"], a.base.conf)
           /\ Step("page", [NoAsking EXCEPT !.pc = "based", !.base = report'])
        \/ /\ version[a.base.cur].facts # a.facts /\ ~Unchanged(a.base)
           /\ NoRow /\ Step("page", NoAsking)
     /\ UNCHANGED Elsewhere

\* createSuggestion up to the call of the provider.  The timer asks once for a
\* version.
Generate ==
  \E w \in Askers :
    /\ AskerAt(w, "based")
    /\ Step(w, IF /\ Unchanged(ai[w].base)
                  /\ w = "page" \/ \A v \in Versions :
                       ~(version[v].origin = "ai" /\ version[v].base = ai[w].base.cur)
               THEN [ai[w] EXCEPT !.pc = "asked"] ELSE NoAsking)
    /\ NoRow /\ UNCHANGED Elsewhere

\* recordNonSuccess: the call fails, or its answer is refused.
GenerateFails ==
  \E w \in Askers :
    /\ AskerAt(w, "asked")
    /\ Step(w, NoAsking)
    /\ NoRow /\ UNCHANGED Elsewhere

\* persistSuggestion: the row version is used up, the current version stays.
\* The page is told the new row version, the timer goes on with its own.
Persist ==
  \E w \in Askers :
    LET a == ai[w]
    IN /\ AskerAt(w, "asked")
       /\ \/ /\ ~Unchanged(a.base) /\ NoRow /\ Step(w, NoAsking) /\ UNCHANGED pending
          \/ /\ Unchanged(a.base)
             /\ report' = [report EXCEPT !.ver = @ + 1]
             /\ today' = TRUE /\ UNCHANGED active
             /\ \E v \in Versions :
                  /\ First(v)
                  /\ version' = [version EXCEPT ![v] =
                       [version[report.cur] EXCEPT !.origin = "ai", !.text = "suggested",
                                                   !.base = report.cur, !.hash = "snapshot"]]
                  /\ pending' = pending \union {v}
                  /\ Step(w, [a EXCEPT !.pc = "suggested", !.gen = v,
                                       !.base = IF w = "page" THEN report' ELSE a.base])
       /\ UNCHANGED <<page, edit, undo, submit, facts, budget>>

\* adopt of suggestion g by a caller that has seen base
Adoptable(g, base) ==
  g \in pending /\ Unchanged(base) /\ version[g].base = report.cur

Adopted(g, base) ==
  /\ Adoptable(g, base)
  /\ Put([version[g] EXCEPT !.origin = "manual", !.base = 0], report.conf)
  /\ pending' = pending \ {g}

\* The second request of the one who asked: "fill" of the page, and the timer.
Fill ==
  \E w \in Askers :
    /\ AskerAt(w, "suggested")
    /\ \/ Adopted(ai[w].gen, ai[w].base)
       \/ ~Adoptable(ai[w].gen, ai[w].base) /\ NoRow /\ UNCHANGED pending
    /\ Step(w, NoAsking)
    /\ UNCHANGED <<page, edit, undo, submit, facts, budget>>

\* The page only asked for a suggestion.
Keep ==
  /\ AskerAt("page", "suggested")
  /\ Step("page", NoAsking)
  /\ NoRow /\ UNCHANGED Elsewhere

\* The user decides on a suggestion in the list.
Adopt ==
  \E g \in Versions :
    /\ ~page.away /\ Adopted(g, page.view)
    /\ UNCHANGED <<page, edit, undo, submit, ai, facts, budget>>

Reject ==
  \E g \in Versions :
    /\ ~page.away /\ g \in pending
    /\ pending' = pending \ {g}
    /\ NoRow /\ UNCHANGED <<page, edit, undo, submit, ai, facts, budget>>

----------------------------------------------------------------------------

Next ==
  \/ Type \/ Refetch \/ Leave \/ Return
  \/ Save \/ Schedule \/ Edit \/ Lose \/ SaveDone \/ SaveFailed
  \/ Submit \/ Confirm \/ File
  \/ Undo \/ Restore \/ Undone
  \/ OtherWindow \/ DraftStarts \/ DraftMade
  \/ Ask \/ Refresh \/ Generate \/ GenerateFails \/ Persist \/ Fill \/ Keep \/ Adopt \/ Reject

Spec == Init /\ [][Next]_vars

----------------------------------------------------------------------------

\* An active confirmation is that of the current version, whoever has written
\* last and whatever was read before: what has been confirmed is what a
\* submission files (invalidateConfirmation and its callers).
ConfirmationIsCurrent ==
  \A v \in active : report.cur = v /\ report.conf = v

\* What the service accepts for submission is the text and the schedule that the
\* page showed when the user pressed the button, whatever was in flight, typed,
\* restored, drafted or adopted meanwhile (submitCurrentReport).
FiledAsShown ==
  submit.pc = "queue" /\ Accepted =>
    /\ version[report.conf].text = submit.text
    /\ version[report.conf].at = submit.at

----------------------------------------------------------------------------
(* Auxiliary invariants used by the proofs *)

\* What the page holds or is told of, and what is asked for, names versions.
Named ==
  /\ page.view.cur \in Versions
  /\ edit.pc = "done" => edit.got.cur \in Versions
  /\ undo.pc = "sent" => undo.to \in Versions
  /\ ai["page"].pc = "refresh" => ai["page"].base.cur \in Versions
  /\ \A w \in Askers : ai[w].pc = "suggested" => ai[w].gen \in Versions

\* The row names the only confirmation that is active, and it is current.
Pointed ==
  /\ report.conf \in {0, report.cur}
  /\ active \subseteq {report.conf}

\* The row version tells what the row was when a refresh read it.
ReadOnce ==
  ai["page"].pc = "refresh" =>
    /\ ai["page"].base.ver <= report.ver
    /\ ai["page"].base.ver = report.ver => ai["page"].base = report

IInv == TypeOK /\ Named /\ Pointed /\ ReadOnce

\* The rest is for FiledAsShown, where answers do not overtake one another.
Seen == {v \in Versions : version[v].origin # "unused"}
Latest == IF edit.pc = "done" THEN edit.got.cur ELSE page.view.cur

\* What the page shows and has not changed is the version it shows, unless that
\* one is no longer current.
FormTells ==
  ~page.away =>
    /\ page.dirty \/ page.form = version[page.view.cur].text \/ Latest # report.cur
    /\ page.unsaved \/ page.at = version[page.view.cur].at \/ Latest # report.cur

PageKnows ==
  /\ page.view.cur \in Seen
  /\ page.own # 0 => page.own \in Seen /\ (page.own = page.view.cur \/ page.own # report.cur)
  /\ page.away => page.own = 0 /\ edit.pc = "idle" /\ submit.pc = "idle"

\* A save in flight was made from the version the page shows, or it is refused;
\* one that is done differs from that version in what was asked for alone.
SentTells ==
  edit.pc = "sent" =>
    /\ edit.base.cur \in Seen
    /\ edit.base.cur = page.view.cur \/ edit.base.cur # report.cur
    /\ edit.kind = "settings" => page.at = edit.at \/ edit.base.cur # report.cur

DoneTells ==
  edit.pc = "done" =>
    /\ edit.got.cur \in Seen
    /\ page.view.cur = edit.got.cur \/ page.view.cur # report.cur
    /\ IF edit.kind = "text"
       THEN /\ version[edit.got.cur].text = edit.text
            /\ version[edit.got.cur].at = version[page.view.cur].at
       ELSE /\ version[edit.got.cur].text = version[page.view.cur].text
            /\ version[edit.got.cur].at = edit.at /\ page.at = edit.at

\* While the page does not know of a restore that is done, what it knows is old.
UndoTells ==
  undo.pc = "done" =>
    /\ page.view.cur # report.cur
    /\ edit.pc = "sent" => edit.base.cur # report.cur
    /\ edit.pc = "done" => edit.got.cur # report.cur

\* The version a flow of submission works on has what the page showed, apart
\* from what the flow has yet to save; or it is no longer current.
FlowTells ==
  /\ submit.pc = "text" =>
       /\ edit.pc # "idle" /\ edit.kind = "text"
       /\ edit.pc = "sent" =>
            /\ edit.text = submit.text
            /\ \/ edit.base.cur # report.cur
               \/ /\ page.at = submit.at
                  /\ submit.settings \/ version[edit.base.cur].at = submit.at
       /\ edit.pc = "done" =>
            /\ edit.text = submit.text /\ page.at = submit.at
            /\ submit.settings \/ version[edit.got.cur].at = submit.at
  /\ submit.pc = "settings" =>
       /\ edit.pc # "idle" /\ edit.kind = "settings"
       /\ edit.pc = "sent" =>
            /\ edit.at = submit.at
            /\ edit.base.cur # report.cur \/ version[edit.base.cur].text = submit.text
       /\ edit.pc = "done" =>
            edit.at = submit.at /\ version[edit.got.cur].text = submit.text
  /\ submit.pc \in {"confirm", "queue"} =>
       /\ submit.view.cur \in Seen
       /\ \/ submit.view.cur # report.cur
          \/ /\ version[submit.view.cur].text = submit.text
             /\ version[submit.view.cur].at = submit.at

ShowInv ==
  /\ budget.strays = 0
  /\ FormTells /\ PageKnows /\ SentTells /\ DoneTells /\ UndoTells /\ FlowTells

=============================================================================
