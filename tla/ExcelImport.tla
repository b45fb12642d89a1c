----------------------------- MODULE ExcelImport -----------------------------
(***************************************************************************)
(* Import of task sheets: a workbook is checked and parsed into a preview, *)
(* the user corrects its rows, and a commit turns them into tasks or into  *)
(* supplements of Jira tasks.  Several windows of the page work on the     *)
(* same previews while Jira is synchronised; the service may die.          *)
(*                                                                         *)
(* A cell keeps what the parser tells apart; a date is a number.           *)
(***************************************************************************)
EXTENDS Integers, SequencesExt

CONSTANTS
  Files, Windows, Jira, None,
  Bad, Uncached,  \* a cell that cannot be read, a formula without its cached value
  Books,          \* what the files may hold: functions from Files to Book, None for a file that is not there
  KnownJira,      \* Jira tasks that are synchronised from the start
  Edits,          \* what the user may type into the form of a row
  MaxEvents       \* bound: resolutions saved, changes in Jira, crashes, failed writes, lost answers

MergeFields == {"start", "due", "hours"}
Parents == {"A", "B"}
\* What the parser takes for the key of a parent: "short", like A-1, is refused in a correction.
Keys == Parents \union {"short"}
Dates == {1, 2}
Unread == {Bad, Uncached}
Dated == Dates \union {None}

\* One row of a sheet: what its cells hold.
Cells == [parent: Keys \union {"bad", "half", "none"}, title: {"t", "u", "long", None},
          who: {"me", "unsure", "other", None}, start: Dated \union Unread, due: Dated \union Unread,
          hours: {0, 8, None} \union Unread, days: {"same", "other", None} \union Unread]
\* A row as it was read or typed: what each field of the form may hold, and whether it is the user's.
Form == [parent |-> Keys \union {"bad", "half", None}, title |-> {"t", "u", "long", None},
         who |-> {"me", "unsure", "other", None}, start |-> Dated \union {Bad},
         due |-> Dated \union {Bad}, hours |-> {0, 8, None}]
Normal == [parent: Form.parent, title: Form.title, who: Form.who, start: Form.start, due: Form.due,
           hours: Form.hours, mine: BOOLEAN]

\* The checks of the container and of the size of the workbook, in their order.
Checks == <<"name", "size", "mime", "signature", "bomb", "ratio", "encrypted", "macro",
            "structure", "unreadable", "sheets", "dimension", "cells">>
Sheet == [exact: BOOLEAN, complete: BOOLEAN, standard: BOOLEAN, rows: Seq(Cells)]
Book == [faults: SUBSET ToSet(Checks), links: BOOLEAN, sheets: Seq(Sheet)]

\* What the constants must be; the module that gives them values assumes it.
ExcelAssumption ==
  /\ \A b \in Books : \A f \in Files : b[f] = None \/ b[f] \in Book
  /\ None \notin Files /\ KnownJira \subseteq Jira
  /\ \A e \in Edits : DOMAIN e \subseteq DOMAIN Form /\ \A x \in DOMAIN e : e[x] \in Form[x]
  /\ None \notin Keys \union {"t", "u", "long", "me", "unsure", "other"}
  /\ None \notin Dates \union Unread
  /\ Unread \intersect (Dates \union {0, 8}) = {}
  /\ MaxEvents \in Nat

VARIABLES
  book,      \* the files on the disk of the user
  file,      \* the import of a file: its row and the rows of its preview
  jira,      \* the Jira tasks as synchronised: what Jira says, what is shown, from which source
  made,      \* the tasks that exist in Excel only
  upload,    \* a preview being made for a window
  page,      \* what a window shows, and the idempotency record of its next commit
  call,      \* a commit on its way, for a window
  budget     \* the events left of MaxEvents

vars == <<book, file, jira, made, upload, page, call, budget>>

-----------------------------------------------------------------------------
(* The parser.                                                             *)

D(sev, code, cell) == [sev |-> sev, code |-> code, cell |-> cell]
When(p, d) == IF p THEN {d} ELSE {}

Verdict(b) == LET bad == {i \in DOMAIN Checks : Checks[i] \in b.faults}
              IN IF bad = {} THEN "ok" ELSE Checks[CHOOSE i \in bad : \A j \in bad : i <= j]

\* A sheet is taken by its name or by its headers; without its headers it has no rows.
Recognised(b) == {k \in DOMAIN b.sheets : b.sheets[k].exact \/ b.sheets[k].complete}

Blank(c) == c.parent = "none" /\ \A x \in DOMAIN c \ {"parent"} : c[x] = None

\* The nearest parent above row i of a sheet that could be read.
Inherited(rows, i) ==
  LET above == {j \in 1..(i - 1) : rows[j].parent \in Keys}
      nearest == {j \in above : \A k \in above : k <= j}
  IN IF nearest = {} THEN None ELSE rows[CHOOSE j \in nearest : TRUE].parent

ParentOf(rows, i) ==
  CASE rows[i].parent \in Keys -> rows[i].parent
    [] rows[i].parent = "none" -> Inherited(rows, i)
    [] OTHER -> None

ParentDiagnostics(rows, i) ==
  When(rows[i].parent = "bad", D("blocking", "PARENT_KEY_INVALID", None))
  \union When(rows[i].parent = "half", D("conflict", "PARENT_HALF_EMPTY", None))
  \union When(rows[i].parent = "none" /\ Inherited(rows, i) = None, D("blocking", "PARENT_MISSING", None))
  \union When(rows[i].parent = "none" /\ Inherited(rows, i) # None, D("info", "PARENT_INHERITED", None))

TitleDiagnostics(c) ==
  When(c.title = None /\ c.who # None, D("blocking", "TITLE_MISSING", None))
  \union When(c.title # None /\ c.who = None, D("warning", "ASSIGNEE_EMPTY", None))
  \union When(c.title = "long", D("blocking", "TITLE_TOO_LONG", None))

Read(v) == IF v \in Unread THEN None ELSE v

\* dateValue; "cell" is the column by which a later correction is recognised, which
\* takes column E for the start wherever the sheet has it.
DateDiagnostics(c, standard) ==
  LET At(f) == IF standard /\ f = "start" THEN "E" ELSE IF ~standard /\ f = "due" THEN "E" ELSE "F"
      Of(f) == When(c[f] \in Unread, D("blocking", "DATE_INVALID", At(f)))
      start == Read(c.start)  due == Read(c.due)
  IN Of("start") \union Of("due")
     \union When(start # None /\ due # None /\ due < start, D("blocking", "DATE_RANGE_INVALID", None))
     \union When(start = None /\ due # None, D("warning", "START_DATE_EMPTY", "E"))

\* effortValues: without hours the days say nothing.
EffortDiagnostics(c) ==
  When(c.hours = Uncached, D("blocking", "ESTIMATE_FORMULA_CACHE_MISSING", None))
  \union When(c.hours = Bad, D("blocking", "ESTIMATE_INVALID", None))
  \union (IF Read(c.hours) = None THEN {}
          ELSE When(c.days = Uncached, D("blocking", "PERSON_DAYS_FORMULA_CACHE_MISSING", None))
               \union When(c.days \in Unread, D("warning", "PERSON_DAYS_INVALID", None))
               \union When(c.days = "other", D("warning", "PERSON_DAYS_MISMATCH", None)))

\* Who counts as the user: the preview takes every enabled alias, a correction only verified ones.
Aliases(verified) == IF verified THEN {"me"} ELSE {"me", "unsure"}

NotMine(n) == When(n.who # None /\ ~n.mine, D("warning", "ASSIGNEE_NOT_CURRENT_USER", None))

Kind(c) == IF c.title = None /\ c.who = None THEN "container" ELSE "task"

\* prepareRow: the candidates are the Jira tasks of the same parent and title.
Prepared(s, i) ==
  LET rows == s.rows  c == rows[i]
      norm == [parent |-> ParentOf(rows, i), title |-> c.title, who |-> c.who, start |-> Read(c.start),
               due |-> Read(c.due), hours |-> Read(c.hours), mine |-> c.who \in Aliases(FALSE)]
      alike == {j \in Jira : /\ jira[j].known /\ Kind(c) = "task" /\ c.title # None
                             /\ jira[j].parent = norm.parent /\ jira[j].title = norm.title}
      exact == {j \in alike : jira[j].who = norm.who}
      only == \E j \in exact : exact = {j}
      unsure == alike # {} /\ ~only
      diags == ParentDiagnostics(rows, i) \union TitleDiagnostics(c) \union EffortDiagnostics(c)
               \union DateDiagnostics(c, s.standard) \union NotMine(norm)
               \union When(unsure, D("conflict", "JIRA_MATCH_AMBIGUOUS", None))
      Has(sev) == \E d \in diags : d.sev = sev
      matched == IF only THEN CHOOSE j \in exact : TRUE ELSE None
  IN [sheet |-> s.exact, kind |-> Kind(c), norm |-> norm, diags |-> diags, candidates |-> alike,
      matched |-> matched, version |-> 1,
      action |-> IF Has("blocking") THEN "blocked" ELSE IF Has("conflict") THEN "conflict"
                 ELSE IF Kind(c) = "container" THEN "skip"
                 ELSE IF matched # None THEN "link_jira" ELSE "create_excel"]

\* A row is named by its sheet and its number; blank ones are left out.
RowKeys(b) ==
  UNION {{<<k, i>> : i \in {i \in DOMAIN b.sheets[k].rows : ~Blank(b.sheets[k].rows[i])}} :
           k \in {k \in Recognised(b) : b.sheets[k].complete}}

RowsOf(b) == [x \in RowKeys(b) |-> Prepared(b.sheets[x[1]], x[2])]

\* What concerns the whole file.
SheetDiagnostics(b) ==
  When(\E k \in DOMAIN b.sheets : b.sheets[k].exact /\ ~b.sheets[k].complete,
       D("blocking", "REQUIRED_HEADER_MISSING", None))
  \union When(b.links, D("warning", "EXTERNAL_LINKS_IGNORED", None))

NoImport == [status |-> "none", version |-> 0, diags |-> {}, rows |-> <<>>]
Failed == [NoImport EXCEPT !.status = "failed", !.version = 1]

Preview(b) ==
  IF Verdict(b) # "ok" \/ Recognised(b) = {} \/ RowKeys(b) = {} THEN Failed
  ELSE [status |-> "preview_ready", version |-> 1, diags |-> SheetDiagnostics(b), rows |-> RowsOf(b)]

-----------------------------------------------------------------------------
(* State.                                                                  *)

Empty == [f \in MergeFields |-> None]
NoPage == [file |-> None, shown |-> NoImport, ack |-> FALSE, key |-> None]

Init ==
  /\ book \in Books
  /\ file = [f \in Files |-> NoImport]
  /\ jira = [j \in Jira |-> [known |-> j \in KnownJira, parent |-> "A", title |-> "t", who |-> "me",
                             fact |-> Empty, value |-> Empty, source |-> Empty]]
  /\ made = {}
  /\ upload = [w \in Windows |-> None]
  /\ page = [w \in Windows |-> NoPage]
  /\ call = [w \in Windows |-> None]
  /\ budget = MaxEvents

Event == budget > 0 /\ budget' = budget - 1
Idle(w) == upload[w] = None /\ call[w] = None

\* A window opens an import: the box is cleared and the next commit gets a new key.
Opened(f, imported) == [file |-> f, shown |-> imported, ack |-> FALSE, key |-> None]

\* A synchronisation of Jira adds a task or brings a value of a field.
JiraSync(j) ==
  /\ Event
  /\ \/ ~jira[j].known /\ jira' = [jira EXCEPT ![j].known = TRUE]
     \/ \E f \in {"due", "hours"}, x \in {None, 2} :
          /\ jira[j].known /\ x # jira[j].fact[f]
          /\ jira' = [jira EXCEPT
               ![j].fact[f] = x,
               ![j].value[f] = IF x = None /\ jira[j].source[f] = "excel" THEN @ ELSE x,
               ![j].source[f] = IF x # None THEN "jira" ELSE IF @ = "excel" THEN @ ELSE None]
  /\ UNCHANGED <<book, file, made, upload, page, call>>

-----------------------------------------------------------------------------
(* Preview.                                                                *)

\* A file that was seen before is opened again, whatever has changed since; one that
\* failed stays failed.
Upload(w, f) ==
  /\ Idle(w) /\ book[f] # None
  /\ \/ /\ file[f].status = "none"
        /\ upload' = [upload EXCEPT ![w] = [file |-> f, result |-> Preview(book[f])]]
        /\ UNCHANGED page
     \/ /\ file[f].status \in {"preview_ready", "committed"}
        /\ page' = [page EXCEPT ![w] = Opened(f, file[f])]
        /\ UNCHANGED upload
  /\ UNCHANGED <<book, file, jira, made, call, budget>>

\* The preview is stored; the hash of the file is unique, so the second of two previews
\* opens the first one, and a second failure is not stored.
Store(w, result) ==
  LET f == upload[w].file
      first == file[f].status = "none"
  IN /\ file' = IF first THEN [file EXCEPT ![f] = result] ELSE file
     /\ page' = IF result.status # "failed" THEN [page EXCEPT ![w] = Opened(f, file'[f])] ELSE page
     /\ upload' = [upload EXCEPT ![w] = None]
     /\ UNCHANGED <<book, jira, made, call>>

UploadEnds(w) == upload[w] # None /\ Store(w, upload[w].result) /\ UNCHANGED budget

\* Any fault while the preview is made is filed as a failure of the file.
UploadFails(w) == upload[w] # None /\ Event /\ Store(w, Failed)

Choose(w, f) ==
  /\ Idle(w) /\ file[f].status # "none" /\ page[w].file # f
  /\ page' = [page EXCEPT ![w] = Opened(f, file[f])]
  /\ UNCHANGED <<book, file, jira, made, upload, call, budget>>

\* The page reads the import again; the box stays as it is.
Refetch(w) ==
  /\ page[w].file # None /\ page[w].shown # file[page[w].file]
  /\ page' = [page EXCEPT ![w].shown = file[page[w].file]]
  /\ UNCHANGED <<book, file, jira, made, upload, call, budget>>

\* The page counts the diagnostics of all rows; the box is there when there are warnings.
Counted(im, sevs) ==
  {d \in im.diags \union UNION {im.rows[i].diags : i \in DOMAIN im.rows} : d.sev \in sevs}

Tick(w) ==
  /\ page[w].shown.status = "preview_ready" /\ ~page[w].ack
  /\ Counted(page[w].shown, {"warning"}) # {}
  /\ page' = [page EXCEPT ![w].ack = TRUE]
  /\ UNCHANGED <<book, file, jira, made, upload, call, budget>>

-----------------------------------------------------------------------------
(* Corrections.                                                            *)

\* The diagnostics that survive a correction which touches some fields.
Survives(d, touched) ==
  LET effort == d.code \in {"ESTIMATE_FORMULA_CACHE_MISSING", "ESTIMATE_INVALID",
                            "PERSON_DAYS_FORMULA_CACHE_MISSING", "PERSON_DAYS_INVALID",
                            "PERSON_DAYS_MISMATCH"}
  IN CASE d.sev \notin {"blocking", "conflict"} ->
            d.code # "ASSIGNEE_NOT_CURRENT_USER" /\ ~(effort /\ "hours" \in touched)
       [] d.code \in {"DATE_INVALID", "DATE_RANGE_INVALID"} ->
            (IF d.cell = "E" THEN "start" ELSE "due") \notin touched
       [] effort -> "hours" \notin touched
       [] OTHER -> FALSE

\* Mutant: a corrected row may end before it starts.
BrokenWithoutRange(n, kind) ==
  When(n.parent \in {None, "half"}, D("blocking", "PARENT_MISSING", None))
  \union When(n.parent \in {"bad", "short"}, D("blocking", "PARENT_KEY_INVALID", None))
  \union When(kind = "task" /\ n.title = None, D("blocking", "TITLE_MISSING", None))
  \union When(n.title = "long", D("blocking", "TITLE_TOO_LONG", None))
  \union When(Bad \in {n.start, n.due}, D("blocking", "DATE_INVALID", None))

\* The rules that a corrected row has to meet.  The key of a parent may be longer than the parser
\* takes it, and is then a key like any other.
Broken(n, kind) ==
  When(n.parent \in {None, "half"}, D("blocking", "PARENT_MISSING", None))
  \union When(n.parent \in {"bad", "short"}, D("blocking", "PARENT_KEY_INVALID", None))
  \union When(kind = "task" /\ n.title = None, D("blocking", "TITLE_MISSING", None))
  \union When(n.title = "long", D("blocking", "TITLE_TOO_LONG", None))
  \union When(Bad \in {n.start, n.due}, D("blocking", "DATE_INVALID", None))
  \union When(n.start \in Dates /\ n.due \in Dates /\ n.due < n.start,
              D("blocking", "DATE_RANGE_INVALID", None))

Revalidated(row, n, action, touched) ==
  IF action = "skip" THEN {D("info", "ROW_SKIPPED_BY_USER", None)}
  ELSE {d \in row.diags : Survives(d, touched)} \union Broken(n, row.kind)

\* prepareResolution: the row after the user's form.
Resolved(row, action, matched, typed, touched) ==
  LET n == [[x \in DOMAIN row.norm |-> IF x \in DOMAIN typed THEN typed[x] ELSE row.norm[x]]
              EXCEPT !.mine = (IF "who" \in DOMAIN typed THEN typed.who ELSE row.norm.who) \in Aliases(TRUE)]
  IN [row EXCEPT !.norm = n, !.action = action, !.version = @ + 1,
        !.matched = IF action = "link_jira" THEN matched ELSE None,
        !.diags = Revalidated(row, n, action, touched)
                  \union (IF action = "skip" THEN {} ELSE NotMine(n))]

FormFields == DOMAIN Form

\* saveResolutions for row i of the page: one transaction, guarded by both versions.  The
\* page sends every field of its form; a caller of the API may send fewer.
Save(w, i, action, matched, typed, touched) ==
  LET f == page[w].file
      shown == page[w].shown
  IN /\ Idle(w) /\ shown.status = "preview_ready" /\ Event
     /\ i \in DOMAIN shown.rows /\ DOMAIN typed \subseteq touched
     /\ shown.rows[i].kind = "container" => action = "skip"
     /\ action = "link_jira" => matched \in shown.rows[i].candidates
     /\ action # "link_jira" => matched = None
     /\ file[f].status = "preview_ready" /\ file[f].version = shown.version
     /\ file[f].rows[i].version = shown.rows[i].version
     /\ file' = [file EXCEPT ![f].version = @ + 1,
                             ![f].rows[i] = Resolved(@, action, matched, typed, touched)]
     /\ page' = [page EXCEPT ![w] = Opened(f, file'[f])]
     /\ UNCHANGED <<book, jira, made, upload, call>>

-----------------------------------------------------------------------------
(* Commit.                                                                 *)

Actionable(im) == {i \in DOMAIN im.rows : im.rows[i].action # "skip"}
Diagnostics(im) == im.diags \union UNION {im.rows[i].diags : i \in Actionable(im)}
Unresolved(im) == {d \in Diagnostics(im) : d.sev \in {"blocking", "conflict"}}
WarningsOf(im) == {d \in Diagnostics(im) : d.sev = "warning"}

CanCommit(p) ==
  /\ p.shown.status = "preview_ready"
  /\ Counted(p.shown, {"blocking", "conflict"}) = {}
  /\ Counted(p.shown, {"warning"}) = {} \/ p.ack

\* The stable key of a task that exists in Excel only.
KeyOf(row) == <<row.sheet, row.norm.parent, row.norm.title, row.norm.who, row.norm.start, row.norm.due>>

\* commitExcelTask: created, or updated when a row with the same key was committed before; the
\* source of a field is renewed only when the sheet has a value.
Created(tasks, row) ==
  LET old == {t \in tasks : t.key = KeyOf(row)}
      source == IF row.norm.hours # None THEN row.norm.hours
                ELSE IF old = {} THEN None ELSE (CHOOSE t \in old : TRUE).source
  IN (tasks \ old) \union {[key |-> KeyOf(row), mine |-> row.norm.mine, hours |-> row.norm.hours,
                            source |-> source]}

\* commitJiraSupplement: only what Jira leaves open is supplemented.
Supplemented(t, row) ==
  LET Owned(f) == t.value[f] # None /\ t.source[f] # "excel"
      Taken(f) == ~Owned(f) /\ row.norm[f] # None
  IN [t EXCEPT !.value = [f \in MergeFields |-> IF Taken(f) THEN row.norm[f] ELSE @[f]],
               !.source = [f \in MergeFields |-> IF Owned(f) THEN "jira"
                                                 ELSE IF Taken(f) THEN "excel" ELSE @[f]]]

CommitRow(db, row) ==
  CASE row.action = "create_excel" -> [db EXCEPT !.made = Created(@, row)]
    [] row.action = "link_jira" -> [db EXCEPT !.jira[row.matched] = Supplemented(@, row)]
    [] OTHER -> db

\* The rows of an import are committed sheet by sheet from the top.
CommitRows(tasks, issues, rows) ==
  LET order == SetToSortSeq(DOMAIN rows, LAMBDA x, y : x[1] < y[1] \/ (x[1] = y[1] /\ x[2] < y[2]))
  IN FoldLeft(CommitRow, [made |-> tasks, jira |-> issues], [n \in DOMAIN order |-> rows[order[n]]])

\* Mutant: the commit takes whatever version there is.
AcceptsAnyVersion(im, c) ==
  im.status = "preview_ready" /\ Unresolved(im) = {} /\ (WarningsOf(im) = {} \/ c.ack)

Accepts(im, c) ==
  im.status = "preview_ready" /\ im.version = c.version /\ Unresolved(im) = {}
  /\ (WarningsOf(im) = {} \/ c.ack)

\* The controller: a key starts a record, or answers from it.  A failed record answers as
\* one in progress, as does one whose service died, so the key is then of no more use.
Commit(w) ==
  LET p == page[w] IN
  /\ Idle(w) /\ CanCommit(p)
  /\ \/ /\ p.key = None
        /\ page' = [page EXCEPT ![w].key = "processing"]
        /\ call' = [call EXCEPT ![w] = [file |-> p.file, version |-> p.shown.version, ack |-> p.ack,
                                        rows |-> p.shown.rows]]
     \/ /\ p.key = "completed"
        /\ page' = [page EXCEPT ![w].shown = file[p.file]]
        /\ UNCHANGED call
  /\ UNCHANGED <<book, file, jira, made, upload, budget>>

\* The import once its rows are tasks: it and every row of it count on.
Committed(im) ==
  [im EXCEPT !.status = "committed", !.version = im.version + 1,
             !.rows = [i \in DOMAIN im.rows |-> [im.rows[i] EXCEPT !.version = im.rows[i].version + 1]]]

\* The transaction of a commit and its answer, which may be lost.
CommitEnds(w) ==
  LET c == call[w]
      im == file[c.file]
      db == CommitRows(made, jira, im.rows)
  IN /\ c # None
     /\ call' = [call EXCEPT ![w] = None]
     /\ \/ /\ im.status = "committed" \/ Accepts(im, c)
           /\ IF im.status = "committed" THEN UNCHANGED <<file, made, jira>>
              ELSE /\ made' = db.made /\ jira' = db.jira
                   /\ file' = [file EXCEPT ![c.file] = Committed(im)]
           /\ \/ page' = [page EXCEPT ![w].key = "completed", ![w].shown = file'[c.file]]
                 /\ UNCHANGED budget
              \/ page' = [page EXCEPT ![w].key = "completed"] /\ Event
        \/ /\ im.status # "committed" /\ ~Accepts(im, c)
           /\ page' = [page EXCEPT ![w].key = "failed"]
           /\ UNCHANGED <<file, made, jira, budget>>
     /\ UNCHANGED <<book, upload>>

\* The service dies: uploads and commits on their way are gone, nothing of them was stored.
Crash ==
  /\ Event /\ \E w \in Windows : ~Idle(w)
  /\ upload' = [w \in Windows |-> None] /\ call' = [w \in Windows |-> None]
  /\ UNCHANGED <<book, file, jira, made, page>>

Next ==
  \/ \E j \in Jira : JiraSync(j)
  \/ \E w \in Windows, f \in Files : Upload(w, f) \/ Choose(w, f)
  \/ \E w \in Windows : UploadEnds(w) \/ UploadFails(w) \/ Refetch(w) \/ Tick(w)
                        \/ Commit(w) \/ CommitEnds(w)
  \/ \E w \in Windows, a \in {"create_excel", "link_jira", "skip"}, j \in Jira \union {None}, e \in Edits :
        \E i \in DOMAIN page[w].shown.rows, s \in {FormFields, DOMAIN e} : Save(w, i, a, j, e, s)
  \/ Crash

Spec == Init /\ [][Next]_vars

-----------------------------------------------------------------------------
(* Properties.                                                             *)

Row(r) ==
  /\ r = [sheet |-> r.sheet, kind |-> r.kind, norm |-> r.norm, diags |-> r.diags, candidates |-> r.candidates,
          matched |-> r.matched, version |-> r.version, action |-> r.action]
  /\ r.norm \in Normal /\ r.kind \in {"container", "task"} /\ r.version \in Nat

Import(im) ==
  /\ im = [status |-> im.status, version |-> im.version, diags |-> im.diags, rows |-> im.rows]
  /\ im.status \in {"none", "preview_ready", "failed", "committed"} /\ im.version \in Nat
  /\ im.rows = [i \in DOMAIN im.rows |-> im.rows[i]] /\ \A i \in DOMAIN im.rows : Row(im.rows[i])

\* What a window shows, makes and sends; a commit on its way is that of the import it shows.
Window(u, p, c) ==
  /\ u # None => u = [file |-> u.file, result |-> u.result] /\ u.file \in Files /\ Import(u.result)
  /\ p \in [file: Files \union {None}, shown: {p.shown}, ack: BOOLEAN,
            key: {None, "processing", "completed", "failed"}]
  /\ Import(p.shown)
  /\ c # None => /\ c = [file |-> p.file, version |-> c.version, ack |-> c.ack, rows |-> c.rows]
                /\ c.file \in Files /\ c.version \in Nat /\ p.key = "processing"

TypeOK ==
  /\ book \in Books /\ budget \in 0..MaxEvents
  /\ file = [f \in Files |-> file[f]] /\ \A f \in Files : Import(file[f])
  /\ upload = [w \in Windows |-> upload[w]] /\ page = [w \in Windows |-> page[w]]
  /\ call = [w \in Windows |-> call[w]]
  /\ \A w \in Windows : Window(upload[w], page[w], call[w])

\* What the commit may rely on in a row that is not skipped and has nothing left to resolve.
Clean(row) == row.action # "skip" /\ \A d \in row.diags : d.sev \notin {"blocking", "conflict"}
Sound(row) ==
  LET n == row.norm IN
  /\ row.kind = "task" /\ n.parent \in Keys /\ n.title \in {"t", "u"}
  /\ {n.start, n.due} \subseteq Dated
  /\ n.start # None /\ n.due # None => n.start <= n.due
  /\ row.action = "link_jira" => row.matched \in row.candidates

\* Whatever was corrected, skipped and taken back, by whom and in which order: a row that is
\* committed meets every rule of the import, a container never becomes a task, and a link goes to
\* a candidate.
CommittedIsSound ==
  \A f \in Files : file[f].status = "committed" => \A i \in Actionable(file[f]) : Sound(file[f].rows[i])

\* What is committed is what the window showed that asked for it, although other windows
\* correct the same rows and commit them too.
CommitsAsShown ==
  \A f \in Files : file[f].status = "preview_ready" /\ file'[f].status = "committed" =>
    \E w \in Windows : /\ call[w] # None /\ call'[w] = None
                       /\ call[w].file = f /\ call[w].rows = file[f].rows
                       /\ (WarningsOf(file[f]) # {} => call[w].ack)

CommittedAsShown == [][CommitsAsShown]_vars

\* The rows that were committed to a task.
CommittedTo(P(_)) ==
  UNION {{file[f].rows[i] : i \in {i \in Actionable(file[f]) : P(file[f].rows[i])}} :
           f \in {f \in Files : file[f].status = "committed"}}

\* What a task shows has a source that can be named: a value that Jira gives is shown as it is, a
\* supplement is that of a committed row, a task of Excel has the hours of a committed row and,
\* unless a later sheet has emptied them, these are also the value its source names.
TasksTell ==
  /\ \A j \in Jira : \A f \in MergeFields :
       LET t == jira[j] IN
       /\ t.fact[f] # None => t.value[f] = t.fact[f]
       /\ t.fact[f] = None /\ t.value[f] # None =>
            /\ t.source[f] = "excel"
            /\ \E row \in CommittedTo(LAMBDA r : r.action = "link_jira" /\ r.matched = j) :
                 row.norm[f] = t.value[f]
  /\ \A t \in made :
       /\ \E row \in CommittedTo(LAMBDA r : r.action = "create_excel" /\ KeyOf(r) = t.key) :
            row.norm.hours = t.hours
       /\ t.hours # None => t.source = t.hours

-----------------------------------------------------------------------------
(* What the steps rely on.                                                 *)

\* Every clean row is sound, and nothing of what was committed is left to resolve.
Checked(im) ==
  /\ \A i \in DOMAIN im.rows : Clean(im.rows[i]) => Sound(im.rows[i])
  /\ im.status = "committed" => Unresolved(im) = {}

\* The same version is the same import; a window never knows a later one.
AsOld(old, im) ==
  /\ im.status # "none" /\ old.version <= im.version
  /\ old.version = im.version => old.rows = im.rows

\* What a window makes, shows and sends is in step with the imports that are stored.
Told(u, p, c, files) ==
  /\ u # None => c = None /\ u.result.status \in {"preview_ready", "failed"} /\ Checked(u.result)
  /\ IF p.file = None THEN p.shown = NoImport ELSE AsOld(p.shown, files[p.file])
  /\ c # None => AsOld(c, files[c.file])

InStep ==
  /\ \A f \in Files : Checked(file[f])
  /\ \A w \in Windows : Told(upload[w], page[w], call[w], file)

IInv == TypeOK /\ InStep
=============================================================================
