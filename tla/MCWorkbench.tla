---------------------------- MODULE MCWorkbench ----------------------------
(* Small instances of the components that one TLC run explores one after the *)
(* other: the first state chooses the part, only its actions follow, and the *)
(* variables of the other parts stay None. Variables of the same name are    *)
(* one variable, which means what the chosen part makes of it.               *)
EXTENDS Naturals, Sequences, TLC

CONSTANTS None,
          ta, tb, ca, da,                    \* WeeklyDraft: two tasks, a commit, a pipeline
          Bad, Uncached, xf, xg, i1, w1, w2, \* ExcelImport: two files, an issue, two windows
          pipe, ma, pa, pb, ka, kb           \* Evidence: a pipeline, a merge request, projects, texts;
                                             \* QuarterlyDraft: a report da, metrics ka and kb, templates pa and pb
                                             \* QuarterlyPage: two achievements ta and tb, templates pa and pb

VARIABLES part,
          task, item, draft, request, answer, changes,
          book, file, jira, made, upload, call,
          gitlab, scope, newer, cache, gone, sync, evidence, seen,
          fact, hashes, weekly, run, achievement, review, score, narrative, confirmation,
          attempt, offers, auto, current,
          main, wal, backup, copies, pending, app, moved, code, exec, left,
          rows, form, calls,
          link, page, budget

draftVars == <<task, item, draft, request, answer, changes>>
sheetVars == <<book, file, jira, made, upload, call>>
evidenceVars == <<gitlab, scope, newer, cache, gone, sync, evidence, seen>>
quarterVars == <<fact, hashes, weekly, run, achievement, score, narrative, confirmation,
                 attempt, auto, current>>
reviewVars == <<quarterVars, review, offers>>
restoreVars == <<main, wal, backup, copies, pending, app, moved, code, exec, left>>
screenVars == <<rows, form, calls>>
vars == <<part, draftVars, sheetVars, evidenceVars, reviewVars, restoreVars, screenVars,
          link, page, budget>>

NoDraft == /\ task = None /\ item = None /\ draft = None /\ request = None
           /\ answer = None /\ changes = None
NoSheet == /\ book = None /\ file = None /\ jira = None /\ made = None
           /\ upload = None /\ call = None
NoEvidence == /\ gitlab = None /\ scope = None /\ newer = None /\ cache = None /\ gone = None
              /\ sync = None /\ evidence = None /\ seen = None
NoQuarter == /\ fact = None /\ hashes = None /\ weekly = None /\ run = None
             /\ achievement = None /\ score = None /\ narrative = None
             /\ confirmation = None /\ attempt = None /\ auto = None /\ current = None
NoReview == NoQuarter /\ review = None /\ offers = None
NoRestore == /\ main = None /\ wal = None /\ backup = None /\ copies = None /\ pending = None
             /\ app = None /\ moved = None /\ code = None /\ exec = None /\ left = None
NoScreen == rows = None /\ form = None /\ calls = None

-----------------------------------------------------------------------------
(* WeeklyDraft: two tasks of a week with their evidence. *)

Usual == [mine |-> TRUE, visible |-> TRUE, secret |-> FALSE, status |-> "in_progress",
  work |-> None, hours |-> None, start |-> None, due |-> 5, moved |-> None,
  estimate |-> 4, remaining |-> None, sprint |-> None, root |-> None, parent |-> "plain",
  fresh |-> "fresh"]
Done == [Usual EXCEPT !.status = "done", !.work = [day |-> 2, hours |-> 3], !.parent = None]

\* The first task differs from the usual one in one respect or two.
Worked(hours) == [day |-> 2, hours |-> hours]
Varied ==
  UNION {
    {[Usual EXCEPT !.status = s, !.work = Worked(5)] : s \in {"planned", "in_progress", "done", "cancelled", "blocked"}},
    {[Usual EXCEPT !.work = x] : x \in {Worked(0), [day |-> 6, hours |-> 1]}},
    {[Usual EXCEPT !.start = a, !.due = b] : a \in {None, 1, 6}, b \in {None, 3, 6}},
    {[Usual EXCEPT !.work = Worked(1), !.estimate = a, !.remaining = b] : a \in {0, 4}, b \in {None, 1, 6}},
    {[Usual EXCEPT !.work = Worked(1), !.sprint = "goal", !.root = b, !.parent = x] :
       b \in {"top", None}, x \in {"plain", "tagged", None}},
    {[Usual EXCEPT !.mine = FALSE, !.work = x] : x \in {None, Worked(2)}},
    {[Usual EXCEPT !.status = "cancelled"], [Usual EXCEPT !.visible = FALSE],
     [Usual EXCEPT !.secret = TRUE], [Usual EXCEPT !.fresh = "stale"],
     [Usual EXCEPT !.secret = TRUE, !.status = "blocked", !.due = None, !.work = Worked(0)],
     [Usual EXCEPT !.moved = 2, !.due = None, !.work = Worked(0)]}}

NoLink == [x \in {ta, tb} \X {ca, da} |-> "none"]
ItemsOf(a, day) ==
  ca :> [kind |-> "commit", failed |-> FALSE, available |-> "available", day |-> 2, own |-> TRUE,
         secret |-> FALSE]
  @@ da :> [kind |-> "pipeline", failed |-> TRUE, available |-> a, day |-> day, own |-> FALSE,
            secret |-> day = 1]
WeekFacts ==
  {[task |-> ta :> v @@ tb :> Usual, link |-> [NoLink EXCEPT ![ta, da] = "confirmed"],
    item |-> ItemsOf("available", 4)] : v \in Varied}
  \union
  {[task |-> ta :> Usual @@ tb :> Done, link |-> [NoLink EXCEPT ![ta, da] = r, ![tb, ca] = s],
    item |-> ItemsOf(x[1], x[2])] :
     r \in {"confirmed", "suggested", "rejected"}, s \in {"confirmed", "suggested"},
     x \in {<<"available", 6>>, <<"available", 1>>, <<"unavailable", None>>}}

Asked == [workdays |-> 1..5, calendar |-> FALSE, unconfirmed |-> FALSE, fresh |-> FALSE,
          manual |-> {}, template |-> {}]
WeekDrafts ==
  {[Asked EXCEPT !.fresh = TRUE], [Asked EXCEPT !.workdays = {}],
   [Asked EXCEPT !.workdays = {2, 3, 6}, !.calendar = TRUE, !.unconfirmed = TRUE,
                 !.manual = {"weeklyWork", "problems", "nextWeekPlans"}],
   [Asked EXCEPT !.manual = {"problems"}, !.template = {"weeklyWork", "problems", "recentGoals"}]}
WeekRequests == {{"nextWeekPlans"}, {"weeklyWork", "recentGoals", "problems"}}

Draft == INSTANCE WeeklyDraft WITH Tasks <- {ta, tb}, Evidence <- {ca, da}, Facts <- WeekFacts,
           Drafts <- WeekDrafts, Requests <- WeekRequests, MaxChanges <- 1
ASSUME Draft!WeeklyDraftAssumption

DraftOnly ==
  /\ part = "draft"
  /\ UNCHANGED <<part, sheetVars, evidenceVars, reviewVars, restoreVars, screenVars, page, budget>>
DraftNext ==
  \/ \E x \in WeekDrafts : DraftOnly /\ Draft!Generate(x)
  \/ \E x \in {ta, tb} : DraftOnly /\ Draft!SourceChanges(x)
  \/ \E x \in WeekRequests : DraftOnly /\ Draft!Ask(x)
  \/ DraftOnly /\ Draft!Answers
  \/ DraftOnly /\ Draft!ProviderFails

-----------------------------------------------------------------------------
(* ExcelImport: sheets of one or two rows, two windows. *)

Plain == [parent |-> "A", title |-> "t", who |-> "me", start |-> 1, due |-> 2, hours |-> 8, days |-> "same"]
Under == [Plain EXCEPT !.parent = "none", !.title = "u", !.hours = None]
OneSheet(list) ==
  [faults |-> {}, links |-> FALSE,
   sheets |-> <<[exact |-> TRUE, complete |-> TRUE, standard |-> TRUE, rows |-> list]>>]
Container == [Plain EXCEPT !.title = None, !.who = None, !.start = None, !.due = None,
                           !.hours = None, !.days = None]
FirstRows ==
  {Container, [Plain EXCEPT !.parent = "short"],
   [Plain EXCEPT !.parent = "bad", !.title = "long", !.start = 2, !.due = 1],
   [Plain EXCEPT !.title = None, !.who = "unsure", !.start = Bad, !.hours = Uncached]}
Faulty == [OneSheet(<<Plain>>) EXCEPT !.faults = {"macro", "structure"}]
TwoSheets ==
  [OneSheet(<<[Under EXCEPT !.parent = "A", !.start = None]>>) EXCEPT !.links = TRUE,
     !.sheets = Append(@, [exact |-> TRUE, complete |-> FALSE, standard |-> TRUE, rows |-> <<Under>>])]
SheetBooks ==
  {xf :> OneSheet(<<r, Under>>) @@ xg :> None : r \in FirstRows}
  \union {xf :> Faulty @@ xg :> None, xf :> TwoSheets @@ xg :> None,
          xf :> OneSheet(<<[Under EXCEPT !.parent = "A"]>>)
            @@ xg :> OneSheet(<<[Under EXCEPT !.parent = "A", !.hours = 8]>>)}
SheetEdits == {<<>>, [start |-> 1, due |-> 2, hours |-> 0],
               [parent |-> "B", title |-> "u", who |-> "me", start |-> 2, due |-> 1]}

Sheet == INSTANCE ExcelImport WITH Files <- {xf, xg}, Windows <- {w1, w2}, Jira <- {i1},
           KnownJira <- {i1}, Books <- SheetBooks, Edits <- SheetEdits, MaxEvents <- 2
ASSUME Sheet!ExcelAssumption

SheetOnly ==
  /\ part = "sheet"
  /\ UNCHANGED <<part, draftVars, evidenceVars, reviewVars, restoreVars, screenVars, link>>
SheetNext ==
  \/ SheetOnly /\ Sheet!JiraSync(i1)
  \/ \E x \in {w1, w2}, f \in {xf, xg} : SheetOnly /\ Sheet!Upload(x, f)
  \/ \E x \in {w1, w2}, f \in {xf, xg} : SheetOnly /\ Sheet!Choose(x, f)
  \/ \E x \in {w1, w2} : SheetOnly /\ Sheet!UploadEnds(x)
  \/ \E x \in {w1, w2} : SheetOnly /\ Sheet!UploadFails(x)
  \/ \E x \in {w1, w2} : SheetOnly /\ Sheet!Refetch(x)
  \/ \E x \in {w1, w2} : SheetOnly /\ Sheet!Tick(x)
  \/ \E x \in {w1, w2} : SheetOnly /\ Sheet!Commit(x)
  \/ \E x \in {w1, w2} : SheetOnly /\ Sheet!CommitEnds(x)
  \/ /\ SheetOnly
     /\ \E x \in {w1, w2}, i \in {1} \X {1, 2}, a \in {"create_excel", "link_jira", "skip"},
           j \in {i1, None}, e \in SheetEdits : \E s \in {Sheet!FormFields, DOMAIN e} :
             Sheet!Save(x, i, a, j, e, s)
  \/ SheetOnly /\ Sheet!Crash

-----------------------------------------------------------------------------
(* Evidence: a commit, its pipeline in one project, a merge request in another. *)

Ev == INSTANCE Evidence WITH
        Sources <- {ca, pipe, ma}, Projects <- {pa, pb},
        Kind <- ca :> "commit" @@ pipe :> "pipeline" @@ ma :> "merge_request",
        ProjectOf <- ca :> pa @@ pipe :> pa @@ ma :> pb, CommitOf <- pipe :> ca,
        Texts <- {ka, kb}, KeyTexts <- {ka}, WordTexts <- {kb},
        Budgets <- {[changes |-> 1, runs |-> 2, decisions |-> 1],
                    [changes |-> 0, runs |-> 1, decisions |-> 2]}
ASSUME Ev!EvidenceAssumption

EvidenceOnly ==
  /\ part = "evidence"
  /\ UNCHANGED <<part, draftVars, sheetVars, reviewVars, restoreVars, screenVars>>
EvidenceNext ==
  \/ \E s \in {ca, pipe, ma} : EvidenceOnly /\ Ev!Change(s)
  \/ \E x \in {pa, pb} : EvidenceOnly /\ Ev!Rescope(x)
  \/ EvidenceOnly /\ Ev!SyncStart
  \/ \E x \in {pa, pb} : EvidenceOnly /\ Ev!Resolve(x)
  \/ EvidenceOnly /\ Ev!Fetch
  \/ EvidenceOnly /\ Ev!Save
  \/ EvidenceOnly /\ Ev!ProjectDone
  \/ EvidenceOnly /\ Ev!ProjectFails
  \/ EvidenceOnly /\ Ev!SyncFails
  \/ EvidenceOnly /\ Ev!AllRead
  \/ EvidenceOnly /\ Ev!Refresh
  \/ EvidenceOnly /\ Ev!Load
  \/ EvidenceOnly /\ Ev!BatchConfirm
  \/ \E s \in {ca, pipe, ma} : EvidenceOnly /\ Ev!Confirm(s)
  \/ \E s \in {ca, pipe, ma} : EvidenceOnly /\ Ev!Reject(s)
  \/ \E s \in {ca, pipe, ma} : EvidenceOnly /\ Ev!Revoke(s)
  \/ \E s \in {ca, pipe, ma} : EvidenceOnly /\ Ev!CreateManual(s)
  \/ \E s \in {ca, pipe, ma} : EvidenceOnly /\ Ev!DeadlinePasses(s)
  \/ EvidenceOnly /\ Ev!ExpireDueLinks

-----------------------------------------------------------------------------
(* QuarterlyDraft: a task and a commit that may belong together. The review  *)
(* has its template and one score when the run begins.                       *)

QuarterFacts ==
  LET apart == [mine |-> {1}, done |-> {1}, parent |-> [x \in {1, 3} |-> IF x = 1 THEN 3 ELSE None],
                link |-> {}, within |-> {ca}, own |-> {ca},
                listed |-> {ca}, available |-> {ca}, old |-> {}, report |-> da :> [tasks |-> {1}, sourced |-> TRUE]]
  IN {apart, [apart EXCEPT !.link = {<<1, ca>>}, !.old = {1}]}
Measured(weight, required) ==
  [weight |-> weight, min |-> 1, max |-> 5, step |-> 2, required |-> required, enabled |-> TRUE]
QuarterTemplates ==
  pa :> [formula |-> "weighted_average_100", rounding |-> "half_up_integer",
        metric |-> ka :> Measured(60, TRUE) @@ kb :> Measured(40, FALSE)]
  @@ pb :> [formula |-> "simple_sum", rounding |-> "none", metric |-> kb :> Measured(1, TRUE)]

Review == INSTANCE QuarterlyDraft WITH Tasks <- {1, 3}, Evidence <- {ca}, Reports <- {da},
            Metrics <- {ka, kb}, Facts <- QuarterFacts, Template <- QuarterTemplates, Scores <- {3},
            MaxChanges <- 1, MaxEdits <- 2, MaxTicks <- 2
ASSUME Review!QuarterlyDraftAssumption

\* Review!Init after its user has bound the template pa and given the score of ka.
ReviewInit ==
  /\ score = [x \in {ka, kb} |-> IF x = ka THEN [user |-> 3, ai |-> None] ELSE Review!Unscored]
  /\ review = [status |-> "scoring", template |-> pa,
               checks |-> [Review!NoChecks EXCEPT !.counts = Review!Counted(<<>>, pa, Review!Given(score))]]
  /\ fact \in QuarterFacts /\ fact.old = {}
  /\ hashes = {} /\ weekly = FALSE /\ run = None /\ achievement = <<>>
  /\ narrative = [text |-> Review!NoText, by |-> "none", earlier |-> {}]
  /\ confirmation = None /\ attempt = [a \in Review!Who |-> None] /\ offers = {}
  /\ auto = "idle" /\ current = {} /\ budget = [changes |-> 1, edits |-> 2, ticks |-> 2]

ReviewOnly ==
  /\ part = "review"
  /\ UNCHANGED <<part, draftVars, sheetVars, evidenceVars, restoreVars, screenVars, link, page>>
ReviewKeys == IF part = "review" THEN DOMAIN achievement ELSE {}
AllRisks == {"withoutEvidence", "withoutMetric", "uncovered", "duplicated", "freshness"}
ReviewNext ==
  \/ ReviewOnly /\ Review!SourceChanges
  \/ ReviewOnly /\ Review!NewWeek
  \/ \E s \in {Review!Sources, {"tasks"}} : ReviewOnly /\ Review!Collect(s, "require_fresh")
  \/ ReviewOnly /\ Review!CollectionReads
  \/ ReviewOnly /\ Review!CollectionEnds
  \/ ReviewOnly /\ Review!CollectionStops
  \/ ReviewOnly /\ Review!CollectionIsStale
  \/ ReviewOnly /\ Review!CreateManual
  \/ \E x \in ReviewKeys : ReviewOnly /\ Review!Update(x)
  \/ \E x \in ReviewKeys, y \in {"selected", "excluded"} : ReviewOnly /\ Review!Select(x, y)
  \/ \E x \in ReviewKeys, y \in BOOLEAN : ReviewOnly /\ Review!AddEvidence(x, Review!ManualLink, y, ~y)
  \/ \E x \in ReviewKeys, y \in {{ka}, {ka, kb}} : ReviewOnly /\ Review!Map(x, y)
  \/ \E x \in {pa, pb} : ReviewOnly /\ Review!BindTemplate(x)
  \/ \E x \in {3, None} : ReviewOnly /\ Review!UpdateScore(ka, x)
  \/ ReviewOnly /\ Review!CreateRuleNarrative
  \/ \E x \in ReviewKeys : ReviewOnly /\ Review!CreateManualNarrative({x})
  \/ ReviewOnly /\ Review!RestoreNarrative
  \/ ReviewOnly /\ Review!AdoptAi
  \/ ReviewOnly /\ Review!RejectAi
  \/ \E x \in {{}, AllRisks} : ReviewOnly /\ Review!Confirm(x)
  \/ \E x \in {"narrative", "scores"} : ReviewOnly /\ Review!AskAi(x)
  \/ \E x \in Review!Who : ReviewOnly /\ Review!Load(x)
  \/ \E x \in Review!Who : ReviewOnly /\ Review!Fails(x)
  \/ \E x \in Review!Who : ReviewOnly /\ Review!Dropped(x)
  \/ \E x \in Review!Who : ReviewOnly /\ Review!Writes(x, Review!Selected(achievement))
  \/ \E x \in Review!Who : ReviewOnly /\ Review!Suggests(x, 3, Review!Selected(achievement))
  \/ ReviewOnly /\ Review!AutoTick
  \/ ReviewOnly /\ Review!AutoSelect
  \/ ReviewOnly /\ Review!AutoAsks
  \/ ReviewOnly /\ Review!AutoAdopts
  \/ ReviewOnly /\ Review!AutoScores

-----------------------------------------------------------------------------
(* Backup: one verified backup, the restore of which may be prepared already. *)

Restore == INSTANCE Backup WITH MaxBackups <- 2,
             Bounds <- [requests |-> 1, writes |-> 1, damages |-> 1, crashes |-> 1, starts |-> 2, upgrades |-> 1]
ASSUME Restore!BackupAssumption

Backed == [Restore!Fresh(1, 1) EXCEPT !.row[1] = "running", !.running = {<<"create", "manual">>}]
Verified == [Backed EXCEPT !.row[1] = "verified", !.running = {}]
Saved == [Verified EXCEPT !.row[2] = "running", !.running = {<<"restore", 1>>}]

\* Restore!Init after one backup was made and verified, and perhaps its restore prepared.
RestoreInit ==
  /\ \/ /\ main = Verified /\ backup = <<[is |-> "whole", of |-> Backed], Restore!NoFile>>
        /\ pending = None
        /\ budget \in {[requests |-> 2, writes |-> 0, damages |-> 0, crashes |-> 0, starts |-> 0, upgrades |-> 0],
                       [requests |-> 1, writes |-> 0, damages |-> 0, crashes |-> 1, starts |-> 1, upgrades |-> 0]}
     \/ /\ main = [Verified EXCEPT !.row[2] = "succeeded"]
        /\ backup = <<[is |-> "whole", of |-> Backed], [is |-> "whole", of |-> Saved]>>
        /\ pending = [backup |-> 1, safety |-> 2]
        /\ budget = [requests |-> 0, writes |-> 1, damages |-> 1, crashes |-> 2, starts |-> 2, upgrades |-> 1]
  /\ wal = None /\ copies = {} /\ app = "up" /\ moved = None /\ code = 1
  /\ exec = [x \in Restore!Types |-> None] /\ page = None /\ left = Restore!Left(main, main)

RestoreOnly ==
  /\ part = "restore"
  /\ UNCHANGED <<part, draftVars, sheetVars, evidenceVars, reviewVars, screenVars, link>>
Makers == {"create", "restore"}
RestoreNext ==
  \/ RestoreOnly /\ Restore!Write
  \/ RestoreOnly /\ Restore!AutoCheckpoint
  \/ RestoreOnly /\ Restore!RequestBackup
  \/ RestoreOnly /\ Restore!ScheduleDailyBackup
  \/ \E x \in {1, 2} : RestoreOnly /\ Restore!RequestVerify(x)
  \/ \E x \in {1, 2} : RestoreOnly /\ Restore!OpenRestore(x)
  \/ \E x \in {1, 2} : RestoreOnly /\ Restore!Damage(x)
  \/ RestoreOnly /\ Restore!RequestRestore
  \/ RestoreOnly /\ Restore!CancelPendingRestore
  \/ \E x \in Restore!Jobs : RestoreOnly /\ Restore!Claim(x)
  \/ \E x \in Makers : RestoreOnly /\ Restore!CreateBegins(x)
  \/ \E x \in Makers : RestoreOnly /\ Restore!CreateCopies(x)
  \/ \E x \in Makers : RestoreOnly /\ Restore!CreateRenames(x)
  \/ \E x \in Makers : RestoreOnly /\ Restore!CreateSucceeds(x)
  \/ \E x \in Makers : RestoreOnly /\ Restore!CreateFails(x)
  \/ \E x \in Restore!Types : RestoreOnly /\ Restore!Throws(x)
  \/ \E x \in Restore!Types : RestoreOnly /\ Restore!Settles(x)
  \/ RestoreOnly /\ Restore!VerifyHashes
  \/ RestoreOnly /\ Restore!VerifySucceeds
  \/ RestoreOnly /\ Restore!PrepareChecks
  \/ RestoreOnly /\ Restore!PrepareWrites
  \/ RestoreOnly /\ Restore!Stop
  \/ RestoreOnly /\ Restore!Crash
  \/ RestoreOnly /\ Restore!Upgrade
  \/ RestoreOnly /\ Restore!Migrate
  \/ RestoreOnly /\ Restore!Start
  \/ RestoreOnly /\ Restore!CopyBackup
  \/ RestoreOnly /\ Restore!MoveDatabase
  \/ RestoreOnly /\ Restore!ClearLog
  \/ RestoreOnly /\ Restore!Switch
  \/ RestoreOnly /\ Restore!Applied
  \/ RestoreOnly /\ Restore!StartFails
  \/ RestoreOnly /\ Restore!Connect

-----------------------------------------------------------------------------
(* QuarterlyPage: a selected achievement without evidence. The page makes    *)
(* one request while others make one; two confirmations of a review without  *)
(* risks, the second perhaps of what was confirmed; an offer that others     *)
(* have the AI write; a collection that runs for a review without template.  *)
(* "link" holds the requests that each exploration makes. While it has one   *)
(* left to make the page reads on, what is due in one order.                 *)

Told(x, links, proof) == [version |-> 1, text |-> 1, select |-> x, links |-> links, ev |-> proof]
Filled == [version |-> 1, template |-> pa, scores |-> 1, text |-> 1, confirmed |-> None, collecting |-> FALSE]
Empty == [Filled EXCEPT !.template = None, !.scores = 0, !.text = 0, !.collecting = TRUE]
ScreenStarts ==
  {[review |-> Filled, rows |-> ta :> Told("selected", 1, 0) @@ tb :> None],
   [review |-> Filled, rows |-> ta :> Told("selected", 1, 1) @@ tb :> None],
   [review |-> Empty, rows |-> ta :> Told("candidate", 0, 1) @@ tb :> None]}
Requests == {"save", "evidence", "map", "bind", "scores", "ai", "rule", "text", "decide", "confirm"}

Screen == INSTANCE QuarterlyPage WITH Achievements <- {ta, tb}, Templates <- {pa, pb},
            Starts <- ScreenStarts, Others <- {"save", "scores", "text", "ai", "bind"},
            Budgets <- {[own |-> 1, other |-> 1], [own |-> 2, other |-> 0], [own |-> 1, other |-> 2]}
ASSUME Screen!QuarterlyPageAssumption

ScreenInit ==
  /\ Screen!Init
  /\ \/ rows[ta].ev = 0 /\ budget.other = 1 /\ link = [page |-> Requests, others |-> {"save", "scores", "bind"}]
     \/ review.text # 0 /\ rows[ta].ev = 1 /\ budget.own = 2 /\ link = [page |-> {"confirm"}, others |-> {}]
     \/ rows[ta].ev = 0 /\ budget.other = 2 /\ link = [page |-> {"decide"}, others |-> {"ai", "text"}]
     \/ review.text = 0 /\ budget.other = 1 /\ link = [page |-> {"collect", "select"}, others |-> {"save", "bind"}]

ScreenOnly ==
  /\ part = "screen"
  /\ UNCHANGED <<part, draftVars, sheetVars, evidenceVars, quarterVars, restoreVars, link>>
Reading == ScreenOnly /\ budget.own > 0
ReadOrder == <<"text", "gate", "table", "all", "offers">>
IsFirst(q) == \A i, j \in 1..5 : ReadOrder[i] = q /\ ReadOrder[j] \in page.due => i <= j
OfPage == IF part = "screen" THEN link.page ELSE {}
OfOthers == IF part = "screen" THEN link.others ELSE {}
ScreenNext ==
  \/ Reading /\ Screen!Poll
  \/ Reading /\ page.due = {} /\ (page.at # review.version \/ page.offers # offers) /\ Screen!Refresh
  \/ Reading /\ Screen!Reason
  \/ \E x \in Screen!Queries : Reading /\ IsFirst(x) /\ Screen!Fetch(x)
  \/ \E x \in {"selected", "candidate"} : "select" \in OfPage /\ Reading /\ Screen!ChooseFilter(x)
  \/ \E x \in {ta, tb} : "select" \in OfPage /\ Reading /\ Screen!Tick(x)
  \/ Reading /\ Screen!Close
  \/ "save" \in OfPage /\ \E x \in Screen!Captured : Reading /\ Screen!OpenAchievementEditor(x)
  \/ \E x \in {ta, tb} : "evidence" \in OfPage /\ Reading /\ Screen!OpenEvidence(x)
  \/ \E x \in {ta, tb} : "map" \in OfPage /\ Reading /\ Screen!OpenMapping(x)
  \/ "select" \in OfPage /\ Reading /\ Screen!OpenSelection("excluded")
  \/ \E x \in {ta, tb} : "select" \in OfPage /\ Reading /\ Screen!Drag(x)
  \/ "collect" \in OfPage /\ Reading /\ Screen!OpenCollection
  \/ "text" \in OfPage /\ Reading /\ Screen!OpenNarrativeEditor
  \/ "decide" \in OfPage /\ \E x \in {"restore", "adopt", "reject"}, o \in page.offers \union {0} :
       Reading /\ Screen!OpenDecision(x, o)
  \/ "confirm" \in OfPage /\ Reading /\ Screen!OpenConfirmation
  \/ ScreenOnly /\ Screen!Submit
  \/ \E x \in {pa, pb} : "bind" \in OfPage /\ ScreenOnly /\ Screen!BindTemplate(x)
  \/ "scores" \in OfPage /\ ScreenOnly /\ Screen!SaveScores
  \/ "ai" \in OfPage /\ ScreenOnly /\ Screen!GenerateAi
  \/ "rule" \in OfPage /\ ScreenOnly /\ Screen!CreateRuleNarrative
  \/ \E x \in OfPage, y \in BOOLEAN : ScreenOnly /\ Screen!Served(x, y)
  \/ \E x \in OfPage : ScreenOnly /\ Screen!Succeeds(x)
  \/ \E x \in OfPage : ScreenOnly /\ Screen!Fails(x)
  \/ \E x \in OfOthers, a \in {{}, {ta}}, y \in {None, pa, pb} : ScreenOnly /\ Screen!OtherWrites(x, a, y, 0)
  \/ \E a \in SUBSET {ta, tb}, y \in BOOLEAN : ScreenOnly /\ Screen!CollectionEnds(a, y)

-----------------------------------------------------------------------------
Init ==
  \/ /\ part = "draft" /\ Draft!Init /\ NoSheet /\ NoEvidence /\ NoReview /\ NoRestore
     /\ NoScreen /\ page = None /\ budget = None
  \/ /\ part = "sheet" /\ Sheet!Init /\ NoDraft /\ NoEvidence /\ NoReview /\ NoRestore
     /\ NoScreen /\ link = None
  \/ /\ part = "evidence" /\ Ev!Init /\ NoDraft /\ NoSheet /\ NoReview /\ NoRestore /\ NoScreen
  \/ /\ part = "review" /\ ReviewInit /\ NoDraft /\ NoSheet /\ NoEvidence /\ NoRestore
     /\ NoScreen /\ link = None /\ page = None
  \/ /\ part = "restore" /\ RestoreInit /\ NoDraft /\ NoSheet /\ NoEvidence /\ NoReview
     /\ NoScreen /\ link = None
  \/ /\ part = "screen" /\ ScreenInit /\ NoDraft /\ NoSheet /\ NoEvidence /\ NoQuarter /\ NoRestore

Next == DraftNext \/ SheetNext \/ EvidenceNext \/ ReviewNext \/ RestoreNext \/ ScreenNext

Spec == Init /\ [][Next]_vars

-----------------------------------------------------------------------------
(* The properties of each part. *)

\* Every reachable state of every part is well typed.
TypeOK ==
  /\ part = "draft" => Draft!TypeOK
  /\ part = "sheet" => Sheet!TypeOK
  /\ part = "evidence" => Ev!TypeOK
  /\ part = "review" => Review!TypeOK
  /\ part = "restore" => Restore!TypeOK
  /\ part = "screen" => Screen!TypeOK

\* The weekly draft tells the week, and an accepted AI answer says no more than the sources
\* (weekly-report-rules.ts, weekly-report-ai.policy.ts).
DraftIsSound == part = "draft" => Draft!WeekIsTold /\ Draft!AnswerSaysNoMore

\* A committed row of a sheet meets every rule of the import, and what a task shows afterwards has
\* a source that can be named (excel-import-commit.service.ts).
ImportIsSound == part = "sheet" => Sheet!CommittedIsSound /\ Sheet!TasksTell /\ Sheet!InStep


\* An active confirmation of a quarterly review is that of the review as it is, and so are its
\* checks (quarterly-narrative-confirmation.service.ts, quarterly-completeness.service.ts); what the
\* page of the reviews shows or has sent is older or true (QuarterlyReviewsPage.tsx).
ReviewIsSound ==
  /\ part = "review" =>
       Review!ConfirmationTells /\ Review!AverageIsBetween /\ Review!ChecksAreCurrent /\ Review!InStep
  /\ part = "screen" => Screen!CopiesTell /\ Screen!RequestsFit

\* The application opens the database it left or the backup whose restore was prepared; of what was
\* left, only a log that a crash left behind is lost, and only to a pending restore; and a row that
\* a backup was made has its file (pending-restore.ts, backup.handlers.ts).
RestoreIsSound ==
  part = "restore" =>
    Restore!ComesUpAsLeft /\ Restore!OnlyALogIsLost /\ Restore!RowsHaveFiles /\ Restore!PendingIsSafe

\* What is committed of a sheet is what the window showed; a collection takes nothing from the user,
\* and what the AI proposes rests on the review as it is when it is stored; the page of the reviews
\* writes over nothing that it has not shown (ExcelImportModal.tsx, quarterly-collection.service.ts,
\* quarterly-review-ai.service.ts, QuarterlyReviewsPage.tsx).
StepsKeep ==
  [][ /\ part = "sheet" => Sheet!CommitsAsShown
      /\ part = "review" => Review!CollectsKindly /\ Review!ProposesGrounded
      /\ part = "screen" => Screen!SavesAsShown ]_vars

Windows == Permutations({w1, w2})
=============================================================================
