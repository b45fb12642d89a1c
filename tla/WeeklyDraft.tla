----------------------------- MODULE WeeklyDraft -----------------------------
(***************************************************************************)
(* How a weekly report gets its content: the sources of a period are       *)
(* collected, the rules of packages/domain (weekly-report-rules) turn them *)
(* into blocks, the AI is shown a checked selection of the same sources,   *)
(* and its answer is accepted only when it says nothing else.              *)
(*                                                                         *)
(* One week, days 1..7, one project.  A text is a set of lines; a line     *)
(* keeps what the rules decide (which task, under which heading, with what *)
(* status and completion) and not its wording.  An hour is the unit of     *)
(* worklogs and estimates.  Numbers, dates and issue keys of a text are    *)
(* "facts": every source supports the fact that carries its name.          *)
(***************************************************************************)
EXTENDS Integers, FiniteSets, FiniteSetsExt, Sequences

CONSTANTS
  Tasks, Evidence, None,
  Facts,           \* what may have been synchronised: [task, link, item]
  Drafts,          \* what generate may be asked for, see Draft
  Requests,        \* sets of fields the AI may be asked for
  MaxChanges       \* bound: changes of the sources after the draft

Days == 1..7
Fields == {"recentGoals", "weeklyWork", "nextWeekPlans", "problems", "other"}
Statuses == {"planned", "in_progress", "blocked", "done", "cancelled", "other"}

\* The working days of the week and whether they are of a calendar, the options of the request,
\* the fields the user has typed an input for, and those with default content.
Draft == [workdays: SUBSET Days, calendar: BOOLEAN, unconfirmed: BOOLEAN, fresh: BOOLEAN,
          manual: SUBSET Fields, template: SUBSET Fields]

\* What the constants must be; the module that gives them values assumes it.
WeeklyDraftAssumption ==
  /\ Drafts \subseteq Draft
  /\ Requests \subseteq (SUBSET Fields) \ {{}}
  /\ MaxChanges \in Nat

VARIABLES
  task,      \* the rows of the user's tasks
  link,      \* the state of the link between a task and an evidence
  item,      \* the rows of the evidence
  draft,     \* the report after generate: [code, snapshot, fields, links, warnings]
  request,   \* what was sent to the provider
  answer,    \* what became of the answer
  changes    \* changes of the sources that may still come

vars == <<task, link, item, draft, request, answer, changes>>

-----------------------------------------------------------------------------
(* Collecting the sources of a period.                                     *)

In(day, p) == day # None /\ p.from <= day /\ day <= p.to

\* A start or a due date in the period, or a span over it.
Dated(t, p) ==
  \/ In(t.start, p) \/ In(t.due, p)
  \/ t.start # None /\ t.due # None /\ t.start <= p.to /\ t.due >= p.from

Hours(t, p) == IF t.work # None /\ In(t.work.day, p) THEN t.work.hours ELSE None

Fact(t, p) == [t EXCEPT !.mine = @ \/ Hours(t, p) # None, !.hours = Hours(t, p)]

CollectedTasks(p) ==
  {t \in Tasks : task[t].visible /\ (Hours(task[t], p) # None \/ (task[t].mine /\ Dated(task[t], p)))}

LinkRows(ts, unconfirmed) ==
  {[id |-> e, task |-> t, relation |-> link[t, e]] :
     <<t, e>> \in {te \in ts \X Evidence :
                     link[te] = "confirmed" \/ (unconfirmed /\ link[te] = "suggested")}}

\* Commits of the user without a link to one of the tasks, when candidates are asked for.
Candidates(ts, p, rows) ==
  {[id |-> e, task |-> None, relation |-> "suggested"] :
     e \in {e \in Evidence : /\ ts # {} /\ item[e].kind = "commit" /\ item[e].own
                             /\ In(item[e].day, p)
                             /\ \A t \in ts : link[t, e] = "none"
                             /\ \A r \in rows : r.id # e}}

Collect(p, unconfirmed) ==
  LET ts == CollectedTasks(p)
      rows == LinkRows(ts, unconfirmed)
      all == IF unconfirmed THEN rows \union Candidates(ts, p, rows) ELSE rows
  IN [tasks |-> [t \in ts |-> Fact(task[t], p)],
      evidence |-> {[id |-> r.id, task |-> r.task, relation |-> r.relation,
                     kind |-> item[r.id].kind, failed |-> item[r.id].failed,
                     available |-> item[r.id].available, day |-> item[r.id].day] : r \in all}]

\* The period of the current week: its first to its last working day.
Period(workdays) == [from |-> Min(workdays), to |-> Max(workdays)]

-----------------------------------------------------------------------------
(* The rules.                                                              *)

HasWorklog(f) == f.hours # None /\ f.hours > 0

Scheduled(f, p) == f.status # "cancelled" /\ Dated(f, p)

\* The tasks of the field weeklyWork: those with hours, or without any those with dates.
WorkTasks(ts, p) ==
  LET own == {t \in DOMAIN ts : ts[t].mine /\ ts[t].visible}
      logged == {t \in own : HasWorklog(ts[t])}
  IN IF logged # {} THEN logged ELSE {t \in own : Scheduled(ts[t], p)}

Closed == {"done", "cancelled"}

Round(n, d) == (2 * n + d) \div (2 * d)

CompletionFromHours(f) ==
  IF f.remaining # None THEN Round((f.estimate - Min({f.estimate, f.remaining})) * 100, f.estimate)
  ELSE Round(f.hours * 100, f.estimate)

Completion(f) ==
  IF f.status = "done" THEN 100
  ELSE IF f.status \in {"planned", "cancelled"} THEN 0
  ELSE IF f.estimate # None /\ f.estimate > 0 /\ (f.remaining # None \/ f.hours # None)
       THEN Min({99, CompletionFromHours(f)})
  ELSE IF f.status \in {"in_progress", "blocked"} /\ HasWorklog(f) THEN 50 ELSE 0

StatusText(f, worked) ==
  IF ~worked THEN f.status
  ELSE IF f.status = "done" THEN "finished" ELSE IF f.status = "blocked" THEN "stuck" ELSE "advanced"

Clean(title) == IF title = "tagged" THEN "plain" ELSE title

FirstOf(s) == IF \E i \in DOMAIN s : s[i] # None THEN s[Min({i \in DOMAIN s : s[i] # None})] ELSE None

GroupTitle(f) == FirstOf(<<f.sprint, f.root, f.parent>>)
GoalTitle(f, t) == FirstOf(<<f.sprint, f.parent, f.root, t>>)

Line(says, t, above, status, pct, ev) ==
  [says |-> says, task |-> t, above |-> above, status |-> status, pct |-> pct, with |-> ev]
Words(w) == Line(w, None, None, None, None, {})

Block(refs, line) == [refs |-> refs, line |-> line]
TaskRef(t) == <<"task", t>>
EvidenceRef(e) == <<"evidence", e>>
ManualRef(f) == <<"manual", f>>

RuleHeading(f) ==
  IF GroupTitle(f) # None /\ f.parent # None /\ GroupTitle(f) # f.parent THEN Clean(f.parent) ELSE None

GoalBlocks(ts) ==
  LET own == {t \in DOMAIN ts : ts[t].mine /\ ts[t].visible} IN
  {Block({TaskRef(t) : t \in {t \in own : GoalTitle(ts[t], t) = title}}, Words(title)) :
     title \in {GoalTitle(ts[t], t) : t \in own}}

\* Mutant: evidence that nobody has confirmed counts too.
WorkBlocksUnconfirmed(ts, ev, p) ==
  {LET own == {r \in ev : r.task = t} IN
   Block({TaskRef(t)} \union {EvidenceRef(r.id) : r \in own},
         Line("work", t, RuleHeading(ts[t]), StatusText(ts[t], HasWorklog(ts[t])), Completion(ts[t]),
              {r.kind : r \in own})) : t \in WorkTasks(ts, p)}

WorkBlocks(ts, ev, p) ==
  {LET own == {r \in ev : r.task = t /\ r.relation = "confirmed"} IN
   Block({TaskRef(t)} \union {EvidenceRef(r.id) : r \in own},
         Line("work", t, RuleHeading(ts[t]), StatusText(ts[t], HasWorklog(ts[t])), Completion(ts[t]),
              {r.kind : r \in own})) : t \in WorkTasks(ts, p)}

\* Without any work the plan lists the tasks that have dates.
PlanBlocks(ts, work) ==
  IF work # {} THEN work
  ELSE {Block({TaskRef(t)}, Line("plan", t, RuleHeading(ts[t]), None, None, {})) :
          t \in {t \in DOMAIN ts : ts[t].mine /\ ts[t].visible /\ (ts[t].start # None \/ ts[t].due # None)}}

Overdue(f, p) == f.due # None /\ f.due < p.to /\ f.status \notin Closed

ProblemBlocks(ts, ev, p) ==
  {Block({TaskRef(t)}, Line(IF ts[t].status = "blocked" THEN "blocked" ELSE "overdue",
                            t, None, None, None, {})) :
     t \in {t \in DOMAIN ts : ts[t].status = "blocked" \/ Overdue(ts[t], p)}}
  \union
  {Block({EvidenceRef(r.id)} \union {TaskRef(t) : t \in {r.task} \intersect DOMAIN ts},
         Line("pipeline", r.task, None, None, None, {})) :
     r \in {r \in ev : r.kind = "pipeline" /\ r.relation = "confirmed" /\ r.failed}}

ManualBlocks(field, manual) ==
  IF field \in manual THEN {Block({ManualRef(field)}, Words("typed"))} ELSE {}

\* Evidence with a time outside the period is left out.
Timely(ev, p) == {r \in ev : r.day = None \/ In(r.day, p)}

RuleFields(ts, ev, manual, p) ==
  LET work == WorkBlocks(ts, ev, p) \union ManualBlocks("weeklyWork", manual) IN
  [f \in Fields |->
     CASE f = "recentGoals" -> GoalBlocks(ts) \union ManualBlocks(f, manual)
       [] f = "weeklyWork" -> work
       [] f = "nextWeekPlans" -> PlanBlocks(ts, work)
       [] f = "problems" -> ProblemBlocks(ts, ev, p) \union ManualBlocks(f, manual)
       [] f = "other" -> ManualBlocks(f, manual)]

Warnings(ts, ev, calendar) ==
  (IF calendar THEN {} ELSE {<<"WORKDAY_CALENDAR_FALLBACK", None>>})
  \union {<<"SOURCE_NOT_FRESH", TaskRef(t)>> : t \in {t \in DOMAIN ts : ts[t].fresh # "fresh"}}
  \union {<<"SOURCE_NOT_FRESH", EvidenceRef(r.id)>> : r \in {r \in ev : r.available # "available"}}
  \union {<<"UNCONFIRMED_EVIDENCE", EvidenceRef(r.id)>> : r \in {r \in ev : r.relation = "suggested"}}

\* Default content takes the place of the rules, except where the rules own the field.
Templated(ts, fields, template) ==
  LET body == [f \in Fields |->
                 IF f \in template \ {"recentGoals", "nextWeekPlans"}
                 THEN {Block({}, Words("default"))} ELSE fields[f]]
  IN [body EXCEPT !.nextWeekPlans = PlanBlocks(ts, body.weeklyWork)]

LinksOf(fields) == UNION {{<<f, ref>> : ref \in UNION {b.refs : b \in fields[f]}} : f \in Fields}

Resolves(ref, snapshot, manual) ==
  \/ ref[1] = "task" /\ ref[2] \in DOMAIN snapshot.tasks
  \/ ref[1] = "evidence" /\ \E r \in snapshot.evidence : r.id = ref[2]
  \/ ref[1] = "manual" /\ ref[2] \in manual

-----------------------------------------------------------------------------
(* Generating the draft.                                                   *)

NoSnapshot == [tasks |-> <<>>, evidence |-> {}]
NoFields == [f \in Fields |-> {}]
NoDraft == [code |-> "none", snapshot |-> NoSnapshot, period |-> None, asked |-> FALSE,
            manual |-> {}, fields |-> NoFields, links |-> {}, warnings |-> {}]
NoRequest == [fields |-> {}, sources |-> {}, eligible |-> {}, snapshot |-> NoSnapshot]
NoAnswer == [code |-> "none", paragraphs |-> NoFields, text |-> NoFields, blocks |-> NoFields, links |-> {}]

Init ==
  /\ \E f \in Facts : task = f.task /\ link = f.link /\ item = f.item
  /\ draft = NoDraft /\ request = NoRequest /\ answer = NoAnswer
  /\ changes = MaxChanges

Fresh(snapshot) ==
  /\ \A t \in DOMAIN snapshot.tasks : snapshot.tasks[t].fresh = "fresh"
  /\ \A r \in snapshot.evidence : r.available = "available"

\* Source ids must be unique: one row for each evidence.
Unique(snapshot) == \A r, q \in snapshot.evidence : r.id = q.id => r = q

\* generate, for a new report of the week; the code is what the caller gets.
Generate(d) ==
  LET p == Period(d.workdays)
      s == Collect(p, d.unconfirmed)
      ev == Timely(s.evidence, p)
      fields == Templated(s.tasks, RuleFields(s.tasks, ev, d.manual, p), d.template)
      links == LinksOf(fields)
      Refused(code) == [NoDraft EXCEPT !.code = code, !.snapshot = s, !.period = p]
  IN /\ draft.code = "none"
     /\ draft' =
          IF d.workdays = {} THEN [NoDraft EXCEPT !.code = "WORK_CALENDAR_WEEK_EMPTY"]
          ELSE IF d.fresh /\ ~Fresh(s) THEN Refused("WEEKLY_REPORT_SOURCE_NOT_FRESH")
          ELSE IF ~Unique(s) THEN Refused("WEEKLY_REPORT_SOURCE_DUPLICATE")
          ELSE IF \E l \in links : ~Resolves(l[2], s, d.manual)
               THEN Refused("WEEKLY_REPORT_SOURCE_REFERENCE_INVALID")
          ELSE [code |-> "generated", snapshot |-> s, period |-> p, manual |-> d.manual,
                asked |-> \E r \in s.evidence : r.relation = "suggested",
                fields |-> fields, links |-> links,
                warnings |-> Warnings(s.tasks, ev, d.calendar)]
     /\ UNCHANGED <<task, link, item, request, answer, changes>>

\* Between the draft and the question to the AI the sources go on changing.
SourceChanges(t) ==
  /\ draft.code = "generated" /\ request = NoRequest /\ changes > 0
  /\ \/ task' = [task EXCEPT ![t].status = "done"] /\ UNCHANGED link
     \/ task' = [task EXCEPT ![t].work = [day |-> 3, hours |-> 2]] /\ UNCHANGED link
     \/ \E e \in Evidence : /\ link[t, e] = "suggested"
                            /\ \E s \in {"confirmed", "rejected"} : link' = [link EXCEPT ![t, e] = s]
                            /\ UNCHANGED task
  /\ changes' = changes - 1
  /\ UNCHANGED <<item, draft, request, answer>>

-----------------------------------------------------------------------------
(* Asking the AI.                                                          *)

\* isTaskInPeriod of the AI service: also a change of status in the period.
InPeriod(f, p) == HasWorklog(f) \/ Dated(f, p) \/ In(f.moved, p)

BaseRef(f) == <<"base", f>>

BaseText(f) == {b.line : b \in draft.fields[f]}

Only(fn, S) == [x \in S |-> fn[x]]

\* What the provider may see: the base text of the fields, tasks, usable evidence, typed inputs.
Sanitized(fields, s) ==
  LET p == draft.period
      ts == Only(s.tasks, {t \in DOMAIN s.tasks : InPeriod(s.tasks[t], p)})
      bases == IF "nextWeekPlans" \in fields THEN fields \union {"weeklyWork"} ELSE fields
      usable == {r \in s.evidence : /\ IF r.task # None THEN r.task \in DOMAIN ts ELSE In(r.day, p)
                                    /\ r.available # "unavailable"}
  IN [fields |-> fields,
      sources |-> {BaseRef(f) : f \in {f \in bases : BaseText(f) # {}}}
                  \union {TaskRef(t) : t \in DOMAIN ts}
                  \union {EvidenceRef(r.id) : r \in usable}
                  \union {ManualRef(f) : f \in draft.manual},
      eligible |-> WorkTasks(ts, p),
      snapshot |-> [s EXCEPT !.tasks = ts]]

\* A text that looks like a secret stops the request before the key is read: the text of a
\* base field, a task, an evidence.  Typed inputs and default content have no secret here.
Unsafe(r) ==
  \/ \E f \in Fields : /\ BaseRef(f) \in r.sources
                      /\ \E t \in DOMAIN draft.snapshot.tasks :
                           /\ draft.snapshot.tasks[t].secret
                           /\ t \in {line.task : line \in BaseText(f)}
  \/ \E t \in DOMAIN r.snapshot.tasks : r.snapshot.tasks[t].secret
  \/ \E e \in Evidence : EvidenceRef(e) \in r.sources /\ item[e].secret

\* refreshSourceSnapshotForAi and createSuggestion up to the call of the provider.
Ask(fields) ==
  LET s == Collect(draft.period, draft.asked)
      r == Sanitized(fields, s)
  IN /\ draft.code = "generated" /\ request = NoRequest /\ answer = NoAnswer
     /\ IF r.sources = {} THEN /\ answer' = [NoAnswer EXCEPT !.code = "AI_SANITIZED_INPUT_EMPTY"]
                               /\ UNCHANGED request
        ELSE IF Unsafe(r) THEN /\ answer' = [NoAnswer EXCEPT !.code = "AI_INPUT_SECURITY_BLOCKED"]
                               /\ UNCHANGED request
        ELSE request' = r /\ UNCHANGED answer
     /\ UNCHANGED <<task, link, item, draft, changes>>

-----------------------------------------------------------------------------
(* Validating the answer.                                                  *)

\* The canonical text of a task, from the validation reference and not from the model.
CanonicalHeading(f) ==
  IF f.parent # None /\ Clean(f.parent) # GroupTitle(f) THEN Clean(f.parent) ELSE None

Canonical(ts, t) ==
  Line("work", t, CanonicalHeading(ts[t]), StatusText(ts[t], ts[t].hours # None), Completion(ts[t]), {})

CitedTasks(paragraph) == {ref[2] : ref \in {r \in paragraph.cites : r[1] = "task"}}

Percents(paragraph) == {Completion(request.snapshot.tasks[t]) : t \in CitedTasks(paragraph)}

\* The first rule that paragraph i of a field breaks; "ok" if none.
Verdict(field, paragraphs, i) ==
  LET q == paragraphs[i] IN
  CASE q.says = "marks only" -> "AI_OUTPUT_TEXT_EMPTY"
    [] q.says = "code" -> "AI_OUTPUT_ACTIVE_CONTENT_REJECTED"
    [] q.says = "cites twice" -> "AI_OUTPUT_CITATION_DUPLICATED"
    [] ~ (q.cites \subseteq request.sources) -> "AI_OUTPUT_CITATION_UNKNOWN"
    [] field = "weeklyWork" /\ Cardinality(CitedTasks(q)) # 1 -> "AI_OUTPUT_WEEKLY_WORK_TASK_REQUIRED"
    [] field = "weeklyWork" /\ ~ (CitedTasks(q) \subseteq request.eligible)
         -> "AI_OUTPUT_WEEKLY_WORK_WITHOUT_WORKLOG"
    [] field = "weeklyWork" /\ \E j \in 1..(i - 1) : CitedTasks(q) = CitedTasks(paragraphs[j])
         -> "AI_OUTPUT_WEEKLY_WORK_TASK_DUPLICATED"
    [] q.pct # None /\ q.pct \notin Percents(q) -> "AI_OUTPUT_COMPLETION_UNSUPPORTED"
    [] q.fact # None /\ q.fact \notin q.cites -> "AI_OUTPUT_FACT_UNSUPPORTED"
    [] OTHER -> "ok"

TasksOf(paragraphs) == UNION {CitedTasks(paragraphs[i]) : i \in DOMAIN paragraphs}

\* The paragraphs of one field, in their order; the work must be all of the work.
FieldVerdict(field, paragraphs) ==
  LET bad == {i \in DOMAIN paragraphs : Verdict(field, paragraphs, i) # "ok"} IN
  IF bad # {} THEN Verdict(field, paragraphs, Min(bad))
  ELSE IF field = "weeklyWork" /\ paragraphs # <<>> /\ TasksOf(paragraphs) # request.eligible
       THEN "AI_OUTPUT_WEEKLY_WORK_TASK_SET_INVALID"
  ELSE "ok"

Paragraph(cites, line) == [cites |-> cites, line |-> line]

\* Paragraphs that stay: canonical work, and nothing that only says there is nothing.
Kept(field, paragraphs) ==
  LET ts == request.snapshot.tasks
      Said(q) == IF field = "weeklyWork" THEN Canonical(ts, CHOOSE t \in CitedTasks(q) : TRUE)
                 ELSE Words(q.says)
      goals == {Paragraph(b.refs, b.line) : b \in GoalBlocks(ts)}
      works == {Paragraph({TaskRef(t)}, Canonical(ts, t)) : t \in request.eligible}
  IN IF field = "recentGoals" /\ goals # {} THEN goals
     ELSE IF field = "weeklyWork" /\ paragraphs = <<>> /\ BaseText(field) = {} THEN works
     ELSE {Paragraph(paragraphs[i].cites, Said(paragraphs[i])) :
             i \in {i \in DOMAIN paragraphs : field = "weeklyWork" \/ paragraphs[i].says # "nothing"}}

LinesOf(paragraphs) == {q.line : q \in paragraphs}

\* validateWeeklyAiOutput for an answer whose paragraphs all pass.
Validated(out) ==
  LET asked == request.fields
      kept == [f \in Fields |-> IF f \in asked THEN Kept(f, out[f]) ELSE {}]
      base == {Paragraph({BaseRef("weeklyWork")}, line) : line \in BaseText("weeklyWork")}
      scheduled == {Paragraph(b.refs, b.line) : b \in PlanBlocks(request.snapshot.tasks, {})}
      planned == IF kept["weeklyWork"] # {} THEN kept["weeklyWork"]
                 ELSE IF BaseRef("weeklyWork") \in request.sources THEN base ELSE scheduled
      text == [f \in Fields |-> IF kept[f] # {} THEN LinesOf(kept[f]) ELSE BaseText(f)]
      both == asked \intersect {"weeklyWork", "nextWeekPlans"} # {}
  IN [paragraphs |-> IF both THEN [kept EXCEPT !.nextWeekPlans = planned] ELSE kept,
      text |-> IF both THEN [text EXCEPT !.nextWeekPlans =
                               IF text.weeklyWork # {} THEN text.weeklyWork ELSE LinesOf(planned)]
               ELSE text,
      replaced |-> {f \in asked : kept[f] # {}} \union (IF both THEN {"nextWeekPlans"} ELSE {})]

\* A citation of the base text is kept as a manual source.
Stored(ref) == IF ref[1] = "base" THEN ManualRef(ref[2]) ELSE ref

\* structuredSuggestion and createSuggestionLinks: the version that is proposed.
Suggested(v) ==
  LET blocks == [f \in Fields |->
                   IF f \in v.replaced
                   THEN {Block({Stored(c) : c \in q.cites}, q.line) : q \in v.paragraphs[f]}
                   ELSE draft.fields[f]]
  IN [code |-> "suggested", paragraphs |-> v.paragraphs, text |-> v.text, blocks |-> blocks,
      links |-> {l \in draft.links : l[1] \notin v.replaced}
                \union UNION {{<<f, Stored(c)>> : c \in UNION {q.cites : q \in v.paragraphs[f]}} :
                                f \in v.replaced}]

RawVerdict(raw) ==
  CASE raw = "too long" -> "AI_OUTPUT_TOO_LARGE"
    [] raw = "secret" -> "AI_OUTPUT_SECURITY_BLOCKED"
    [] raw = "no json" -> "AI_OUTPUT_JSON_INVALID"
    [] raw = "bad shape" -> "AI_OUTPUT_SCHEMA_INVALID"
    [] raw = "other fields" -> "AI_OUTPUT_FIELD_SET_INVALID"
    [] OTHER -> "ok"

\* The provider answers: the rest of createSuggestion.
Answer(raw, out) ==
  LET wrong == {FieldVerdict(f, out[f]) : f \in request.fields} \ {"ok"} IN
  /\ request # NoRequest /\ answer = NoAnswer
  /\ \/ /\ RawVerdict(raw) # "ok"
        /\ answer' = [NoAnswer EXCEPT !.code = RawVerdict(raw)]
     \/ /\ RawVerdict(raw) = "ok" /\ wrong # {}
        /\ \E code \in wrong : answer' = [NoAnswer EXCEPT !.code = code]
     \/ /\ RawVerdict(raw) = "ok" /\ wrong = {}
        /\ answer' = Suggested(Validated(out))
  /\ UNCHANGED <<task, link, item, draft, request, changes>>

ProviderFails ==
  /\ request # NoRequest /\ answer = NoAnswer
  /\ answer' = [NoAnswer EXCEPT !.code = "AI_PROVIDER_REQUEST_FAILED"]
  /\ UNCHANGED <<task, link, item, draft, request, changes>>

-----------------------------------------------------------------------------
(* What the provider may answer: one field deviates, the others are empty. *)

Plain(cites) == [cites |-> cites, says |-> "words", pct |-> None, fact |-> None]

Refs == request.sources \union {TaskRef(None)}

Oddities == {"nothing", "marks only", "code", "cites twice"}

Paragraphs ==
  {Plain({r, q}) : r, q \in Refs}
  \union {[Plain({r}) EXCEPT !.says = w] : r \in request.sources, w \in Oddities}
  \union {[Plain({r}) EXCEPT !.pct = n] : r \in request.sources, n \in {50, 100}}
  \union UNION {{[Plain({r}) EXCEPT !.fact = q] : q \in {r, TaskRef(None)}} : r \in request.sources}

Outputs ==
  LET Out(f, s) == [g \in request.fields |-> IF g = f THEN s ELSE <<>>] IN
  {[g \in request.fields |-> <<>>]}
  \union {Out(f, <<q>>) : f \in request.fields, q \in Paragraphs}
  \union {Out(f, <<Plain({r}), Plain({q})>>) : f \in request.fields \intersect {"weeklyWork"}, r, q \in Refs}

Answers ==
  /\ request # NoRequest /\ answer = NoAnswer
  /\ \/ \E raw \in {"too long", "secret", "no json", "bad shape", "other fields"} : Answer(raw, <<>>)
     \/ \E out \in Outputs : Answer("ok", out)

Next ==
  \/ \E d \in Drafts : Generate(d)
  \/ \E t \in Tasks : SourceChanges(t)
  \/ \E f \in Requests : Ask(f)
  \/ Answers
  \/ ProviderFails

Spec == Init /\ [][Next]_vars

-----------------------------------------------------------------------------
Codes == {"none", "generated", "WORK_CALENDAR_WEEK_EMPTY", "WEEKLY_REPORT_SOURCE_NOT_FRESH",
          "WEEKLY_REPORT_SOURCE_DUPLICATE", "WEEKLY_REPORT_SOURCE_REFERENCE_INVALID"}

\* Types, and what is sent is never more than what was collected.
TypeOK ==
  /\ task \in [Tasks -> [mine: BOOLEAN, visible: BOOLEAN, secret: BOOLEAN, status: Statuses,
                         work: [day: Days, hours: Nat] \union {None}, hours: Nat \union {None},
                         start: Days \union {None}, due: Days \union {None}, moved: Days \union {None},
                         estimate: Nat \union {None}, remaining: Nat \union {None},
                         sprint: {"goal", None}, root: {"top", None}, parent: {"plain", "tagged", None},
                         fresh: {"fresh", "stale", "unavailable"}]]
  /\ link \in [Tasks \X Evidence -> {"none", "suggested", "confirmed", "rejected"}]
  /\ draft.code \in Codes /\ DOMAIN draft.snapshot.tasks \subseteq Tasks
  /\ request.eligible \subseteq Tasks /\ request.fields \subseteq Fields
  /\ changes \in 0..MaxChanges

Ruled(f) == Words("default") \notin BaseText(f)

BlocksOn(ref, f) == {b \in draft.fields[f] : ref \in b.refs}

\* The draft tells the week: a task with hours in the period is told once, with the confirmed
\* evidence of the period and no other; a failed pipeline is among the problems; evidence that
\* nobody confirmed is nowhere in the text and there is a warning; what the user typed is there
\* (the plan is never typed: it repeats the work).
WeekIsTold ==
  draft.code = "generated" =>
    LET s == draft.snapshot  p == draft.period  ev == Timely(s.evidence, p) IN
    /\ Ruled("weeklyWork") =>
         \A t \in DOMAIN s.tasks : HasWorklog(s.tasks[t]) =>
           \E b \in draft.fields["weeklyWork"] :
             /\ BlocksOn(TaskRef(t), "weeklyWork") = {b}
             /\ b.refs \ {TaskRef(t)} =
                  {EvidenceRef(r.id) : r \in {r \in ev : r.task = t /\ r.relation = "confirmed"}}
    /\ Ruled("problems") =>
         \A r \in ev : r.kind = "pipeline" /\ r.failed /\ r.relation = "confirmed" =>
                         BlocksOn(EvidenceRef(r.id), "problems") # {}
    /\ \A r \in s.evidence : r.relation = "suggested" =>
         /\ \A f \in Fields : BlocksOn(EvidenceRef(r.id), f) = {}
         /\ r \in ev => <<"UNCONFIRMED_EVIDENCE", EvidenceRef(r.id)>> \in draft.warnings
    /\ \A f \in draft.manual \ {"nextWeekPlans"} : Ruled(f) => BlocksOn(ManualRef(f), f) # {}
    /\ BaseText("weeklyWork") # {} => BaseText("nextWeekPlans") = BaseText("weeklyWork")

\* The rule lines of the work, without the evidence the AI does not repeat.
RuleWork(ts, p) ==
  {[b.line EXCEPT !.with = {}] : b \in WorkBlocks(ts, {}, p)}

\* An accepted answer says no more than the sources: what was asked has no secret; the work it
\* lists is the work that the rules would list from the same sources, with the same status
\* (unless a worklog is of zero hours), completion and heading (unless the title of the parent
\* carries a tag); a paragraph cites
\* only what was sent; fields that were not asked for keep text, blocks and links; blocks and
\* links of the proposed version agree; the plan repeats the work.
AnswerSaysNoMore ==
  /\ request # NoRequest => ~Unsafe(request)
  /\ answer.code = "suggested" =>
    LET ts == request.snapshot.tasks
        touched == request.fields \union
                     (IF "weeklyWork" \in request.fields THEN {"nextWeekPlans"} ELSE {})
        work == LinesOf(answer.paragraphs["weeklyWork"])
        Bare(line) == [line EXCEPT
                         !.above = IF ts[line.task].parent = "tagged" THEN None ELSE @,
                         !.status = IF ts[line.task].hours = 0 THEN None ELSE @]
    IN /\ work # {} => {Bare(l) : l \in work} = {Bare(l) : l \in RuleWork(ts, draft.period)}
       /\ \A f \in Fields : UNION {q.cites : q \in answer.paragraphs[f]} \subseteq request.sources
       /\ \A f \in Fields \ touched : /\ answer.text[f] = BaseText(f)
                                      /\ answer.blocks[f] = draft.fields[f]
       /\ answer.links = LinksOf(answer.blocks)
       /\ touched \intersect {"nextWeekPlans"} # {} /\ answer.text["weeklyWork"] # {} =>
            answer.text["nextWeekPlans"] = answer.text["weeklyWork"]

\* A commit that names two tasks is linked to both (task design 05:196), and the report of the
\* week can still be made.
ReportCanBeMade ==
  draft.code \notin {"WEEKLY_REPORT_SOURCE_DUPLICATE", "WEEKLY_REPORT_SOURCE_REFERENCE_INVALID"}
=============================================================================
