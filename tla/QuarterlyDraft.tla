--------------------------- MODULE QuarterlyDraft ---------------------------
(***************************************************************************)
(* What a quarterly review says, and who may change it: candidates are     *)
(* collected from tasks, evidence and weekly reports; the user selects,    *)
(* proves, maps and scores them and writes a text; AI proposes scores and  *)
(* texts; a schedule does all of this by itself; a confirmation freezes    *)
(* the result.  (Quarterly follows the jobs, here a collection only ends.) *)
(*                                                                         *)
(* Every write of the review is guarded by its version, which only tells   *)
(* whether the review has changed: "current" holds those that still know   *)
(* the version, and every write empties it.  A request of the user carries *)
(* the version its page shows and is refused otherwise, so only requests   *)
(* of a current page are modelled.  A text is what it cites.               *)
(***************************************************************************)
EXTENDS Integers, FiniteSets, FiniteSetsExt

CONSTANTS
  Tasks,       \* numbers, in the order of their ids
  Evidence, Reports, Metrics, None,
  Facts,       \* what may have been synchronised, see Fact
  Template,    \* the metric templates: functions from their metrics to Metric, with a formula
  Scores,      \* scores that may be typed or suggested
  MaxChanges,  \* bound: changes of the sources, new weeks, failed collections
  MaxEdits,    \* bound: requests of the user
  MaxTicks     \* bound: runs of the schedule

Sources == {"tasks", "evidence", "reports"}
Levels == {"needs_evidence", "partial", "complete"}
Selections == {"candidate", "selected", "excluded", "needs_evidence"}
Metric == [weight: Nat, min: Nat, max: Nat, step: Nat \ {0}, required: BOOLEAN, enabled: BOOLEAN]
Formulas == {"weighted_average_100", "weighted_sum", "simple_sum"}
Roundings == {"none", "half_up_1_decimal", "half_up_integer", "floor_integer", "ceil_integer"}

\* The user's tasks, those done in the period, their parents, confirmed links, the evidence of the
\* period, that of the user by a verified alias, that of an enabled project with a confirmed
\* repository, what is available, what is old; confirmed weekly reports with the tasks they link.
Fact == [mine: SUBSET Tasks, done: SUBSET Tasks, parent: [Tasks -> Tasks \union {None}],
         link: SUBSET (Tasks \X Evidence), within: SUBSET Evidence, own: SUBSET Evidence,
         listed: SUBSET Evidence, available: SUBSET Evidence, old: SUBSET (Tasks \union Evidence),
         report: UNION {[R -> [tasks: SUBSET Tasks, sourced: BOOLEAN]] : R \in SUBSET Reports}]

\* What the constants must be; the module that gives them values assumes it.
QuarterlyDraftAssumption ==
  /\ Tasks \subseteq Nat /\ IsFiniteSet(Tasks) /\ Facts \subseteq Fact
  /\ \A x \in DOMAIN Template :
       /\ DOMAIN Template[x].metric \subseteq Metrics
       /\ \A m \in DOMAIN Template[x].metric : Template[x].metric[m] \in Metric
       /\ Template[x].formula \in Formulas /\ Template[x].rounding \in Roundings
  /\ Scores \subseteq Nat /\ MaxChanges \in Nat /\ MaxEdits \in Nat /\ MaxTicks \in Nat

VARIABLES
  fact,          \* the sources as synchronised
  hashes,        \* the collection snapshots, by what was collected
  weekly,        \* one of them is of this week
  run,           \* the collection: what it was asked for and what it has read
  achievement,   \* the achievements of the review, by source key
  review,        \* [status, template, checks]
  score,         \* the scores of the user and the suggestions of the AI
  narrative,     \* the current text, who made it, and the earlier ones
  confirmation,  \* the active confirmation
  attempt,       \* for the user and the schedule: a request to the AI
  offers,        \* texts of the AI that wait for a decision
  auto,          \* where the schedule is
  current,       \* who still knows the version of the review
  budget         \* [changes, edits, ticks] left

vars == <<fact, hashes, weekly, run, achievement, review, score, narrative, confirmation,
          attempt, offers, auto, current, budget>>

-----------------------------------------------------------------------------
(* Collecting.                                                             *)

Linked(f, s, t) == IF "evidence" \in s THEN {e \in f.within : <<t, e>> \in f.link} ELSE {}

CollectedTasks(f, s) ==
  {t \in f.mine : ("tasks" \in s /\ t \in f.done) \/ Linked(f, s, t) # {}}

\* Evidence of the user that no collected task accounts for.
IdentityMatched(f, s) ==
  IF "evidence" \notin s THEN {}
  ELSE (f.within \intersect f.own \intersect f.listed)
         \ UNION {Linked(f, s, t) : t \in CollectedTasks(f, s)}

Row(primary, available) == [primary |-> primary, available |-> available]
TaskOf(t) == <<"task", t>>
EvidenceOf(e) == <<"evidence", e>>
ReportOf(r) == <<"report", r>>

GroupOf(f, t) == IF f.parent[t] = None THEN t ELSE f.parent[t]

Cluster(f, s, g) ==
  LET items == {t \in CollectedTasks(f, s) : GroupOf(f, t) = g}
      linked == UNION {Linked(f, s, t) : t \in items}
  IN [level |-> IF linked \intersect f.available # {} THEN "complete" ELSE "partial",
      ev |-> [x \in {TaskOf(t) : t \in items} \union {EvidenceOf(e) : e \in linked} |->
                Row(x = TaskOf(Min(items)), x[1] = "task" \/ x[2] \in f.available)]]

Alone(level, x, available) == [level |-> level, ev |-> [y \in {x} |-> Row(TRUE, available)]]

\* buildCandidates, by source key; a weekly report only if it links no collected task.
CandidateKeys(f, s) ==
  LET ts == CollectedTasks(f, s)
      weeks == IF "reports" \in s THEN {r \in DOMAIN f.report : f.report[r].tasks \intersect ts = {}} ELSE {}
  IN {<<"cluster", GroupOf(f, t)>> : t \in ts}
       \union {<<"identity", e>> : e \in IdentityMatched(f, s)} \union {<<"report", r>> : r \in weeks}

Candidate(f, s, k) ==
  CASE k[1] = "cluster" -> Cluster(f, s, k[2])
    [] k[1] = "identity" -> Alone("partial", EvidenceOf(k[2]), k[2] \in f.available)
    [] k[1] = "report" -> Alone(IF f.report[k[2]].sourced THEN "complete" ELSE "needs_evidence",
                                ReportOf(k[2]), TRUE)

Candidates(f, s) == [k \in CandidateKeys(f, s) |-> Candidate(f, s, k)]

\* Sources that are too old or not available.
Stale(f, s) ==
  LET es == IdentityMatched(f, s) \union UNION {Linked(f, s, t) : t \in CollectedTasks(f, s)}
  IN (CollectedTasks(f, s) \union es) \intersect f.old # {} \/ ~ (es \subseteq f.available)

New(c) == [text |-> "collected", select |-> "candidate", level |-> c.level, ev |-> c.ev, metrics |-> {}]

HasPrimary(ev) == \E x \in DOMAIN ev : ev[x].primary

\* Mutant: the level is that of the last collection.
AgainAsCollected(a, c) ==
  [a EXCEPT
     !.ev = [x \in DOMAIN a.ev \union DOMAIN c.ev |->
               IF x \in DOMAIN a.ev THEN a.ev[x]
               ELSE [c.ev[x] EXCEPT !.primary = @ /\ ~HasPrimary(a.ev)]],
     !.level = c.level]

\* An achievement that is collected again gets evidence it has not, and is never lowered.
Again(a, c) ==
  [a EXCEPT
     !.ev = [x \in DOMAIN a.ev \union DOMAIN c.ev |->
               IF x \in DOMAIN a.ev THEN a.ev[x]
               ELSE [c.ev[x] EXCEPT !.primary = @ /\ ~HasPrimary(a.ev)]],
     !.level = IF c.level = "complete" \/ (c.level = "partial" /\ @ = "needs_evidence") THEN c.level ELSE @]

Merged(cs) ==
  [k \in DOMAIN achievement \union DOMAIN cs |->
     IF k \notin DOMAIN cs THEN achievement[k]
     ELSE IF k \notin DOMAIN achievement THEN New(cs[k]) ELSE Again(achievement[k], cs[k])]

-----------------------------------------------------------------------------
(* Completeness and scores.                                                *)

Selected(as) == {k \in DOMAIN as : as[k].select = "selected"}

MetricsOf(x) == IF x = None THEN {} ELSE DOMAIN Template[x].metric
Enabled(x) == {m \in MetricsOf(x) : Template[x].metric[m].enabled}
Required(x) == {m \in Enabled(x) : Template[x].metric[m].required}

\* The scores that the user has given.
Given(scores) == [m \in Metrics |-> scores[m].user]

\* QuarterlyCompletenessService: what it counts over the selected achievements.
Counted(as, x, given) ==
  LET sel == Selected(as)
      Uses(e) == {k \in sel : e \in DOMAIN as[k].ev}
  IN [selected |-> Cardinality(sel),
      withoutEvidence |-> Cardinality({k \in sel : as[k].ev = <<>>}),
      withoutMetric |-> Cardinality({k \in sel : as[k].metrics = {}}),
      uncovered |-> Cardinality(Required(x) \ UNION {as[k].metrics : k \in sel}),
      duplicated |-> Cardinality({e \in UNION {DOMAIN as[k].ev : k \in sel} : Cardinality(Uses(e)) > 1}),
      scored |-> Cardinality({m \in Required(x) : given[m] # None})]

OnStep(d, v) == (v - d.min) % d.step = 0
InRange(d, v) == d.min <= v /\ v <= d.max /\ OnStep(d, v)

\* In hundredths, the finest that the weights of an average ask for.
Contribution(x, m, v) ==
  LET w == Template[x].metric[m].weight IN
  CASE Template[x].formula = "weighted_average_100" -> v * w
    [] Template[x].formula = "weighted_sum" -> v * w * 100
    [] Template[x].formula = "simple_sum" -> v * 100

Rounded(rule, n) ==
  CASE rule = "none" -> n
    [] rule = "half_up_1_decimal" -> ((n + 5) \div 10) * 10
    [] rule = "half_up_integer" -> ((n + 50) \div 100) * 100
    [] rule = "floor_integer" -> (n \div 100) * 100
    [] rule = "ceil_integer" -> ((n + 99) \div 100) * 100

WeightOf(x) == MapThenSumSet(LAMBDA m : Template[x].metric[m].weight, Enabled(x))
Total(x, given) ==
  MapThenSumSet(LAMBDA m : Contribution(x, m, given[m]), {m \in Enabled(x) : given[m] # None})

\* calculatePerformanceScores; None for the errors it throws.
Calculated(x, given) ==
  LET scored == {m \in Enabled(x) : given[m] # None} IN
  IF \/ Enabled(x) = {} \/ ~ (Required(x) \subseteq scored)
     \/ Template[x].formula = "weighted_average_100" /\ WeightOf(x) # 100
     \/ \E m \in scored : ~InRange(Template[x].metric[m], given[m])
  THEN None ELSE [total |-> Rounded(Template[x].rounding, Total(x, given))]

-----------------------------------------------------------------------------
(* State and the guarded write.                                            *)

Unscored == [user |-> None, ai |-> None]
NoCounts == None
NoChecks == [fresh |-> "not_collected", counts |-> NoCounts]
NoText == [achs |-> {}, ev |-> {}, metrics |-> {}]
Who == {"user", "auto"}

Init ==
  /\ fact \in Facts
  /\ hashes = {} /\ weekly = FALSE /\ run = None
  /\ achievement = <<>>
  /\ review = [status |-> "draft", template |-> None, checks |-> NoChecks]
  /\ score = [m \in Metrics |-> Unscored]
  /\ narrative = [text |-> NoText, by |-> "none", earlier |-> {}]
  /\ confirmation = None
  /\ attempt = [a \in Who |-> None] /\ offers = {} /\ auto = "idle" /\ current = {}
  /\ budget = [changes |-> MaxChanges, edits |-> MaxEdits, ticks |-> MaxTicks]

Edit == budget.edits > 0 /\ budget' = [budget EXCEPT !.edits = @ - 1]
Event == budget.changes > 0 /\ budget' = [budget EXCEPT !.changes = @ - 1]

\* Mutant: the confirmation stays.
BumpKeepingConfirmation(status, x, as, scores) ==
  /\ review' = [status |-> status, template |-> x,
                checks |-> [review.checks EXCEPT !.counts = Counted(as, x, Given(scores))]]
  /\ achievement' = as /\ score' = scores /\ current' = {} /\ UNCHANGED confirmation

\* A write of the review ends its confirmation and makes every known version an old one.
Bump(status, x, as, scores) ==
  /\ review' = [status |-> status, template |-> x,
                checks |-> [review.checks EXCEPT !.counts = Counted(as, x, Given(scores))]]
  /\ achievement' = as /\ score' = scores
  /\ confirmation' = None /\ current' = {}

Sourced == <<fact, hashes, weekly, run>>
Asked == <<attempt, offers, auto>>

SourceChanges ==
  /\ Event /\ \E f \in Facts \ {fact} : fact' = f
  /\ UNCHANGED <<hashes, weekly, run, achievement, review, score, narrative, confirmation, current, Asked>>

NewWeek ==
  /\ Event /\ weekly /\ weekly' = FALSE
  /\ UNCHANGED <<fact, hashes, run, achievement, review, score, narrative, confirmation, current, Asked>>

-----------------------------------------------------------------------------
(* The collection: queue and execute.                                      *)

Queued(s, mode) ==
  /\ review.status # "collecting"
  /\ run' = [sources |-> s, mode |-> mode, read |-> None,
             fallback |-> IF confirmation # None THEN "selecting" ELSE review.status]
  /\ review' = [review EXCEPT !.status = "collecting"]
  /\ confirmation' = None /\ current' = {"run"}
  /\ UNCHANGED <<fact, hashes, weekly, achievement, score, narrative>>

Collect(s, mode) == Queued(s, mode) /\ Edit /\ UNCHANGED Asked

CollectionReads ==
  /\ run # None /\ run.read = None /\ "run" \in current
  /\ run' = [run EXCEPT !.read = [f |-> fact]]
  /\ UNCHANGED <<fact, hashes, weekly, achievement, review, score, narrative, confirmation, current,
                 Asked, budget>>

\* The transaction at the end, or the refusal of sources that are not fresh.
CollectionEnds ==
  LET s == run.sources
      cs == Candidates(run.read.f, s)
      stale == Stale(run.read.f, s)
      hash == <<cs, s, run.mode>>
  IN /\ run # None /\ run.read # None /\ "run" \in current
     /\ run' = None /\ current' = {}
     /\ \/ /\ stale /\ run.mode = "require_fresh"
           /\ review' = [review EXCEPT !.status = "collection_failed", !.checks = NoChecks]
           /\ UNCHANGED <<hashes, weekly, achievement>>
        \/ /\ ~ (stale /\ run.mode = "require_fresh")
           /\ achievement' = Merged(cs)
           /\ hashes' = hashes \union {hash} /\ weekly' = (weekly \/ hash \notin hashes)
           /\ review' = [review EXCEPT !.status = "candidates_ready",
                !.checks = [fresh |-> IF stale THEN "stale_ack_required" ELSE "fresh", counts |-> NoCounts]]
     /\ UNCHANGED <<fact, score, narrative, confirmation, Asked, budget>>

\* Cancelled, or failed for good: the status is given back, and a failure forgets the checks.
CollectionStops ==
  /\ run # None /\ "run" \in current /\ Event
  /\ run' = None /\ current' = {}
  /\ \/ review' = [review EXCEPT !.status = run.fallback]
     \/ review' = [review EXCEPT !.status = "collection_failed", !.checks = NoChecks]
  /\ UNCHANGED <<fact, hashes, weekly, achievement, score, narrative, confirmation, Asked>>

\* The review has changed meanwhile: the job ends and leaves it alone.
CollectionIsStale ==
  /\ run # None /\ "run" \notin current
  /\ run' = None
  /\ UNCHANGED <<fact, hashes, weekly, achievement, review, score, narrative, confirmation, current,
                 Asked, budget>>

-----------------------------------------------------------------------------
(* The user: achievements, template, scores.                               *)

ManualKey == <<"manual", None>>
Typed == [text |-> "typed", select |-> "needs_evidence", level |-> "needs_evidence", ev |-> <<>>, metrics |-> {}]

Changed(status, as) ==
  /\ Edit /\ Bump(status, review.template, as, score)
  /\ UNCHANGED <<Sourced, narrative, Asked>>

CreateManual ==
  /\ ManualKey \notin DOMAIN achievement
  /\ Changed("selecting", [k \in DOMAIN achievement \union {ManualKey} |->
                             IF k = ManualKey THEN Typed ELSE achievement[k]])

Update(k) == Changed("selecting", [achievement EXCEPT ![k].text = "typed"])

Select(k, choice) == Changed("selecting", [achievement EXCEPT ![k].select = choice])

\* A link typed by the user; it may be available or not, primary or not.
AddEvidence(k, e, primary, available) ==
  LET a == achievement[k] IN
  /\ e \notin DOMAIN a.ev /\ (primary => ~HasPrimary(a.ev))
  /\ Changed("selecting", [achievement EXCEPT
       ![k].ev = [x \in DOMAIN @ \union {e} |-> IF x = e THEN Row(primary, available) ELSE @[x]],
       ![k].level = IF available THEN "complete" ELSE IF @ = "needs_evidence" THEN "partial" ELSE @])

Map(k, ms) ==
  /\ achievement[k].select = "selected" /\ review.template # None /\ ms \subseteq MetricsOf(review.template)
  /\ Changed("scoring", [achievement EXCEPT ![k].metrics = ms])

\* Mutant: the links to the metrics of the old template stay.
BindTemplateKeepingLinks(x) ==
  /\ review.template # x /\ Edit
  /\ Bump("scoring", x, achievement, score)
  /\ UNCHANGED <<Sourced, narrative, Asked>>

\* The links to metrics of another template end, of whatever achievement.
BindTemplate(x) ==
  /\ review.template # x /\ Edit
  /\ Bump("scoring", x, [k \in DOMAIN achievement |-> [achievement[k] EXCEPT !.metrics = @ \intersect MetricsOf(x)]],
          score)
  /\ UNCHANGED <<Sourced, narrative, Asked>>

UpdateScore(m, v) ==
  /\ m \in MetricsOf(review.template)
  /\ v # None => m \in Enabled(review.template) /\ InRange(Template[review.template].metric[m], v)
  /\ Edit /\ Bump("scoring", review.template, achievement, [score EXCEPT ![m].user = v])
  /\ UNCHANGED <<Sourced, narrative, Asked>>

-----------------------------------------------------------------------------
(* The text.                                                               *)

Text(achs, ev, ms) == [achs |-> achs, ev |-> ev, metrics |-> ms]
About(as, ks) == Text(ks, UNION {{<<k, x>> : x \in DOMAIN as[k].ev} : k \in ks}, UNION {as[k].metrics : k \in ks})

\* createVersion, which counts nothing anew.
NewText(text, by) ==
  /\ narrative' = [text |-> text, by |-> by, earlier |-> narrative.earlier \union {text}]
  /\ review' = [review EXCEPT !.status = "narrative_ready"]
  /\ confirmation' = None /\ current' = {}
  /\ UNCHANGED <<Sourced, achievement, score>>

RuleNarrative == /\ Selected(achievement) # {} /\ NewText(About(achievement, Selected(achievement)), "rule")

CreateRuleNarrative == RuleNarrative /\ Edit /\ UNCHANGED Asked

\* validateContentReferences: cites selected achievements, their evidence and their metrics.
Valid(text) ==
  LET sel == About(achievement, Selected(achievement)) IN
  text.achs \subseteq sel.achs /\ text.ev \subseteq sel.ev /\ text.metrics \subseteq sel.metrics

CreateManualNarrative(ks) ==
  Edit /\ ks \subseteq DOMAIN achievement /\ Valid(About(achievement, ks))
       /\ NewText(About(achievement, ks), "user") /\ UNCHANGED Asked

RestoreNarrative ==
  Edit /\ \E text \in narrative.earlier : Valid(text) /\ NewText(text, "user") /\ UNCHANGED Asked

AdoptAi ==
  /\ Edit /\ \E text \in offers : NewText(text, "user") /\ offers' = offers \ {text}
  /\ UNCHANGED <<attempt, auto>>

RejectAi ==
  /\ Edit /\ \E text \in offers : offers' = offers \ {text}
  /\ UNCHANGED <<Sourced, achievement, review, score, narrative, confirmation, attempt, auto, current>>

-----------------------------------------------------------------------------
(* The confirmation.                                                       *)

Risks(checks) ==
  {x \in {"withoutEvidence", "withoutMetric", "uncovered", "duplicated"} : checks.counts[x] > 0}
  \union (IF checks.fresh = "fresh" THEN {} ELSE {"freshness"})

Frozen(checks) ==
  [achs |-> [k \in Selected(achievement) |-> achievement[k]], template |-> review.template,
   scores |-> score, text |-> narrative.text, checks |-> checks]

Recounted == [review.checks EXCEPT !.counts = Counted(achievement, review.template, Given(score))]

\* confirm with the acknowledgements the user gives; the checks are counted anew.
Confirm(acks) ==
  LET checks == Recounted
  IN /\ Edit
     /\ Selected(achievement) # {} /\ review.template # None /\ narrative.by # "none"
     /\ \A m \in Required(review.template) : score[m].user # None
     /\ Risks(checks) \subseteq acks
     /\ Calculated(review.template, Given(score)) # None
     /\ confirmation' = [frozen |-> Frozen(checks), acks |-> Risks(checks),
                         total |-> Calculated(review.template, Given(score)).total]
     /\ review' = [review EXCEPT !.status = "confirmed"]
     /\ current' = {}
     /\ UNCHANGED <<Sourced, achievement, score, narrative, Asked>>

-----------------------------------------------------------------------------
(* The AI.                                                                 *)

NoRequest == None

\* generate checks the version and then reads what it sends over several awaits.
Asks(who, purpose) ==
  /\ attempt[who] = None
  /\ attempt' = [attempt EXCEPT ![who] = [purpose |-> purpose, sent |-> None]]
  /\ UNCHANGED <<Sourced, achievement, review, score, narrative, confirmation, offers>>

AskAi(purpose) == Edit /\ Asks("user", purpose) /\ current' = current \union {"user"} /\ UNCHANGED auto

\* loadFacts and sanitizeQuarterlyAiInput: evidence that is not available is left out.
Loaded(x) ==
  [achs |-> [k \in Selected(achievement) |->
               [metrics |-> achievement[k].metrics,
                ev |-> {<<k, y>> : y \in {y \in DOMAIN achievement[k].ev : achievement[k].ev[y].available}}]],
   metrics |-> Enabled(x)]

\* Without achievements, or without metrics to score, nothing is sent.
Load(who) ==
  LET a == attempt[who]
      sent == Loaded(review.template)
      refused == DOMAIN sent.achs = {} \/ (a.purpose = "scores" /\ sent.metrics = {})
  IN /\ a # None /\ a.sent = None
     /\ attempt' = [attempt EXCEPT ![who] = IF refused THEN None ELSE [a EXCEPT !.sent = sent]]
     /\ auto' = IF refused /\ who = "auto" THEN "idle" ELSE auto
     /\ UNCHANGED <<Sourced, achievement, review, score, narrative, confirmation, offers, current, budget>>

\* The schedule goes on after an answer: it adopts a text, and ends after the scores.
GoesOn(who, purpose, ok) ==
  auto' = IF who # "auto" THEN auto ELSE IF purpose = "scores" THEN "idle" ELSE IF ok THEN "adopt" ELSE "scores"

\* validateQuarterlyNarrativeOutput: one section for each achievement that is cited.
CitedText(sent, cites) ==
  Text(cites, UNION {sent.achs[k].ev : k \in cites}, UNION {sent.achs[k].metrics : k \in cites})

Knows(who) == who \in current
Waits(a) == a # None /\ a.sent # None /\ a.purpose \in {"narrative", "scores"}

Writes(who, cites) ==
  LET a == attempt[who] IN
  /\ Waits(a) /\ a.purpose = "narrative" /\ Knows(who)
  /\ cites # {} /\ cites \subseteq DOMAIN a.sent.achs
  /\ offers' = offers \union {CitedText(a.sent, cites)}
  /\ attempt' = [attempt EXCEPT ![who] =
       IF who = "user" THEN None ELSE [purpose |-> "adopt", sent |-> CitedText(a.sent, cites)]]
  /\ current' = current \union {"written"}
  /\ GoesOn(who, "narrative", TRUE)
  /\ UNCHANGED <<Sourced, achievement, review, score, narrative, confirmation, budget>>

\* validateQuarterlyScoreOutput: every metric of the template, in its range and on its steps, with
\* an achievement that is mapped to it; the scores of the user are not touched.
Suggests(who, v, cites) ==
  LET a == attempt[who]
      d == Template[review.template].metric
  IN
  /\ Waits(a) /\ a.purpose = "scores" /\ Knows(who)
  /\ cites # {} /\ cites \subseteq DOMAIN a.sent.achs
  /\ \A m \in a.sent.metrics : InRange(d[m], v) /\ \E k \in cites : m \in a.sent.achs[k].metrics
  /\ score' = [m \in Metrics |-> IF m \in a.sent.metrics THEN [score[m] EXCEPT !.ai = v] ELSE score[m]]
  /\ attempt' = [attempt EXCEPT ![who] = None]
  /\ current' = current \union {"suggested"}
  /\ GoesOn(who, "scores", TRUE)
  /\ UNCHANGED <<Sourced, achievement, review, narrative, confirmation, offers, budget>>

\* The provider fails or its answer is refused; without a text a rule text takes its place.
Fails(who) ==
  LET a == attempt[who]
      fallback == a.purpose = "narrative" /\ narrative.by = "none" /\ Knows(who)
  IN /\ Waits(a)
     /\ attempt' = [attempt EXCEPT ![who] = None]
     /\ GoesOn(who, a.purpose, FALSE)
     /\ \/ fallback /\ RuleNarrative
        \/ ~fallback /\ UNCHANGED <<Sourced, achievement, review, score, narrative, confirmation, current>>
     /\ UNCHANGED <<offers, budget>>

\* The review has changed since the question: the answer is dropped.
Dropped(who) ==
  LET a == attempt[who] IN
  /\ Waits(a) /\ ~Knows(who)
  /\ attempt' = [attempt EXCEPT ![who] = None]
  /\ auto' = IF who = "auto" THEN "idle" ELSE auto
  /\ UNCHANGED <<Sourced, achievement, review, score, narrative, confirmation, offers, current, budget>>

-----------------------------------------------------------------------------
(* The schedule (QuarterlyAutomaticDraftService), every twenty minutes.    *)

\* Once a week it collects; otherwise it goes on to the candidates.
AutoTick ==
  /\ auto = "idle" /\ review.status # "collecting"
  /\ budget.ticks > 0 /\ budget' = [budget EXCEPT !.ticks = @ - 1]
  /\ \/ ~weekly /\ Queued(Sources, "allow_stale") /\ UNCHANGED auto
     \/ /\ weekly /\ auto' = "select" /\ current' = current \union {"auto"}
        /\ UNCHANGED <<Sourced, achievement, review, score, narrative, confirmation>>
  /\ UNCHANGED <<attempt, offers>>

\* All candidates are selected; a review that has changed meanwhile ends the tick.
AutoSelect ==
  LET cs == {k \in DOMAIN achievement : achievement[k].select = "candidate"}
      as == [k \in DOMAIN achievement |->
               IF k \in cs THEN [achievement[k] EXCEPT !.select = "selected"] ELSE achievement[k]]
  IN
  /\ auto = "select"
  /\ \/ cs = {} /\ auto' = "text" /\ UNCHANGED <<achievement, review, score, confirmation, current>>
     \/ cs # {} /\ ~Knows("auto") /\ auto' = "idle"
          /\ UNCHANGED <<achievement, review, score, confirmation, current>>
     \/ /\ cs # {} /\ Knows("auto") /\ auto' = "text"
        /\ review' = [review EXCEPT !.status = "selecting",
             !.checks.counts = Counted(as, review.template, Given(score))]
        /\ achievement' = as
        /\ confirmation' = None /\ current' = {"auto"} /\ UNCHANGED score
  /\ UNCHANGED <<Sourced, narrative, attempt, offers, budget>>

\* A text is asked for unless one was written for this version of the review; the tick ends when
\* the version is old or no provider is healthy.
AutoAsks ==
  /\ auto = "text" /\ attempt["auto"] = None
  /\ \/ auto' = "idle" /\ UNCHANGED <<attempt, Sourced, achievement, review, score, narrative,
                                      confirmation, offers>>
     \/ Knows("auto") /\ "written" \notin current /\ Asks("auto", "narrative") /\ UNCHANGED auto
     \/ Knows("auto") /\ "written" \in current /\ auto' = "scores"
          /\ UNCHANGED <<attempt, Sourced, achievement, review, score, narrative, confirmation, offers>>
  /\ UNCHANGED <<current, budget>>

\* What was written is adopted at once, unless the user has decided on it before.
AutoAdopts ==
  LET text == attempt["auto"].sent IN
  /\ auto = "adopt"
  /\ attempt' = [attempt EXCEPT !["auto"] = None]
  /\ \/ /\ ~ (Knows("auto") /\ text \in offers) /\ auto' = "idle"
        /\ UNCHANGED <<Sourced, achievement, review, score, narrative, confirmation, offers, current>>
     \/ /\ Knows("auto") /\ text \in offers /\ auto' = "scores"
        /\ narrative' = [text |-> text, by |-> "auto", earlier |-> narrative.earlier \union {text}]
        /\ offers' = offers \ {text}
        /\ review' = [review EXCEPT !.status = "narrative_ready"]
        /\ confirmation' = None /\ current' = {"auto"}
        /\ UNCHANGED <<Sourced, achievement, score>>
  /\ UNCHANGED budget

AutoScores ==
  /\ auto = "scores" /\ attempt["auto"] = None
  /\ \/ /\ Knows("auto") /\ review.template # None /\ "suggested" \notin current
        /\ Asks("auto", "scores") /\ UNCHANGED auto
     \/ /\ ~ (Knows("auto") /\ review.template # None /\ "suggested" \notin current)
        /\ auto' = "idle"
        /\ UNCHANGED <<attempt, Sourced, achievement, review, score, narrative, confirmation, offers>>
  /\ UNCHANGED <<current, budget>>

Keys == DOMAIN achievement
ManualLink == <<"manual_link", None>>

Next ==
  \/ SourceChanges \/ NewWeek
  \/ \E s \in {Sources, {"tasks"}}, mode \in {"require_fresh", "allow_stale"} : Collect(s, mode)
  \/ CollectionReads \/ CollectionEnds \/ CollectionStops \/ CollectionIsStale
  \/ CreateManual
  \/ \E k \in Keys : \/ Update(k) \/ \E choice \in Selections : Select(k, choice)
                     \/ \E p, v \in BOOLEAN : AddEvidence(k, ManualLink, p, v)
                     \/ \E ms \in SUBSET Metrics : Map(k, ms)
  \/ \E x \in DOMAIN Template : BindTemplate(x)
  \/ \E m \in Metrics, v \in Scores \union {None} : UpdateScore(m, v)
  \/ CreateRuleNarrative \/ \E ks \in SUBSET Keys : CreateManualNarrative(ks)
  \/ RestoreNarrative \/ AdoptAi \/ RejectAi
  \/ \E acks \in {{}, {"withoutEvidence", "withoutMetric", "uncovered", "duplicated", "freshness"}} : Confirm(acks)
  \/ \E purpose \in {"narrative", "scores"} : AskAi(purpose)
  \/ \E who \in Who : \/ Load(who) \/ Fails(who) \/ Dropped(who)
                      \/ \E cites \in SUBSET Keys : Writes(who, cites) \/ \E v \in Scores : Suggests(who, v, cites)
  \/ AutoTick \/ AutoSelect \/ AutoAsks \/ AutoAdopts \/ AutoScores

Spec == Init /\ [][Next]_vars

-----------------------------------------------------------------------------
(* Properties.                                                             *)

Statuses == {"draft", "collecting", "candidates_ready", "collection_failed", "selecting", "scoring",
             "narrative_ready", "confirmed"}

\* An achievement of a review with template x; it has one main evidence at most.
OnePrimary(ev) == \A y, z \in DOMAIN ev : ev[y].primary /\ ev[z].primary => y = z
Achievement(a, x) ==
  /\ a \in [text: {"collected", "typed"}, select: Selections, level: Levels, ev: {a.ev},
            metrics: SUBSET MetricsOf(x)]
  /\ a.ev = [y \in DOMAIN a.ev |-> a.ev[y]] /\ OnePrimary(a.ev)

Review(r) ==
  /\ r \in [status: Statuses, template: DOMAIN Template \union {None}, checks: {r.checks}]
  /\ r.checks \in [fresh: {"not_collected", "stale_ack_required", "fresh"}, counts: {r.checks.counts}]

\* Types; a confirmation is that of a review that is confirmed and of nobody's older version.
TypeOK ==
  /\ fact \in Facts /\ weekly \in BOOLEAN
  /\ run # None => run \in [sources: {run.sources}, mode: {run.mode}, read: {run.read}, fallback: Statuses]
  /\ achievement = [k \in Keys |-> achievement[k]]
  /\ \A k \in Keys : Achievement(achievement[k], review.template)
  /\ Review(review)
  /\ score \in [Metrics -> [user: Scores \union {None}, ai: Scores \union {None}]]
  /\ narrative.by \in {"none", "rule", "user", "auto"}
  /\ confirmation # None => review.status = "confirmed"
  /\ attempt = [w \in Who |-> attempt[w]]
  /\ \A w \in Who : attempt[w] # None =>
       attempt[w] \in [purpose: {"narrative", "scores", "adopt"}, sent: {attempt[w].sent}]
  /\ auto \in {"idle", "select", "text", "adopt", "scores"}
  /\ current \subseteq {"run", "auto", "user", "written", "suggested"}
  /\ budget \in [changes: 0..MaxChanges, edits: 0..MaxEdits, ticks: 0..MaxTicks]

Rank == [x \in Levels |-> IF x = "complete" THEN 2 ELSE IF x = "partial" THEN 1 ELSE 0]

\* Text, choice, metrics and evidence of a are those of b, and b is not less complete.
Keeps(a, b) ==
  /\ [b EXCEPT !.ev = a.ev, !.level = a.level] = a
  /\ \A x \in DOMAIN a.ev : x \in DOMAIN b.ev /\ b.ev[x] = a.ev[x]
  /\ Rank[b.level] >= Rank[a.level]

\* A collection takes nothing from the user: whatever sources have changed, an achievement that is
\* there stays with its text, choice, metrics and evidence, is not lowered, and has one main
\* evidence at most.
CollectsKindly ==
  run # None /\ run'= None =>
    /\ \A k \in Keys : k \in DOMAIN achievement' /\ Keeps(achievement[k], achievement'[k])
    /\ \A k \in DOMAIN achievement' : OnePrimary(achievement'[k].ev)
RecollectionKeeps == [][CollectsKindly]_vars

\* An active confirmation is that of the review as it is: of the selected achievements, the
\* template, the user's scores and the text; every risk is acknowledged, and the total is that of
\* the user's scores.
ConfirmationTells ==
  confirmation # None =>
    LET f == confirmation.frozen IN
    /\ f.achs = [k \in Selected(achievement) |-> achievement[k]] /\ f.template = review.template
    /\ Given(f.scores) = Given(score) /\ f.text = narrative.text
    /\ Risks(Recounted) \subseteq confirmation.acks
    /\ Calculated(review.template, Given(score)) = [total |-> confirmation.total]

\* A confirmed average of all the scores is between the lowest and the highest of them.
AverageIsBetween ==
  LET given == {score[m].user : m \in {m \in Enabled(review.template) : score[m].user # None}} IN
  confirmation # None /\ Template[review.template].formula = "weighted_average_100"
      /\ (\A m \in Enabled(review.template) : score[m].user # None) =>
    Min(given) * 100 <= confirmation.total /\ confirmation.total <= Max(given) * 100

\* Checks that say they are about the selected achievements are those of the achievements,
\* template and scores as they are.
ChecksAreCurrent ==
  review.checks.counts # NoCounts => review.checks.counts = Counted(achievement, review.template, Given(score))

\* What the AI proposes rests on the review as it is when it is stored, whatever was changed while
\* it was asked: a text cites selected achievements with evidence and metrics they have, a score is
\* for a metric that a selected achievement is mapped to, and the user's scores stay.
ProposesGrounded ==
  /\ \A text \in offers' \ offers : Valid(text) /\ text.achs # {}
  /\ \A m \in Metrics : score'[m].ai # score[m].ai =>
       /\ score'[m].user = score[m].user
       /\ \E k \in Selected(achievement) : m \in achievement[k].metrics
ProposalsAreGrounded == [][ProposesGrounded]_vars

-----------------------------------------------------------------------------
(* What the steps rely on.                                                 *)

\* A collection that still knows the version has ended the confirmation; what was sent to the AI
\* from a version that is still known is the review as it is; the schedule asks when it says so.
InStep ==
  /\ "run" \in current => confirmation = None
  /\ \A w \in Who : w \in current /\ Waits(attempt[w]) => attempt[w].sent = Loaded(review.template)
  /\ auto \in {"idle", "select"} => attempt["auto"] = None

IInv == TypeOK /\ InStep /\ ChecksAreCurrent /\ ConfirmationTells
=============================================================================
