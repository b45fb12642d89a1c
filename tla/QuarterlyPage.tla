---------------------------- MODULE QuarterlyPage ----------------------------
(***************************************************************************)
(* The page of the quarterly reviews (QuarterlyReviewsPage.tsx) and one    *)
(* review under it.  The page keeps copies that were read at different     *)
(* times: the review is polled, the rows of the achievements, the checks   *)
(* before a confirmation and the offers of the AI are only read again      *)
(* after a write of this page or on request.  Forms are filled from the    *)
(* copies and sent with the version of the review polled last; meanwhile   *)
(* other windows, the schedule and collections write.                      *)
(*                                                                         *)
(* A content is named by the review version of the write that made it, 0   *)
(* is none; an achievement is its text, choice, metric links and evidence. *)
(***************************************************************************)
EXTENDS Naturals

CONSTANTS
  Achievements, Templates, None,
  Starts,    \* the reviews and rows a page may be opened on, see Start
  Others,    \* the requests that others make
  Budgets    \* bounds: [own, other], requests of this page, and of others with collections that end

\* The mutations of the page; "save" edits an achievement or makes one, "decide" adopts or rejects
\* an offer or restores a text.
Mutations == {"save", "select", "evidence", "map", "bind", "scores", "ai", "rule", "text",
              "decide", "confirm", "collect"}
RowRequests == {"save", "select", "evidence", "map"}
Selections == {"candidate", "selected", "excluded", "needs_evidence"}
Filters == Selections \union {"all"}
RiskCodes == {"SELECTED_WITHOUT_EVIDENCE", "SELECTED_WITHOUT_METRIC"}
Queries == {"text", "table", "all", "gate", "offers"}

Row == [version: Nat, text: Nat, select: Selections, links: Nat, ev: Nat]
Rows == [Achievements -> Row \union {None}]
Confirmed == [at: Nat, text: Nat, acks: SUBSET RiskCodes]
Review == [version: Nat, template: Templates \union {None}, scores: Nat, text: Nat,
           confirmed: Confirmed \union {None}, collecting: BOOLEAN]
Start == [review: Review, rows: Rows]

\* What the constants must be; scores need a template, and None is nothing else.
QuarterlyPageAssumption ==
  /\ Starts \subseteq Start /\ Others \subseteq Mutations /\ Budgets \subseteq [own: Nat, other: Nat]
  /\ None \notin Row /\ None \notin Templates /\ None \notin Confirmed /\ None \notin Nat
  /\ \A s \in Starts : s.review.template = None => s.review.scores = 0

VARIABLES
  review,   \* the quarterly_review row with its scores and its current text
  rows,     \* the achievements of the review
  offers,   \* the versions of the review for which the AI has written a text that waits
  page,     \* the copies of the page, its filter, ticks, score form and reasons
  form,     \* the drawer or modal that is open: its mutation, and what it was filled with
  calls,    \* for each mutation, the request of the page that is pending
  budget    \* [own, other] left

database == <<review, rows, offers>>
vars == <<database, page, form, calls, budget>>

-----------------------------------------------------------------------------
(* The requests at the server, each one transaction.                       *)

Stamp == review.version + 1
Selected == {a \in Achievements : rows[a] # None /\ rows[a].select = "selected"}

\* buildPreflight: what must be acknowledged, and whether the review can be confirmed.
Risks ==
  {x \in RiskCodes : \E a \in Selected : \/ x = "SELECTED_WITHOUT_EVIDENCE" /\ rows[a].ev = 0
                                         \/ x = "SELECTED_WITHOUT_METRIC" /\ rows[a].links = 0}
Confirmable == Selected # {} /\ review.template # None /\ review.scores # 0 /\ review.text # 0

\* Mutant: the versions of the rows are not compared.
CurrentReview(b) == b.detail.version = review.version /\ \A a \in DOMAIN b.rows : rows[a] # None

\* The versions a request was made from are those of the database; evidence tells of the row.
Current(b) ==
  /\ b.detail.version = review.version
  /\ \A a \in DOMAIN b.rows : rows[a] # None /\ rows[a].version = b.rows[a].version

\* A write of the review ends its confirmation and a collection that runs.
Bumped(r) == [r EXCEPT !.version = @ + 1, !.confirmed = None, !.collecting = FALSE]

Rewritten(m, b, r) ==
  [r EXCEPT !.version = @ + 1,
            !.text = IF m = "save" THEN Stamp ELSE @,
            !.select = IF m = "select" THEN b.choice ELSE @,
            !.links = IF m = "map" THEN Stamp ELSE @,
            !.ev = IF m = "evidence" THEN Stamp ELSE @]

\* Achievements are edited, decided on, proved or mapped; only a selected one is mapped.
WritesRows(m, b) ==
  /\ m \in RowRequests /\ DOMAIN b.rows # {} /\ Current(b)
  /\ m = "select" => b.choice \in Selections
  /\ m = "map" => review.template # None /\ DOMAIN b.rows \subseteq Selected
  /\ rows' = [a \in Achievements |-> IF a \in DOMAIN b.rows THEN Rewritten(m, b, rows[a]) ELSE rows[a]]
  /\ review' = Bumped(review)
  /\ UNCHANGED offers

Manual == [version |-> 1, text |-> Stamp, select |-> "needs_evidence", links |-> 0, ev |-> 0]

CreatesManual(m, b) ==
  /\ m = "save" /\ DOMAIN b.rows = {} /\ Current(b)
  /\ \E a \in Achievements : rows[a] = None /\ rows' = [rows EXCEPT ![a] = Manual]
  /\ review' = Bumped(review)
  /\ UNCHANGED offers

\* A template that is bound already is a replay; another one ends the links of the rows that have any.
Binds(m, b) ==
  /\ m = "bind" /\ b.choice \in Templates /\ Current(b)
  /\ \/ review.template = b.choice /\ UNCHANGED <<review, rows>>
     \/ /\ review.template # b.choice
        /\ review' = [Bumped(review) EXCEPT !.template = b.choice]
        /\ rows' = [a \in Achievements |->
             IF rows[a] # None /\ rows[a].links # 0
             THEN [rows[a] EXCEPT !.links = 0, !.version = @ + 1] ELSE rows[a]]
  /\ UNCHANGED offers

Scores(m, b) ==
  /\ m = "scores" /\ Current(b) /\ review.template # None
  /\ review' = [Bumped(review) EXCEPT !.scores = Stamp]
  /\ UNCHANGED <<rows, offers>>

\* createVersion, for a text made by rule, typed, adopted or restored; an offer that is adopted need
\* not be of the review as it is.
WritesText(m, b) ==
  /\ \/ m = "rule" /\ Selected # {} /\ UNCHANGED offers
     \/ m = "text" /\ UNCHANGED offers
     \/ m = "decide" /\ b.choice = "restore" /\ UNCHANGED offers
     \/ m = "decide" /\ b.choice = "adopt" /\ b.offer \in offers /\ offers' = offers \ {b.offer}
  /\ Current(b)
  /\ review' = [Bumped(review) EXCEPT !.text = Stamp]
  /\ UNCHANGED rows

\* A rejection names no version.
Rejects(m, b) ==
  /\ m = "decide" /\ b.choice = "reject" /\ b.offer \in offers /\ offers' = offers \ {b.offer}
  /\ UNCHANGED <<review, rows>>

\* The answer of the AI is stored for the version it was asked for, if that is still the current one.
Generates(m, b) ==
  /\ m = "ai" /\ Current(b) /\ Selected # {}
  /\ offers' = offers \union {review.version}
  /\ UNCHANGED <<review, rows>>

Collects(m, b) ==
  /\ m = "collect" /\ Current(b) /\ ~review.collecting
  /\ review' = [Bumped(review) EXCEPT !.collecting = TRUE]
  /\ UNCHANGED <<rows, offers>>

\* confirm: a request sent twice is a replay; otherwise the risks are counted anew.
Confirms(m, b) ==
  /\ m = "confirm" /\ b.detail.text # 0
  /\ \/ /\ review.confirmed # None
        /\ review.confirmed.at = b.detail.version /\ review.confirmed.text = b.detail.text
        /\ UNCHANGED review
     \/ /\ Current(b) /\ review.text = b.detail.text
        /\ Confirmable /\ Risks \subseteq b.acks
        /\ review' = [review EXCEPT !.version = @ + 1, !.collecting = FALSE,
             !.confirmed = [at |-> review.version, text |-> review.text, acks |-> Risks]]
  /\ UNCHANGED <<rows, offers>>

Does(m, b) ==
  \/ WritesRows(m, b) \/ CreatesManual(m, b) \/ Binds(m, b) \/ Scores(m, b) \/ WritesText(m, b)
  \/ Rejects(m, b) \/ Generates(m, b) \/ Collects(m, b) \/ Confirms(m, b)

-----------------------------------------------------------------------------
(* The reads of the page.                                                  *)

Stored == {a \in Achievements : rows[a] # None}
Passing(f) == {a \in Stored : f = "all" \/ rows[a].select = f}
Copy(s) == [a \in s |-> rows[a]]
NoText == None
NoRows == [a \in {} |-> None]
Gate == IF page.detail.text = 0 THEN None
        ELSE [risks |-> Risks, ready |-> Confirmable /\ review.text = page.detail.text]

\* The page after it has been opened.
Opened ==
  [detail |-> review, text |-> review.text, table |-> Copy(Stored), all |-> Copy(Stored),
   at |-> review.version, gate |-> None, offers |-> offers,
   filter |-> "all", ticked |-> {}, scores |-> review.scores, reasons |-> {},
   due |-> {"gate"}]

Init ==
  /\ \E s \in Starts : review = s.review /\ rows = s.rows
  /\ offers = {}
  /\ page = Opened
  /\ form = None /\ calls = [m \in Mutations |-> None]
  /\ budget \in Budgets

\* Mutant: a new version of the same review leaves the score form as it is.
ScoresKept == page.scores

\* The score form is filled again with every version of the review.
ScoresShown ==
  IF review.template # None /\ review.version # page.detail.version THEN review.scores ELSE page.scores

\* Every three seconds; the text and the checks belong to the id of the current text.
Poll ==
  /\ page' = IF review.text = page.detail.text
             THEN [page EXCEPT !.detail = review, !.scores = ScoresShown]
             ELSE [page EXCEPT !.detail = review, !.scores = ScoresShown, !.text = NoText, !.gate = None,
                               !.due = @ \union {"text", "gate"}]
  /\ UNCHANGED <<database, form, calls, budget>>

Read(q) == [page EXCEPT !.due = @ \ {q}]

\* What is due is read: a text never changes, the table is filtered by the server, the checks are
\* those of the text the page shows.
Fetch(q) ==
  /\ q \in page.due
  /\ page' = CASE q = "text" -> [Read(q) EXCEPT !.text = page.detail.text]
               [] q = "table" -> [Read(q) EXCEPT !.table = Copy(Passing(page.filter))]
               [] q = "all" -> [Read(q) EXCEPT !.all = Copy(Stored), !.at = review.version]
               [] q = "gate" -> [Read(q) EXCEPT !.gate = Gate]
               [] q = "offers" -> [Read(q) EXCEPT !.offers = offers]
  /\ UNCHANGED <<database, form, calls, budget>>

\* refreshReview: a button, and for the queries also the return of the window, under an open form too.
Refreshed(p) == [p EXCEPT !.due = Queries]
Refresh == page' = Refreshed(page) /\ UNCHANGED <<database, form, calls, budget>>

\* Another filter is another query, and ends the ticks of rows that may be hidden by it.
ChooseFilter(f) ==
  /\ form = None /\ f # page.filter
  /\ page' = [page EXCEPT !.filter = f, !.ticked = {}, !.table = NoRows, !.due = @ \union {"table"}]
  /\ UNCHANGED <<database, form, calls, budget>>

Tick(a) ==
  /\ form = None /\ a \in DOMAIN page.table
  /\ page' = [page EXCEPT !.ticked = IF a \in @ THEN @ \ {a} ELSE @ \union {a}]
  /\ UNCHANGED <<database, form, calls, budget>>

\* Whatever the page asks for is acknowledged; the reasons stay for what is asked later.
Reason ==
  /\ form = None /\ page.gate # None /\ ~ (page.gate.risks \subseteq page.reasons)
  /\ page' = [page EXCEPT !.reasons = @ \union page.gate.risks]
  /\ UNCHANGED <<database, form, calls, budget>>

-----------------------------------------------------------------------------
(* Forms: the buttons that open a drawer or a modal, each with its         *)
(* condition, and what it is filled with.                                  *)

Open(m, r, choice, offer) ==
  /\ form = None
  /\ form' = [of |-> m, rows |-> r, choice |-> choice, offer |-> offer]
  /\ UNCHANGED <<database, page, calls, budget>>

TableRow(a) == [x \in {a} |-> page.table[a]]
ListRow(a) == [x \in {a} |-> page.all[a]]
Listed == {a \in DOMAIN page.all : page.all[a].select = "selected"}

\* The editor captures a row, or is empty for an achievement of the user.
OpenAchievementEditor(r) ==
  /\ r = NoRows \/ \E a \in DOMAIN page.table : r = TableRow(a)
  /\ Open("save", r, None, 0)

OpenEvidence(a) == a \in DOMAIN page.table /\ Open("evidence", TableRow(a), None, 0)

\* Offered for a selected row of the table and in the list of all that are selected.
OpenMapping(a) ==
  /\ page.detail.template # None
  /\ \/ a \in DOMAIN page.table /\ page.table[a].select = "selected" /\ Open("map", TableRow(a), None, 0)
     \/ a \in Listed /\ Open("map", ListRow(a), None, 0)

OpenSelection(choice) == page.ticked # {} /\ choice \in Selections /\ Open("select", NoRows, choice, 0)

\* A row that is dragged is the only one ticked.
Drag(a) ==
  /\ form = None /\ a \in DOMAIN page.table
  /\ page' = [page EXCEPT !.ticked = {a}]
  /\ form' = [of |-> "select", rows |-> NoRows, choice |-> "selected", offer |-> 0]
  /\ UNCHANGED <<database, calls, budget>>

OpenCollection == Open("collect", NoRows, None, 0)

OpenNarrativeEditor ==
  /\ page.text \notin {None, 0} \/ Listed # {}
  /\ Open("text", NoRows, None, 0)

\* An earlier text is restored; an offer that is not old by what the page has read is decided on.
OpenDecision(choice, offer) ==
  /\ \/ choice = "restore" /\ page.detail.text # 0 /\ offer = 0
     \/ choice \in {"adopt", "reject"} /\ offer \in page.offers
  /\ Open("decide", NoRows, choice, offer)

\* confirmationReadiness: no blocker, and a reason for each risk.
Ready == page.gate # None /\ page.gate.ready /\ page.gate.risks \subseteq page.reasons

OpenConfirmation == Ready /\ page.detail.confirmed = None /\ Open("confirm", NoRows, None, 0)

Close == /\ form # None /\ form' = None /\ UNCHANGED <<database, page, calls, budget>>

-----------------------------------------------------------------------------
(* Requests.                                                               *)

\* What a request carries, and what the page shows when it is sent.
Body(r, choice, offer) ==
  [stage |-> "sent", detail |-> page.detail, rows |-> r, choice |-> choice, offer |-> offer,
   scores |-> page.scores, text |-> page.text, all |-> page.all, at |-> page.at,
   acks |-> IF page.gate = None THEN {} ELSE page.gate.risks]

\* A button waits while its mutation is pending.
Send(m, r, choice, offer) ==
  /\ calls[m] = None
  /\ budget.own > 0 /\ budget' = [budget EXCEPT !.own = @ - 1]
  /\ calls' = [calls EXCEPT ![m] = Body(r, choice, offer)]
  /\ UNCHANGED <<database, page, form>>

SubmitAchievement == form.of = "save" /\ Send("save", form.rows, None, 0)
SubmitEvidence == form.of = "evidence" /\ Send("evidence", form.rows, None, 0)
SubmitMapping == form.of = "map" /\ Send("map", form.rows, None, 0)

\* A decision is about the ticked rows that the table still shows, as it shows them.
TickedRows == [a \in page.ticked \intersect DOMAIN page.table |-> page.table[a]]
SubmitSelection == form.of = "select" /\ Send("select", TickedRows, form.choice, 0)

SubmitCollection == form.of = "collect" /\ Send("collect", NoRows, None, 0)
SubmitNarrative == form.of = "text" /\ Send("text", NoRows, None, 0)
SubmitDecision == form.of = "decide" /\ Send("decide", NoRows, form.choice, form.offer)

\* The text that is current for the page, and the risks it shows by now, are confirmed.
SubmitConfirmation ==
  /\ form.of = "confirm" /\ page.detail.text # 0
  /\ page.gate # None => page.gate.risks \subseteq page.reasons
  /\ Send("confirm", NoRows, None, 0)

Submit ==
  /\ form # None
  /\ \/ SubmitAchievement \/ SubmitEvidence \/ SubmitMapping \/ SubmitSelection
     \/ SubmitCollection \/ SubmitNarrative \/ SubmitDecision \/ SubmitConfirmation

\* The buttons without a form; a template is offered until the page shows that it is bound.
BindTemplate(t) == form = None /\ t # page.detail.template /\ Send("bind", NoRows, t, 0)
SaveScores == form = None /\ page.detail.template # None /\ Send("scores", NoRows, None, 0)
GenerateAi == form = None /\ Send("ai", NoRows, None, 0)
CreateRuleNarrative == form = None /\ Send("rule", NoRows, None, 0)

\* A request whose data the server refuses for reasons of its own, or whose versions are old.
Served(m, ok) ==
  /\ calls[m] # None /\ calls[m].stage = "sent"
  /\ \/ ok /\ Does(m, calls[m]) /\ calls' = [calls EXCEPT ![m].stage = "accepted"]
     \/ ~ok /\ UNCHANGED database /\ calls' = [calls EXCEPT ![m].stage = "refused"]
  /\ UNCHANGED <<page, form, budget>>

\* onSuccess: the form of the mutation closes, whatever it holds by now, and everything is read again.
Succeeds(m) ==
  /\ calls[m] # None /\ calls[m].stage = "accepted"
  /\ calls' = [calls EXCEPT ![m] = None]
  /\ form' = IF form # None /\ form.of = m THEN None ELSE form
  /\ page' = IF m = "select" THEN [Refreshed(page) EXCEPT !.ticked = {}] ELSE Refreshed(page)
  /\ UNCHANGED <<database, budget>>

\* onError: refused, or the answer is lost.
Fails(m) ==
  /\ calls[m] # None /\ calls[m].stage \in {"accepted", "refused"}
  /\ calls' = [calls EXCEPT ![m] = None]
  /\ UNCHANGED <<database, page, form, budget>>

-----------------------------------------------------------------------------
(* The others.                                                             *)

Event == budget.other > 0 /\ budget' = [budget EXCEPT !.other = @ - 1]

\* Another window or the schedule, which know the review as it is.
OtherWrites(m, as, choice, offer) ==
  /\ Event /\ m \in Others /\ as \subseteq Stored
  /\ Does(m, [detail |-> review, rows |-> Copy(as), choice |-> choice, offer |-> offer, acks |-> RiskCodes])
  /\ UNCHANGED <<page, form, calls>>

\* A collection brings achievements, and evidence for those that are there; the version of a row
\* only counts if its level of evidence rises.
Collected(r, rises) ==
  IF r = None THEN [version |-> 1, text |-> Stamp, select |-> "candidate", links |-> 0, ev |-> Stamp]
  ELSE [r EXCEPT !.ev = Stamp, !.version = IF rises THEN @ + 1 ELSE @]

CollectionEnds(as, rises) ==
  /\ Event /\ review.collecting
  /\ rows' = [a \in Achievements |-> IF a \in as THEN Collected(rows[a], rises) ELSE rows[a]]
  /\ review' = [review EXCEPT !.version = @ + 1, !.collecting = FALSE]
  /\ UNCHANGED <<offers, page, form, calls>>

Captured == {NoRows} \union {TableRow(a) : a \in DOMAIN page.table}
Choices == Templates \union Selections \union {None, "restore", "adopt", "reject"}

Opens ==
  \/ \E r \in Captured : OpenAchievementEditor(r)
  \/ \E a \in Achievements : OpenEvidence(a) \/ OpenMapping(a) \/ Drag(a)
  \/ \E x \in Choices : OpenSelection(x) \/ \E o \in page.offers \union {0} : OpenDecision(x, o)
  \/ OpenCollection \/ OpenNarrativeEditor \/ OpenConfirmation

Presses == (\E t \in Templates : BindTemplate(t)) \/ SaveScores \/ GenerateAi \/ CreateRuleNarrative

Next ==
  \/ Poll \/ Refresh \/ Reason \/ Opens \/ Close \/ Submit \/ Presses
  \/ \E q \in Queries : Fetch(q)
  \/ \E f \in Filters : ChooseFilter(f)
  \/ \E a \in Achievements : Tick(a)
  \/ \E m \in Mutations :
       \/ Succeeds(m) \/ Fails(m)
       \/ \E ok \in BOOLEAN : Served(m, ok)
       \/ \E as \in SUBSET Achievements, x \in Choices, o \in offers \union {0} : OtherWrites(m, as, x, o)
  \/ \E as \in SUBSET Achievements, rises \in BOOLEAN : CollectionEnds(as, rises)

Spec == Init /\ [][Next]_vars

-----------------------------------------------------------------------------
(* Properties.                                                             *)

\* What the user reads of an achievement, without its evidence.
Said(r) == [text |-> r.text, select |-> r.select, links |-> r.links]

\* A copy of a row or of the review is an older one, or says what the database says.
RowTells(a, r) ==
  /\ r \in Row /\ rows[a] # None /\ r.version <= rows[a].version
  /\ r.version = rows[a].version => Said(r) = Said(rows[a])
ReviewTells(d) ==
  /\ d \in Review /\ d.version <= review.version /\ (d.version = review.version => d = review)
  /\ (d.template = None => d.scores = 0) /\ (review.template = None => d.template = None)
RowsTell(f) == DOMAIN f \subseteq Achievements /\ \A a \in DOMAIN f : RowTells(a, f[a])

\* The list of all achievements with the version of the review it was read at.
ListTells(list, at) == at \in Nat /\ at <= review.version /\ (at = review.version => list = Copy(Stored))

\* The texts, choices and mappings of the page are older ones or those of the database, and its score
\* form is filled with the scores of the review it shows; so is whatever was sent or stands in a form.
CopiesTell ==
  /\ ReviewTells(page.detail) /\ RowsTell(page.table) /\ RowsTell(page.all) /\ ListTells(page.all, page.at)
  /\ page.scores = page.detail.scores /\ page.text \in {None, page.detail.text}
  /\ form # None => RowsTell(form.rows)
  /\ \A m \in Mutations : calls[m] # None =>
       /\ ReviewTells(calls[m].detail) /\ RowsTell(calls[m].rows) /\ ListTells(calls[m].all, calls[m].at)
       /\ calls[m].scores = calls[m].detail.scores /\ calls[m].text \in {None, calls[m].detail.text}

\* What a request b of the page would write over now is what the page showed.
WritesOverShown(m, b) ==
  /\ \A a \in DOMAIN b.rows : Said(rows[a]) = Said(b.rows[a])
  /\ m = "scores" => review.scores = b.scores /\ review.template = b.detail.template
  /\ m = "confirm" /\ review'.confirmed # review.confirmed =>
       /\ b.text \in {None, review.text} /\ b.scores = review.scores /\ Risks \subseteq b.acks
       /\ b.at = b.detail.version => b.all = Copy(Stored)

\* An achievement, a mapping, a decision or scores that the server accepts from the page replace
\* exactly what the page had shown when its form was filled, whoever has written meanwhile; and a
\* confirmation freezes the scores and no other text than the page showed, with its risks
\* acknowledged, and the achievements the page showed if it has read them with that version.
SavesAsShown ==
  \A m \in Mutations :
    calls[m] # None /\ calls'[m] # None /\ calls[m].stage = "sent" /\ calls'[m].stage = "accepted" =>
      WritesOverShown(m, calls[m])
AcceptedAsShown == [][SavesAsShown]_vars

-----------------------------------------------------------------------------
(* What the steps rely on.                                                 *)

Paged(p) ==
  /\ p = [detail |-> p.detail, text |-> p.text, table |-> p.table, all |-> p.all, at |-> p.at,
          gate |-> p.gate, offers |-> p.offers, filter |-> p.filter, ticked |-> p.ticked,
          scores |-> p.scores, reasons |-> p.reasons, due |-> p.due]
  /\ p.due \subseteq Queries /\ p.filter \in Filters
Formed(f) ==
  f = [of |-> f.of, rows |-> f.rows, choice |-> f.choice, offer |-> f.offer] /\ f.of \in Mutations
Call(b) ==
  /\ b = [stage |-> b.stage, detail |-> b.detail, rows |-> b.rows, choice |-> b.choice, offer |-> b.offer,
          scores |-> b.scores, text |-> b.text, all |-> b.all, at |-> b.at, acks |-> b.acks]
  /\ b.stage \in {"sent", "accepted", "refused"}

TypeOK ==
  /\ review \in Review /\ rows \in Rows /\ offers \subseteq Nat
  /\ review.template = None => review.scores = 0
  /\ Paged(page) /\ (form # None => Formed(form))
  /\ calls = [m \in Mutations |-> calls[m]] /\ \A m \in Mutations : calls[m] # None => Call(calls[m])
  /\ budget \in [own: Nat, other: Nat]

\* Only the requests about rows carry any.
RequestsFit == \A m \in Mutations \ RowRequests : calls[m] # None => DOMAIN calls[m].rows = {}

IInv == TypeOK /\ CopiesTell /\ RequestsFit
=============================================================================
