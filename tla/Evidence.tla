------------------------------ MODULE Evidence ------------------------------
(***************************************************************************)
(* Evidence of the work on a task (modules/gitlab, modules/evidence, the   *)
(* evidence panel of the web workbench): a job reads the projects of a     *)
(* GitLab connection one after the other into a cache; once all are read,  *)
(* one transaction turns the cache into evidence and suggests links to the *)
(* task; the user decides on the links from a page that was loaded earlier.*)
(*                                                                         *)
(* One connection and one task, which stays visible.  The content hash of  *)
(* an evidence row is its content; the version of the rules never changes, *)
(* except that a manual link has one of its own.                           *)
(***************************************************************************)
EXTENDS Integers, FiniteSets

CONSTANTS
  Sources,       \* branches, commits, merge requests and pipelines of GitLab
  Projects,      \* the projects they belong to
  Kind,          \* Kind[s]: what s is
  ProjectOf,     \* ProjectOf[s]: the project of s
  CommitOf,      \* CommitOf[s]: the commit a pipeline ran for
  Texts,         \* what a source may say
  KeyTexts,      \* those that name the issue key of the task
  WordTexts,     \* those that share enough words with the title of the task
  None,          \* nothing
  Budgets        \* bounds: changes outside, synchronisations, decisions of the user

Kinds == {"branch", "commit", "merge_request", "pipeline"}
Pipelines == {s \in Sources : Kind[s] = "pipeline"}

VARIABLES
  gitlab,    \* gitlab[s]: what s says at GitLab; None when it is not there
  scope,     \* the projects that the configuration refers to
  newer,     \* the sources that may have changed after the watermark of their project
  cache,     \* cache[s]: the cached row of s
  gone,      \* the cached projects that are marked stale
  sync,      \* the synchronisation in progress, in memory
  evidence,  \* evidence[s]: the evidence row of s
  link,      \* link[s]: the link of the task to s
  page,      \* page[s]: what the page of the task shows of s
  seen,      \* history: what GitLab told the last synchronisation that ended well
  budget     \* what may still happen

outside == <<gitlab, scope>>
vars == <<gitlab, scope, newer, cache, gone, sync, evidence, link, page, seen, budget>>

\* A branch has no time of its own: its event time is that of the synchronisation.
Content == [text: Texts, at: Nat]
Availability == {"available", "stale", "unavailable"}
Methods == {"branch_issue_key", "commit_issue_key", "mr_title_issue_key",
            "pipeline_confirmed_commit", "keyword", "manual"}
Deadlines == {"never", "ahead", "past"}

Row == [text: Texts, at: Nat, stale: BOOLEAN]
EvidenceRow == [content: Content, availability: Availability]
Link == [status: {"suggested", "confirmed", "rejected", "expired"}, method: Methods,
         hash: Content, valid: BOOLEAN, expires: Deadlines, version: Nat]
Shown == [link: Link, content: Content]
Reading == [text: Texts \union {None}, current: BOOLEAN]
\* listed[s] is what GitLab says of s as its project is listed, in the lists or not.
Stages == {"idle", "next", "list", "save", "refresh"}
Sync == [pc: Stages, run: Nat, todo: SUBSET Projects, project: Projects \union {None},
         touched: SUBSET Projects, failed: BOOLEAN, unsaved: SUBSET Sources,
         listed: [Sources -> Texts \union {None}]]

\* What the constants must be; the module that gives them values assumes it.
EvidenceAssumption ==
  /\ Kind \in [Sources -> Kinds]
  /\ ProjectOf \in [Sources -> Projects]
  /\ CommitOf \in [Pipelines -> Sources]
  /\ KeyTexts \subseteq Texts /\ WordTexts \subseteq Texts
  /\ None \notin Texts \union Row \union EvidenceRow \union Link \union Shown
  /\ Budgets \subseteq [changes: Nat, runs: Nat, decisions: Nat]

Nothing == [s \in Sources |-> None]

TypeOK ==
  /\ gitlab \in [Sources -> Texts \union {None}]
  /\ scope \subseteq Projects /\ gone \subseteq Projects /\ newer \subseteq Sources
  /\ cache \in [Sources -> Row \union {None}]
  /\ sync \in Sync
  /\ evidence \in [Sources -> EvidenceRow \union {None}]
  /\ link \in [Sources -> Link \union {None}]
  /\ page \in [Sources -> Shown \union {None}]
  /\ \A s \in Sources : link[s] # None => evidence[s] # None
  /\ seen \in [Sources -> Reading]
  /\ budget \in [changes: Nat, runs: Nat, decisions: Nat]

Init ==
  /\ gitlab \in [Sources -> Texts]
  /\ scope = Projects /\ newer = Sources
  /\ cache = Nothing /\ gone = {}
  /\ sync = [pc |-> "idle", run |-> 0, todo |-> {}, project |-> None, touched |-> {},
             failed |-> FALSE, unsaved |-> {}, listed |-> Nothing]
  /\ evidence = Nothing /\ link = Nothing /\ page = Nothing
  /\ seen = [s \in Sources |-> [text |-> None, current |-> FALSE]]
  /\ budget \in Budgets

----------------------------------------------------------------------------
(* What happens outside *)

Spends(f) == budget[f] > 0 /\ budget' = [budget EXCEPT ![f] = @ - 1]

\* A merge request gets another title, a pipeline another status, a branch
\* another head or is deleted or pushed again; a commit never changes.
Change(s) ==
  /\ Spends("changes") /\ Kind[s] # "commit"
  /\ \E x \in Texts \union {None} :
       /\ x # gitlab[s] /\ (x = None => Kind[s] = "branch")
       /\ gitlab' = [gitlab EXCEPT ![s] = x]
  /\ newer' = newer \union {s}
  /\ UNCHANGED <<scope, cache, gone, sync, evidence, link, page, seen>>

\* A project enters or leaves the configuration, by its id or by a repository
\* that is confirmed or removed.
Rescope(p) ==
  /\ Spends("changes")
  /\ scope' = IF p \in scope THEN scope \ {p} ELSE scope \union {p}
  /\ UNCHANGED <<gitlab, newer, cache, gone, sync, evidence, link, page, seen>>

----------------------------------------------------------------------------
(* GitLabSyncService.sync; the dedupe key keeps a second run out *)

Of(p) == {s \in Sources : ProjectOf[s] = p}

SyncStart ==
  /\ sync.pc = "idle" /\ Spends("runs")
  /\ sync' = [pc |-> "next", run |-> sync.run + 1, todo |-> scope, project |-> None,
              touched |-> {}, failed |-> FALSE, unsaved |-> {}, listed |-> Nothing]
  /\ UNCHANGED <<outside, newer, cache, gone, evidence, link, page, seen>>

\* The project is found and its cached row is touched by this run.
Resolve(p) ==
  /\ sync.pc = "next" /\ p \in sync.todo
  /\ gone' = gone \ {p}
  /\ sync' = [sync EXCEPT !.pc = "list", !.project = p, !.todo = @ \ {p},
                          !.touched = @ \union {p}]
  /\ UNCHANGED <<outside, newer, cache, evidence, link, page, seen, budget>>

\* What the lists of a project must show: every branch, and of the rest what is newer
\* than its watermark less fifteen minutes, or anything when it was never completed.
\* (The history floor, 120 days unless configured, is left out.)
Since(p) == {s \in Of(p) : Kind[s] = "branch" \/ s \in newer}

\* All lists are read and validated before the first of them is saved. The fifteen
\* minutes may show others again.
Fetch ==
  /\ sync.pc = "list"
  /\ \E again \in SUBSET Of(sync.project) :
       sync' = [sync EXCEPT !.pc = "save", !.unsaved = Since(sync.project) \union again,
                  !.listed = [s \in Sources |-> IF s \in Of(sync.project) THEN gitlab[s]
                                                ELSE @[s]]]
  /\ UNCHANGED <<outside, newer, cache, gone, evidence, link, page, seen, budget>>

\* saveBranches, saveCommits, saveMergeRequests, savePipelines, in this order.
Rank == [branch |-> 1, commit |-> 2, merge_request |-> 3, pipeline |-> 4]
NextUnsaved == {s \in sync.unsaved : \A t \in sync.unsaved : Rank[Kind[s]] <= Rank[Kind[t]]}

\* The row of s after the lists of its kind are saved: a branch that is not
\* listed is marked stale.
Cached(s) ==
  IF sync.listed[s] # None
  THEN [text |-> sync.listed[s], at |-> IF Kind[s] = "branch" THEN sync.run ELSE 0,
        stale |-> FALSE]
  ELSE IF cache[s] = None THEN None ELSE [cache[s] EXCEPT !.stale = TRUE]

Save ==
  /\ sync.pc = "save" /\ sync.unsaved # {}
  /\ cache' = [s \in Sources |-> IF s \in NextUnsaved THEN Cached(s) ELSE cache[s]]
  /\ sync' = [sync EXCEPT !.unsaved = @ \ NextUnsaved]
  /\ UNCHANGED <<outside, newer, gone, evidence, link, page, seen, budget>>


\* The watermark is the time after the last row is saved, but what has changed since
\* the lists were read is within the fifteen minutes, if all this takes no longer.
Completed(p) == {s \in Of(p) : gitlab[s] = sync.listed[s]}

ProjectDone ==
  /\ sync.pc = "save" /\ sync.unsaved = {}
  /\ newer' = newer \ Completed(sync.project)
  /\ sync' = [sync EXCEPT !.pc = "next", !.project = None]
  /\ UNCHANGED <<outside, cache, gone, evidence, link, page, seen, budget>>

\* A project that cannot be resolved, listed, parsed or saved fails the run, but
\* only after the others were read; its watermark stays.
ProjectFails ==
  /\ sync.pc \in {"next", "list", "save"}
  /\ \E p \in Projects :
       /\ IF sync.pc = "next" THEN p \in sync.todo ELSE p = sync.project
       /\ sync' = [sync EXCEPT !.pc = "next", !.project = None, !.failed = TRUE,
                               !.todo = @ \ {p}, !.unsaved = {}]
  /\ UNCHANGED <<outside, newer, cache, gone, evidence, link, page, seen, budget>>

\* The connection fails, a project has failed, or the service dies; what is
\* cached stays, and so do the watermarks of the projects it completed.  (The run row and the status of the projects are left out.)
SyncFails ==
  /\ sync.pc # "idle"
  /\ sync' = [sync EXCEPT !.pc = "idle"]
  /\ UNCHANGED <<outside, newer, cache, gone, evidence, link, page, seen, budget>>

\* Mutant: a run in which a project failed goes on like the others.
AllReadAnyway ==
  /\ sync.pc = "next" /\ sync.todo = {}
  /\ gone' = Projects \ sync.touched
  /\ sync' = [sync EXCEPT !.pc = "refresh"]
  /\ UNCHANGED <<outside, newer, cache, evidence, link, page, seen, budget>>

\* Every project was read: those that this run has not touched are stale, the
\* run has succeeded and the connection is healthy.
AllRead ==
  /\ sync.pc = "next" /\ sync.todo = {} /\ ~sync.failed
  /\ gone' = Projects \ sync.touched
  /\ sync' = [sync EXCEPT !.pc = "refresh"]
  /\ UNCHANGED <<outside, newer, cache, evidence, link, page, seen, budget>>

----------------------------------------------------------------------------
(* EvidenceMaterializerService.refreshConnection: one transaction *)

\* The evidence of a cached source (collectGitLabSources).
Collected(s) ==
  [content |-> [text |-> cache[s].text, at |-> cache[s].at],
   availability |-> IF ProjectOf[s] \in gone THEN "stale"
                    ELSE IF cache[s].stale THEN "unavailable" ELSE "available"]

Changes(s) == evidence[s] # Collected(s)

\* A confirmed link that was valid is to be looked at again.
Revalidate(l) == IF l.valid THEN [l EXCEPT !.valid = FALSE, !.version = @ + 1] ELSE l

\* upsertEvidence: the links of evidence that changes.
Upserted(s) ==
  LET l == link[s] IN
  IF l # None /\ l.status = "confirmed" /\ Changes(s) THEN Revalidate(l) ELSE l

\* suggestEvidenceLinks: the best rule that relates s to the task.
Suggestion(s) ==
  LET text == cache[s].text
      commit == IF Kind[s] = "pipeline" THEN link[CommitOf[s]] ELSE None
  IN  CASE Kind[s] = "branch" -> "branch_issue_key"
        [] Kind[s] = "commit" /\ text \in KeyTexts -> "commit_issue_key"
        [] Kind[s] = "merge_request" /\ text \in KeyTexts -> "mr_title_issue_key"
        [] Kind[s] = "pipeline" -> IF commit # None /\ commit.status = "confirmed"
                                   THEN "pipeline_confirmed_commit" ELSE None
        [] Kind[s] # "pipeline" /\ text \in WordTexts \ KeyTexts -> "keyword"
        [] OTHER -> None

\* The version of the rules is that of a manual link until a rule takes it over.
BasisChanged(l, content) == l.hash # content \/ l.method = "manual"

Rebased(l, method, content) ==
  [l EXCEPT !.method = method, !.hash = content,
            !.version = IF BasisChanged(l, content) THEN @ + 1 ELSE @]

\* A link that the rules (still) suggest.  A rejected one comes back only on
\* another basis, a confirmed one is left to the user.
Refreshed(s, l, method) ==
  LET content == Collected(s).content IN
  IF l = None
  THEN [status |-> "suggested", method |-> method, hash |-> content, valid |-> TRUE,
        expires |-> "never", version |-> 1]
  ELSE CASE l.status = "suggested" -> Rebased(l, method, content)
         [] l.status = "confirmed" -> IF BasisChanged(l, content) THEN Revalidate(l) ELSE l
         [] l.status = "rejected" /\ ~BasisChanged(l, content) -> l
         [] l.status = "expired" /\ ~BasisChanged(l, content) -> Rebased(l, method, content)
         [] OTHER -> [Rebased(l, method, content) EXCEPT !.status = "suggested", !.valid = TRUE]

\* A suggestion that the rules have withdrawn.
Withdrawn(l) ==
  IF l # None /\ l.status = "suggested" /\ l.method # "manual"
  THEN [l EXCEPT !.status = "expired", !.version = @ + 1] ELSE l

Refresh ==
  LET known == {s \in Sources : cache[s] # None}
      wanted == {s \in known : Collected(s).availability = "available" /\ Suggestion(s) # None}
  IN  /\ sync.pc = "refresh"
      /\ evidence' = [s \in Sources |-> IF s \in known THEN Collected(s) ELSE evidence[s]]
      /\ link' = [s \in Sources |->
           IF s \in wanted THEN Refreshed(s, Upserted(s), Suggestion(s))
           ELSE IF s \in known THEN Withdrawn(Upserted(s)) ELSE link[s]]
      /\ seen' = [s \in Sources |-> [text |-> sync.listed[s],
                                     current |-> ProjectOf[s] \in sync.touched]]
      /\ sync' = [sync EXCEPT !.pc = "idle"]
      /\ UNCHANGED <<outside, newer, cache, gone, page, budget>>

----------------------------------------------------------------------------
(* EvidenceLifecycleService: each call is one transaction *)

\* expireDueLinks, by the schedule and before every read.
Due(l) == l # None /\ l.status \in {"suggested", "confirmed"} /\ l.expires = "past"
Expired ==
  [s \in Sources |->
     IF Due(link[s])
     THEN [link[s] EXCEPT !.status = "expired", !.valid = TRUE, !.version = @ + 1]
     ELSE link[s]]

DeadlinePasses(s) ==
  /\ link[s] # None /\ link[s].expires = "ahead"
  /\ link' = [link EXCEPT ![s].expires = "past"]
  /\ UNCHANGED <<outside, newer, cache, gone, sync, evidence, page, seen, budget>>

ExpireDueLinks ==
  /\ \E s \in Sources : Due(link[s])
  /\ link' = Expired
  /\ UNCHANGED <<outside, newer, cache, gone, sync, evidence, page, seen, budget>>

\* The page of the task is loaded (listTaskEvidence), with the evidence beside
\* each link.
Load ==
  /\ link' = Expired
  /\ page' = [s \in Sources |-> IF link[s] = None THEN None
                                ELSE [link |-> Expired[s], content |-> evidence[s].content]]
  /\ page' # page
  /\ UNCHANGED <<outside, newer, cache, gone, sync, evidence, seen, budget>>

\* The version the page shows is still that of the link; otherwise the call is
\* refused.
Accepted(s) == page[s] # None /\ page[s].link.version = link[s].version

Decides(s, l) ==
  /\ Spends("decisions")
  /\ link' = [link EXCEPT ![s] = [l EXCEPT !.version = @ + 1]]
  /\ UNCHANGED <<outside, newer, cache, gone, sync, evidence, page, seen>>

ConfirmedNow(s) ==
  [link[s] EXCEPT !.status = "confirmed", !.valid = TRUE, !.hash = evidence[s].content]

\* The buttons that the page shows beside a link (TaskEvidencePanel).
OffersConfirm(l) == l.status = "suggested" \/ ~l.valid
OffersReject(l) == l.status \in {"suggested", "confirmed"}
OffersRevoke(l) == l.status \in {"confirmed", "rejected"}

Confirm(s) ==
  /\ Accepted(s) /\ OffersConfirm(page[s].link)
  /\ Decides(s, ConfirmedNow(s))

\* batchConfirm: links that one deterministic rule has suggested, all or none; the schema
\* accepts a batch of one.
Batchable(l) ==
  /\ l.method \notin {"keyword", "manual"}
  /\ l.status = "suggested" \/ (l.status = "confirmed" /\ ~l.valid)

BatchConfirm ==
  \E S \in SUBSET Sources :
    /\ S # {}
    /\ \A s \in S : Accepted(s) /\ Batchable(page[s].link)
    /\ \A s, t \in S : link[s].method = link[t].method
    /\ \A s \in S : Batchable(link[s])
    /\ Spends("decisions")
    /\ link' = [s \in Sources |-> IF s \in S THEN [ConfirmedNow(s) EXCEPT !.version = @ + 1]
                                  ELSE link[s]]
    /\ UNCHANGED <<outside, newer, cache, gone, sync, evidence, page, seen>>

Reject(s) ==
  /\ Accepted(s) /\ OffersReject(page[s].link)
  /\ Decides(s, [link[s] EXCEPT !.status = "rejected", !.valid = TRUE,
                                !.hash = evidence[s].content])

\* revoke: a manual link, or one whose source is not available, expires.
Revoke(s) ==
  /\ Accepted(s) /\ OffersRevoke(page[s].link)
  /\ Decides(s, [link[s] EXCEPT !.valid = TRUE,
       !.status = IF link[s].method = "manual" \/ evidence[s].availability # "available"
                  THEN "expired" ELSE "suggested"])

\* createManual: evidence of the catalogue that has no link yet, at once confirmed.
CreateManual(s) ==
  /\ link[s] = None /\ evidence[s] # None /\ evidence[s].availability = "available"
  /\ Spends("decisions")
  /\ \E deadline \in {"never", "ahead"} :
       link' = [link EXCEPT ![s] =
         [status |-> "confirmed", method |-> "manual", hash |-> evidence[s].content,
          valid |-> TRUE, expires |-> deadline, version |-> 1]]
  /\ UNCHANGED <<outside, newer, cache, gone, sync, evidence, page, seen>>

----------------------------------------------------------------------------
Outside == \/ \E s \in Sources : Change(s)
           \/ \E p \in Projects : Rescope(p)
Synchronise ==
  \/ SyncStart \/ \E p \in Projects : Resolve(p)
  \/ Fetch \/ Save \/ ProjectDone \/ ProjectFails \/ SyncFails \/ AllRead \/ Refresh
User ==
  \/ Load \/ BatchConfirm
  \/ \E s \in Sources : Confirm(s) \/ Reject(s) \/ Revoke(s) \/ CreateManual(s)

Next == Outside \/ Synchronise \/ User \/ ExpireDueLinks \/ \E s \in Sources : DeadlinePasses(s)

Spec == Init /\ [][Next]_vars

----------------------------------------------------------------------------
(* Properties *)

\* A page in step with its evidence: nothing on it waits for another look.
InStep(shown) ==
  /\ shown.link.status = "suggested" \/ (shown.link.status = "confirmed" /\ shown.link.valid)
  /\ shown.link.hash = shown.content

\* A confirmed link that counts as valid was confirmed on the content that the
\* evidence has now, whichever of synchronisation, schedule and user came last; and
\* as long as a decision from a page that was in step would be accepted, the evidence
\* says what the page shows: no synchronisation slips another content under the
\* eyes of the user (phase-3c:28, :47, :52).
DecisionIsCurrent ==
  \A s \in Sources :
    /\ link[s] # None /\ link[s].status = "confirmed" /\ link[s].valid =>
         link[s].hash = evidence[s].content
    /\ page[s] # None /\ page[s].link.version = link[s].version /\ InStep(page[s]) =>
         page[s].content = evidence[s].content

\* Evidence tells what GitLab said of every source as the synchronisation that built it
\* listed the projects, every one of them: the same as if everything had been listed and
\* nothing been there before. The rows may well be those of an earlier run, also of one
\* that failed later, when the watermark of their project has left them out since; but
\* none is missing, out of date or half of a project (phase-3c:24,
\* gitlab-sync.service.ts:180, :286).
EvidenceIsWhole ==
  \A s \in Sources :
    /\ evidence[s] # None =>
         /\ evidence[s].availability = "stale" <=> ~seen[s].current
         /\ evidence[s].availability = "unavailable" <=> seen[s].current /\ seen[s].text = None
         /\ evidence[s].availability = "available" => evidence[s].content.text = seen[s].text
    /\ evidence[s] = None => seen[s].text = None

\* A confirmation needs another look only when the source, or whether it is
\* there, has changed: "内容哈希只覆盖业务事实，不把每次同步时间混入哈希；…不会让确认关系无故
\* 进入复核" (phase-3c-evidence-lifecycle.md:26).
RevalidatedForCause ==
  [][\A s \in Sources :
       link[s] # None /\ link[s].status = "confirmed" /\ link[s].valid /\ ~link'[s].valid
         => \/ evidence'[s].content.text # evidence[s].content.text
            \/ evidence'[s].availability # evidence[s].availability
            \/ link[s].method = "manual"]_vars
----------------------------------------------------------------------------
(* Auxiliary invariants used by the proofs *)

Backed == \A s \in Sources : evidence[s] # None => cache[s] # None

\* What the page shows of a link was the link once; as long as the version is the
\* same, so is what the user decided and on which content.
PageBehind ==
  \A s \in Sources : page[s] # None =>
    /\ link[s] # None /\ page[s].link.version <= link[s].version
    /\ page[s].link.version = link[s].version =>
         /\ page[s].link.status = link[s].status /\ page[s].link.valid = link[s].valid
         /\ page[s].link.hash = link[s].hash

RuleSuggests ==
  \A s \in Sources : link[s] # None /\ link[s].status = "suggested" => link[s].method # "manual"

\* The cached row of s tells what this synchronisation has listed.
Told(s) ==
  IF sync.listed[s] # None
  THEN cache[s] # None /\ cache[s].text = sync.listed[s] /\ ~cache[s].stale
  ELSE cache[s] = None \/ cache[s].stale

Unread(s) ==
  \/ ProjectOf[s] \notin sync.touched
  \/ sync.pc = "list" /\ ProjectOf[s] = sync.project
  \/ sync.pc = "save" /\ s \in sync.unsaved

ReadSoFar ==
  sync.pc # "idle" =>
    /\ sync.touched \intersect sync.todo = {}
    /\ \A s \in Sources : ProjectOf[s] \notin sync.touched => sync.listed[s] = None
    /\ sync.pc \in {"list", "save"} => sync.project \in sync.touched
    /\ ~sync.failed => \A s \in Sources : Unread(s) \/ Told(s)
    /\ sync.pc = "refresh" => ~sync.failed /\ gone = Projects \ sync.touched

\* What the next lists may leave out is cached as GitLab has it, whatever happened to the
\* runs in between; only a branch may be gone.
Watermark ==
  /\ \A s \in Sources :
       /\ Kind[s] # "branch" => gitlab[s] # None
       /\ Kind[s] # "branch" /\ s \notin newer =>
            cache[s] # None /\ cache[s].text = gitlab[s] /\ ~cache[s].stale
  /\ sync.pc = "save" => sync.unsaved \subseteq Of(sync.project)
  /\ sync.pc = "save" => \A s \in Of(sync.project) :
       /\ s \in sync.unsaved \/ Told(s)
       /\ Kind[s] # "branch" => sync.listed[s] # None
       /\ Kind[s] # "branch" /\ s \notin newer => sync.listed[s] = gitlab[s]

IInv ==
  /\ TypeOK /\ Backed /\ PageBehind /\ RuleSuggests /\ ReadSoFar /\ Watermark
  /\ DecisionIsCurrent /\ EvidenceIsWhole
=============================================================================
