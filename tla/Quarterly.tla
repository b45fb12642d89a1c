----------------------------- MODULE Quarterly -----------------------------
(***************************************************************************)
(* A quarterly review (modules/quarterly-reviews): the collection of its   *)
(* sources by a job, the work of the user on achievements, scores and      *)
(* narrative, the confirmation that freezes them, and the export of a      *)
(* frozen confirmation by another job.  Both jobs are safe_replay with two *)
(* attempts and may be cancelled, fail or die at any step.                 *)
(*                                                                         *)
(* One review, one export format.  The facts (selected achievements with   *)
(* evidence and metrics, template, scores) and the narrative are numbers   *)
(* that grow with every change.                                            *)
(***************************************************************************)
EXTENDS Integers, FiniteSets

CONSTANTS
  NumJobs,             \* bound: jobs that may be queued
  NumConfirmations,    \* bound: confirmations
  MaxEdits,            \* bound: changes of facts or narrative by the user
  MaxCancels,          \* bound: operations the user asks to cancel
  MaxFaults            \* bound: attempts that fail for a passing reason, callbacks that
                       \* are rejected, and deaths of the service

Jobs == 1..NumJobs
Confirmations == 1..NumConfirmations
Kinds == {"collect", "export"}

ASSUME QuarterlyAssumption ==
  /\ NumJobs \in Nat \ {0} /\ NumConfirmations \in Nat \ {0}
  /\ MaxEdits \in Nat /\ MaxCancels \in Nat /\ MaxFaults \in Nat

VARIABLES
  review,    \* the quarterly_review row
  conf,      \* conf[c]: the quarterly_review_confirmation row
  art,       \* art[c]: the export_artifact row of confirmation c
  files,     \* the artifacts whose file has been written
  job,       \* job[i]: the job row
  run,       \* run[k]: what the runner executes of kind k, in memory
  cancel,    \* a request to cancel an operation, in memory
  up,        \* the service runs
  seen,      \* history: whose collecting period it is, whether another job ended one,
             \* and whether the callback of this one's job was left out
  budget     \* what may still happen

vars == <<review, conf, art, files, job, run, cancel, up, seen, budget>>

ReviewStatus == {"draft", "collecting", "candidates_ready", "selecting", "scoring",
                 "narrative_ready", "confirmed", "exported", "collection_failed"}
JobStatus == {"none", "queued", "running", "succeeded", "cancelled", "failed", "dead_letter"}
ArtifactStatus == {"none", "queued", "running", "succeeded", "failed", "cancelled"}
Stages == {"idle", "load", "claim", "check", "recheck", "commit", "settle", "callback"}
Outcomes == {"none", "returned", "retry", "refused"}

Review == [status: ReviewStatus, version: Nat, current: 0..NumConfirmations,
           facts: Nat, narrative: Nat]
Confirmation == [status: {"none", "active", "invalidated"}, facts: Nat, narrative: Nat]
Artifact == [status: ArtifactStatus, job: 0..NumJobs]
JobRow == [kind: Kinds \union {"none"}, status: JobStatus, cancel: BOOLEAN, attempts: Nat,
           expected: Nat, fallback: ReviewStatus, art: 0..NumConfirmations]
Run == [job: 0..NumJobs, pc: Stages, out: Outcomes]

NoConfirmation == [status |-> "none", facts |-> 0, narrative |-> 0]
NoJob == [kind |-> "none", status |-> "none", cancel |-> FALSE, attempts |-> 0,
          expected |-> 0, fallback |-> "draft", art |-> 0]
Idle == [job |-> 0, pc |-> "idle", out |-> "none"]
NoCancel == [job |-> 0, stage |-> "none", queued |-> FALSE]

TypeOK ==
  /\ review \in Review
  /\ conf \in [Confirmations -> Confirmation]
  /\ art \in [Confirmations -> Artifact]
  /\ files \subseteq Confirmations
  /\ job \in [Jobs -> JobRow]
  /\ run \in [Kinds -> Run]
  /\ cancel \in [job: 0..NumJobs, stage: {"none", "write", "callback"}, queued: BOOLEAN]
  /\ up \in BOOLEAN
  /\ seen \in [asked: 0..NumJobs, foreign: BOOLEAN, left: BOOLEAN]
  /\ budget \in [edits: Nat, faults: Nat, cancels: Nat]

\* A review that has been worked on up to its narrative.
Init ==
  /\ review = [status |-> "narrative_ready", version |-> 3, current |-> 0, facts |-> 1,
               narrative |-> 1]
  /\ conf = [c \in Confirmations |-> NoConfirmation]
  /\ art = [c \in Confirmations |-> [status |-> "none", job |-> 0]]
  /\ files = {}
  /\ job = [i \in Jobs |-> NoJob]
  /\ run = [k \in Kinds |-> Idle]
  /\ cancel = NoCancel
  /\ up = TRUE
  /\ seen = [asked |-> 0, foreign |-> FALSE, left |-> FALSE]
  /\ budget = [edits |-> MaxEdits, faults |-> MaxFaults, cancels |-> MaxCancels]

\* jobs.create: the next row of the table.
NextJob(i) == job[i].kind = "none" /\ \A j \in Jobs : j < i => job[j].kind # "none"
Active(i) == job[i].status \in {"queued", "running"}

----------------------------------------------------------------------------
(* The user's work: every call carries the version of the review it has seen
   and is refused when the review has moved on *)

\* invalidateConfirmation
Invalidated ==
  IF review.current = 0 THEN conf
  ELSE [conf EXCEPT ![review.current].status = "invalidated"]

Changes == budget.edits > 0 /\ budget' = [budget EXCEPT !.edits = @ - 1]

\* Mutant: a change of the facts leaves the confirmation alone.
FactsChangeKeepsConfirmation(status) ==
  /\ up /\ Changes
  /\ review' = [review EXCEPT !.status = status, !.facts = @ + 1, !.version = @ + 1]
  /\ seen' = [seen EXCEPT !.asked = 0, !.left = FALSE]
  /\ UNCHANGED <<conf, art, files, job, run, cancel, up>>

\* invalidateConfirmation and bumpReview, with the change itself in one transaction
\* and in any status, collecting too.
FactsChange(status) ==
  /\ up /\ Changes
  /\ conf' = Invalidated
  /\ review' = [review EXCEPT !.status = status, !.facts = @ + 1, !.current = 0,
                              !.version = @ + 1]
  /\ seen' = [seen EXCEPT !.asked = 0, !.left = FALSE]
  /\ UNCHANGED <<art, files, job, run, cancel, up>>

\* createManual, update, updateSelection
Select == FactsChange("selecting")
AddEvidence == FactsChange("selecting")

\* A template is bound from the start; these bind another one, map a selected
\* achievement to its metrics, and score them.
BindMetricTemplate == FactsChange("scoring")
UpdateMetrics == FactsChange("scoring")
UpdateScores == FactsChange("scoring")

\* createVersion with makeCurrent: rule, manual, restored or adopted narrative.
Narrate ==
  /\ up /\ Changes /\ review.facts > 0
  /\ conf' = Invalidated
  /\ review' = [review EXCEPT !.status = "narrative_ready", !.narrative = @ + 1,
                              !.current = 0, !.version = @ + 1]
  /\ seen' = [seen EXCEPT !.asked = 0, !.left = FALSE]
  /\ UNCHANGED <<art, files, job, run, cancel, up>>

\* confirm: freezes the live facts and the current narrative, in any status.
Confirm(c) ==
  /\ up /\ review.facts > 0 /\ review.narrative > 0
  /\ conf[c].status = "none" /\ \A d \in Confirmations : d < c => conf[d].status # "none"
  /\ conf' = [conf EXCEPT ![c] = [status |-> "active", facts |-> review.facts,
                                  narrative |-> review.narrative]]
  /\ review' = [review EXCEPT !.status = "confirmed", !.current = c, !.version = @ + 1]
  /\ seen' = [seen EXCEPT !.asked = 0, !.left = FALSE]
  /\ UNCHANGED <<art, files, job, run, cancel, up, budget>>

\* QuarterlyCollectionService.queue: while the review is collecting and a job of
\* it is active, the active job is returned instead.
QueueCollection(i) ==
  /\ up /\ NextJob(i)
  /\ ~(review.status = "collecting" /\ \E j \in Jobs : job[j].kind = "collect" /\ Active(j))
  /\ job' = [job EXCEPT ![i] =
       [NoJob EXCEPT !.kind = "collect", !.status = "queued", !.expected = review.version + 1,
                     !.fallback = CASE review.status = "collecting" -> "collection_failed"
                                    [] review.current # 0 -> "selecting"
                                    [] OTHER -> review.status]]
  /\ review' = [review EXCEPT !.status = "collecting", !.current = 0, !.version = @ + 1]
  /\ conf' = Invalidated
  /\ seen' = [seen EXCEPT !.asked = i, !.left = FALSE]
  /\ UNCHANGED <<art, files, run, cancel, up, budget>>

\* QuarterlyExportService.queue: only the current confirmation, and only when no
\* artifact of it is under way or done.  The dedupe key keeps a second job out.
QueueExport(i) ==
  LET c == review.current IN
  /\ up /\ NextJob(i)
  /\ c # 0 /\ conf[c].status = "active"
  /\ art[c].status \in {"none", "failed", "cancelled"}
  /\ ~\E j \in Jobs : job[j].kind = "export" /\ job[j].art = c /\ Active(j)
  /\ job' = [job EXCEPT ![i] = [NoJob EXCEPT !.kind = "export", !.status = "queued", !.art = c]]
  /\ art' = [art EXCEPT ![c] = [status |-> "queued", job |-> i]]
  /\ UNCHANGED <<review, conf, files, run, cancel, up, seen, budget>>

----------------------------------------------------------------------------
(* Ends of a collecting period *)

\* Mutant: the version written when the job was queued is not compared.
PeriodAnyVersion(i) == review.status = "collecting"

\* The condition of every update a collection job makes to the review.
Period(i) == review.status = "collecting" /\ review.version = job[i].expected

\* restoreAfterCancellation, markFailed, the commit: to a status, if the
\* collecting period is the job's own.
Leaves(i, status, facts) ==
  IF Period(i)
  THEN /\ review' = [review EXCEPT !.status = status, !.facts = @ + facts, !.version = @ + 1]
       /\ seen' = [seen EXCEPT !.foreign = @ \/ seen.asked # i]
  ELSE UNCHANGED <<review, seen>>

\* The transition trigger of export_artifact lets nothing but these through.
MarkArtifact(c, from, to) ==
  art' = IF art[c].status = from THEN [art EXCEPT ![c].status = to] ELSE art

----------------------------------------------------------------------------
(* The runner, for both kinds (JobRunnerService.execute) *)

Goes(k, pc) == run' = [run EXCEPT ![k].pc = pc]
Ends(k, out) == run' = [run EXCEPT ![k].pc = "settle", ![k].out = out]
At(k, pc) == up /\ run[k].pc = pc

Start(k) ==
  /\ At(k, "idle")
  /\ \E i \in Jobs :
       /\ job[i].kind = k /\ job[i].status = "queued" /\ ~job[i].cancel
       /\ job' = [job EXCEPT ![i].status = "running", ![i].attempts = @ + 1]
       /\ run' = [run EXCEPT ![k] = [job |-> i, pc |-> "load", out |-> "none"]]
  /\ UNCHANGED <<review, conf, art, files, cancel, up, seen, budget>>

Fault == budget.faults > 0 /\ budget' = [budget EXCEPT !.faults = @ - 1]

\* An attempt fails for a reason that is not a DomainError, the update of the job
\* after a handler that has returned included.
Fails(k) ==
  /\ up /\ run[k].pc \in Stages \ {"idle", "callback"} /\ Fault
  /\ run[k].pc = "settle" => run[k].out = "returned"
  /\ Ends(k, "retry")
  /\ UNCHANGED <<review, conf, art, files, job, cancel, up, seen>>

\* Mutant: the last attempt leaves the job to a human, as unsafe jobs do.
StatusAfterUnsafe(i, out) ==
  CASE out = "returned" -> IF job[i].cancel THEN "cancelled" ELSE "succeeded"
    [] out = "refused" -> "failed"
    [] out = "retry" -> IF job[i].attempts < 2 THEN "queued" ELSE "manual_review"

StatusAfter(i, out) ==
  CASE out = "returned" -> IF job[i].cancel THEN "cancelled" ELSE "succeeded"
    [] out = "refused" -> "failed"
    [] out = "retry" -> IF job[i].attempts < 2 THEN "queued" ELSE "dead_letter"

\* The row of the job, written by id.
Settle(k) ==
  LET i == run[k].job  status == StatusAfter(i, run[k].out) IN
  /\ At(k, "settle")
  /\ job' = [job EXCEPT ![i].status = status]
  /\ run' = [run EXCEPT ![k] = IF status \in {"failed", "dead_letter"}
                               THEN [@ EXCEPT !.pc = "callback"] ELSE Idle]
  /\ UNCHANGED <<review, conf, art, files, cancel, up, seen, budget>>

\* onTerminalFailure, after the row.
TerminalFailure(k) ==
  LET i == run[k].job IN
  /\ At(k, "callback")
  /\ IF k = "collect"
     THEN Leaves(i, "collection_failed", 0) /\ UNCHANGED art
     ELSE /\ art' = IF art[job[i].art].job = i /\ art[job[i].art].status = "running"
                    THEN [art EXCEPT ![job[i].art].status = "failed"] ELSE art
          /\ UNCHANGED <<review, seen>>
  /\ run' = [run EXCEPT ![k] = Idle]
  /\ UNCHANGED <<conf, files, job, cancel, up, budget>>

----------------------------------------------------------------------------
(* QuarterlyCollectionService.execute *)

\* Review and job are loaded; a job whose period is over is refused, or takes
\* its own earlier success for granted.
CollectLoad ==
  LET i == run["collect"].job IN
  /\ At("collect", "load")
  /\ CASE Period(i) -> Goes("collect", "check")
       [] ~Period(i) /\ review.status = "candidates_ready" -> Ends("collect", "returned")
       [] OTHER -> Ends("collect", "refused")
  /\ UNCHANGED <<review, conf, art, files, job, cancel, up, seen, budget>>

\* cancelIfRequested between the reads of tasks, evidence and reports, which write
\* nothing, and before the commit.  The reads may find their sources stale
\* (require_fresh).
CollectCheck ==
  LET i == run["collect"].job IN
  /\ At("collect", "check")
  /\ \/ job[i].cancel /\ Leaves(i, job[i].fallback, 0) /\ Ends("collect", "returned")
     \/ ~job[i].cancel /\ Goes("collect", "commit") /\ UNCHANGED <<review, seen>>
     \/ ~job[i].cancel /\ Leaves(i, "collection_failed", 0) /\ Ends("collect", "refused")
  /\ UNCHANGED <<conf, art, files, job, cancel, up, budget>>

\* The transaction: snapshot, achievements and evidence, then the review, whose
\* update rolls everything back when its period is over.
CollectCommit ==
  LET i == run["collect"].job IN
  /\ At("collect", "commit")
  /\ Leaves(i, "candidates_ready", 1)
  /\ Ends("collect", IF Period(i) THEN "returned" ELSE "refused")
  /\ UNCHANGED <<conf, art, files, job, cancel, up, budget>>

----------------------------------------------------------------------------
(* QuarterlyExportService.execute *)

\* Mutant: what a dead attempt has left running is taken for written.
ResumedAtCommit == "commit"

\* Where an artifact goes on that an earlier attempt has left running.
ResumedAt == "check"

ExportLoad ==
  LET i == run["export"].job  a == art[job[i].art] IN
  /\ At("export", "load")
  /\ CASE a.job # i -> Ends("export", "refused")
       [] a.job = i /\ a.status = "succeeded" -> Ends("export", "returned")
       [] a.job = i /\ a.status = "queued" -> Goes("export", "claim")
       [] a.job = i /\ a.status = "running" -> Goes("export", ResumedAt)
       [] OTHER -> Ends("export", "refused")
  /\ UNCHANGED <<review, conf, art, files, job, cancel, up, seen, budget>>

\* The update by id; the trigger aborts it unless the artifact is still queued.
ExportClaim ==
  LET i == run["export"].job  c == job[i].art IN
  /\ At("export", "claim")
  /\ IF art[c].status = "queued" THEN Goes("export", "check") ELSE Ends("export", "retry")
  /\ MarkArtifact(c, "queued", "running")
  /\ UNCHANGED <<review, conf, files, job, cancel, up, seen, budget>>

\* Is a cancellation requested?  cancelRunning does not ask whose artifact it is.
\* Before the second check the document is generated from the frozen snapshot,
\* where its QA may refuse it, and writeAtomically runs.
ExportCheck ==
  LET i == run["export"].job  c == job[i].art  pc == run["export"].pc
      next == [check |-> "recheck", recheck |-> "commit"]
  IN  /\ up /\ pc \in DOMAIN next
      /\ \/ /\ job[i].cancel /\ UNCHANGED files
            /\ MarkArtifact(c, "running", "cancelled") /\ Ends("export", "returned")
         \/ /\ ~job[i].cancel /\ Goes("export", next[pc]) /\ UNCHANGED art
            /\ files' = IF pc = "check" THEN files \union {c} ELSE files
         \/ /\ ~job[i].cancel /\ pc = "check"
            /\ Ends("export", "refused") /\ UNCHANGED <<art, files>>
      /\ UNCHANGED <<review, conf, job, cancel, up, seen, budget>>

\* The transaction: the artifact, then the review if it still shows the
\* confirmation that was exported.
ExportCommit ==
  LET i == run["export"].job  c == job[i].art
      mine == art[c].status = "running" /\ art[c].job = i
  IN  /\ At("export", "commit")
      /\ art' = IF mine THEN [art EXCEPT ![c].status = "succeeded"] ELSE art
      /\ review' = IF mine /\ review.current = c /\ review.status = "confirmed"
                   THEN [review EXCEPT !.status = "exported", !.version = @ + 1] ELSE review
      /\ Ends("export", IF mine THEN "returned" ELSE "refused")
      /\ UNCHANGED <<conf, files, job, cancel, up, seen, budget>>

----------------------------------------------------------------------------
(* Cancelling an operation (JobQueueService.requestCancel) *)

CancelRead(i) ==
  /\ up /\ cancel = NoCancel /\ Active(i) /\ ~job[i].cancel
  /\ budget.cancels > 0 /\ budget' = [budget EXCEPT !.cancels = @ - 1]
  /\ cancel' = [job |-> i, stage |-> "write", queued |-> job[i].status = "queued"]
  /\ UNCHANGED <<review, conf, art, files, job, run, up, seen>>

\* By id and by what was read.
CancelWrite ==
  LET i == cancel.job IN
  /\ up /\ cancel.stage = "write"
  /\ job' = [job EXCEPT ![i].cancel = TRUE,
                        ![i].status = IF cancel.queued THEN "cancelled" ELSE @]
  /\ cancel' = IF cancel.queued THEN [cancel EXCEPT !.stage = "callback"] ELSE NoCancel
  /\ UNCHANGED <<review, conf, art, files, run, up, seen, budget>>

\* Mutant: a cancelled collection leaves the review as it is.
QueuedCancellationExportOnly ==
  LET i == cancel.job IN
  /\ up /\ cancel.stage = "callback" /\ cancel' = NoCancel
  /\ art' = IF job[i].kind = "export" /\ art[job[i].art].status = "queued"
            THEN [art EXCEPT ![job[i].art].status = "cancelled"] ELSE art
  /\ UNCHANGED <<review, conf, files, job, run, up, seen, budget>>

\* onQueuedCancellation: restoreAfterCancellation, markQueuedCancellation.
QueuedCancellation ==
  LET i == cancel.job IN
  /\ up /\ cancel.stage = "callback" /\ cancel' = NoCancel
  /\ IF job[i].kind = "collect"
     THEN Leaves(i, job[i].fallback, 0) /\ UNCHANGED art
     ELSE /\ art' = IF art[job[i].art].job = i /\ art[job[i].art].status = "queued"
                    THEN [art EXCEPT ![job[i].art].status = "cancelled"] ELSE art
          /\ UNCHANGED <<review, seen>>
  /\ UNCHANGED <<conf, files, job, run, up, budget>>

----------------------------------------------------------------------------
(* Faults *)

\* The job has ended and its callback will not come.
LeftOut(i) == seen' = [seen EXCEPT !.left = @ \/ Period(i)]

\* The callback is rejected: the runner logs it, the request to cancel fails.
CallbackFails ==
  /\ up /\ Fault
  /\ \/ \E k \in Kinds : /\ run[k].pc = "callback" /\ LeftOut(run[k].job)
                         /\ run' = [run EXCEPT ![k] = Idle] /\ UNCHANGED cancel
     \/ /\ cancel.stage = "callback" /\ LeftOut(cancel.job)
        /\ cancel' = NoCancel /\ UNCHANGED run
  /\ UNCHANGED <<review, conf, art, files, job, up>>

CallbackIsDue(i) ==
  \/ run["collect"].pc = "callback" /\ run["collect"].job = i
  \/ cancel.stage = "callback" /\ cancel.job = i

Crash ==
  /\ up /\ Fault
  /\ up' = FALSE /\ run' = [k \in Kinds |-> Idle] /\ cancel' = NoCancel
  /\ seen' = [seen EXCEPT !.left = @ \/ \E i \in Jobs : CallbackIsDue(i) /\ Period(i)]
  /\ UNCHANGED <<review, conf, art, files, job>>

\* Recovery of the runner: safe_replay.
Restart ==
  /\ ~up /\ up' = TRUE
  /\ job' = [i \in Jobs |-> IF job[i].status = "running"
                            THEN [job[i] EXCEPT !.status = "queued"] ELSE job[i]]
  /\ UNCHANGED <<review, conf, art, files, run, cancel, seen, budget>>

----------------------------------------------------------------------------
User ==
  \/ Select \/ AddEvidence \/ BindMetricTemplate \/ UpdateMetrics \/ UpdateScores
  \/ Narrate \/ \E c \in Confirmations : Confirm(c)
  \/ \E i \in Jobs : QueueCollection(i) \/ QueueExport(i) \/ CancelRead(i)
Cancelling == CancelWrite \/ QueuedCancellation
Collect ==
  \/ Start("collect") \/ CollectLoad \/ CollectCheck \/ CollectCommit
  \/ Settle("collect") \/ TerminalFailure("collect")
Export ==
  \/ Start("export") \/ ExportLoad \/ ExportClaim \/ ExportCheck
  \/ ExportCommit \/ Settle("export") \/ TerminalFailure("export")

Faults == CallbackFails \/ Crash \/ \E k \in Kinds : Fails(k)

Next == User \/ Cancelling \/ Collect \/ Export \/ Faults \/ Restart

Spec == Init /\ [][Next]_vars

\* The runner polls every type, what was begun ends, and a service that died is
\* started again.
FairSpec == Spec /\ WF_vars(Collect) /\ WF_vars(Export) /\ WF_vars(Cancelling) /\ WF_vars(Restart)

----------------------------------------------------------------------------
(* Properties *)

\* A review is confirmed or exported exactly when it points to an active
\* confirmation, and that confirmation froze the very facts and narrative the
\* review has now, whatever jobs end meanwhile (phase-5b:52, :61).
ConfirmedIsFrozen ==
  /\ review.status \in {"confirmed", "exported"} <=> review.current # 0
  /\ review.current # 0 =>
       /\ conf[review.current].status = "active"
       /\ conf[review.current].facts = review.facts
       /\ conf[review.current].narrative = review.narrative

\* A collecting period is ended only by the user or by the job that was queued
\* for it: no late result, failure or cancellation of an earlier collection
\* touches a later one (quarterly-collection.service.ts:1032).
PeriodIsOwn == ~seen.foreign

\* What is shown as exported was exported from the confirmation that is shown,
\* and its file is there.
ExportedIsReal ==
  /\ \A c \in Confirmations : art[c].status = "succeeded" => c \in files
  /\ review.status = "exported" => art[review.current].status = "succeeded"

\* The cancel of the job that was queued for the period is lost: it was requested
\* while the job ran, and the job is queued again, where no poll selects it.
CancelLost ==
  \E i \in Jobs : i = seen.asked /\ job[i].status = "queued" /\ job[i].cancel

\* A review leaves collecting over any attempts that fail and any deaths, unless the
\* job of this very period lost a cancel (job-runner.service.ts:54, 129), or ended and
\* its callback was rejected or died with the service (job-runner.service.ts:199).
CollectingEnds ==
  review.status = "collecting" ~> review.status # "collecting" \/ CancelLost \/ seen.left

----------------------------------------------------------------------------
(* The inductive invariant *)

\* What is executed or cancelled is a job of its kind.
RunsAreOfJobs ==
  /\ \A k \in Kinds :
       /\ run[k].pc # "idle" => run[k].job # 0 /\ job[run[k].job].kind = k
       /\ run[k].pc = "settle" => run[k].out # "none"
  /\ cancel.stage # "none" => cancel.job # 0 /\ job[cancel.job].kind # "none"

\* A collecting period belongs to the job that was queued last, and what a
\* collection falls back to is not confirmed.
JobsAreWhole ==
  /\ review.version > 0
  /\ \A i \in Jobs :
       /\ job[i].kind = "none" => job[i].status = "none"
       /\ job[i].kind = "export" => job[i].art # 0
       /\ job[i].fallback \notin {"confirmed", "exported"}
       /\ job[i].expected <= review.version
       /\ Period(i) => seen.asked = i

\* A file is written before the artifact says so.
FileFirst ==
  run["export"].pc \in {"recheck", "commit"} => job[run["export"].job].art \in files

IInv ==
  /\ TypeOK /\ RunsAreOfJobs /\ JobsAreWhole /\ FileFirst
  /\ ConfirmedIsFrozen /\ PeriodIsOwn /\ ExportedIsReal

=============================================================================
