------------------------------ MODULE Delivery ------------------------------
(***************************************************************************)
(* The formal submission of one weekly report to DingTalk                  *)
(* (modules/weekly-reports): confirmation, the delivery intent with its    *)
(* attempts, the weekly-report.delivery job that calls the provider, the   *)
(* classification of its answer, and the recovery of an unknown result by  *)
(* query, human decision and controlled retry.                             *)
(*                                                                         *)
(* One report, the dingtalk_log channel over an API connection.  An intent *)
(* is identified by its confirmation.  A transaction of the code is one    *)
(* step; each await outside a transaction separates two steps.             *)
(***************************************************************************)
EXTENDS Naturals, FiniteSets

CONSTANTS
  Confs,         \* ids of the confirmations that may be made
  NoConf,
  MaxAttempts,   \* maximumDeliveryAttempts
  MaxCrashes, MaxCancels,   \* bounds of the environment
  MaxFaults,     \* unreadable answers, rejected local writes, late queries
  MaxOverlaps    \* edits of a report while its submission is running

ASSUME DeliveryAssumption ==
  /\ NoConf \notin Confs
  /\ MaxAttempts \in Nat \ {0}
  /\ MaxCrashes \in Nat /\ MaxCancels \in Nat /\ MaxFaults \in Nat
  /\ MaxOverlaps \in Nat

VARIABLES
  report,    \* [status, conf, log]: the weekly_report row
  intent,    \* intent[c]: the delivery_intent row of confirmation c
  attempt,   \* attempt[c][n]: the n-th delivery_attempt row of the intent
  job,       \* job[c][n]: the job created for the n-th attempt
  exec,      \* exec[c][n]: where the handler of that job is
  graced,    \* graced[c]: providerVisibilityGraceMs since the last attempt ended
  prov,      \* prov[c][n]: the create request of the n-th attempt at DingTalk
  query,     \* query[c]: what the query of a reconcile in progress has found
  budget     \* what the environment may still do, and the submissions it has left
             \* without a job that would start or mark them

vars == <<report, intent, attempt, job, exec, graced, prov, query, budget>>

----------------------------------------------------------------------------
(* Rows *)

Attempts == 1 .. MaxAttempts

LogState == {"not_started", "submitting", "submitted", "failed", "unknown"}
Report == [status: {"editing", "confirmed"}, conf: Confs \union {NoConf}, log: LogState]

\* last: the newest not_found check of the intent, and whether
\* repeatedAbsenceGapMs have passed since.
Intent ==
  [status: {"absent", "pending", "running", "succeeded", "failed", "unknown",
            "needs_review", "cancelled"},
   recovery: {"not_required", "pending", "matched", "absence_confirmed", "ambiguous",
              "not_found", "manual_succeeded", "manual_absence_confirmed"},
   attempts: 0 .. MaxAttempts,
   last: {"none", "recent", "old"}]

Result == {"succeeded", "failed", "unknown"}
AttemptRow == {"none", "running"} \union Result
JobRow == {"none", "queued", "running", "succeeded", "cancelled", "unknown"}
ExecPc == {"none", "claimed", "loaded", "calling", "sent", "hung", "returned", "thrown", "mark"}
          \union Result
Request == {"none", "sent", "landed", "refused", "lost"}
QueryState == {"none", "incomplete", "no_match", "one_match", "many_matches"}

TypeOK ==
  /\ report \in Report
  /\ intent \in [Confs -> Intent]
  /\ attempt \in [Confs -> [Attempts -> AttemptRow]]
  /\ job \in [Confs -> [Attempts -> JobRow]]
  /\ exec \in [Confs -> [Attempts -> ExecPc]]
  /\ graced \in [Confs -> BOOLEAN]
  /\ prov \in [Confs -> [Attempts -> Request]]
  /\ query \in [Confs -> QueryState]
  /\ budget \in [crashes: Nat, cancels: Nat, faults: Nat, overlaps: Nat,
                 forgotten: SUBSET Confs]

NoIntent == [status |-> "absent", recovery |-> "not_required", attempts |-> 0,
             last |-> "none"]
Idle == [c \in Confs |-> [n \in Attempts |-> "none"]]

Init ==
  /\ report = [status |-> "editing", conf |-> NoConf, log |-> "not_started"]
  /\ intent = [c \in Confs |-> NoIntent]
  /\ attempt = Idle /\ job = Idle /\ exec = Idle /\ prov = Idle
  /\ graced = [c \in Confs |-> FALSE]
  /\ query = [c \in Confs |-> "none"]
  /\ budget = [crashes |-> MaxCrashes, cancels |-> MaxCancels, faults |-> MaxFaults,
               overlaps |-> MaxOverlaps, forgotten |-> {}]

\* No job of the intent waits for the boot recovery or for the job update and
\* the marking that follow a failed handler.  The service listens only after the recovery, polls
\* first 500 ms later, and nobody decides on a result between these local writes.
Orphan(c, n) == job[c][n] = "running" /\ exec[c][n] = "none"
Marked(c) == \A n \in Attempts : exec[c][n] \notin {"thrown", "mark"} /\ ~Orphan(c, n)

----------------------------------------------------------------------------
(* WeeklyReportService and WeeklyReportAiService: confirming and editing *)

Confirm(c) ==
  /\ report.status = "editing"
  /\ intent[c].status = "absent"          \* a confirmation has a new id
  /\ report' = [report EXCEPT !.status = "confirmed", !.conf = c]
  /\ UNCHANGED <<intent, attempt, job, exec, graced, prov, query, budget>>

\* A change of the content ends the active confirmation.
Unconfirm(c) ==
  /\ report.status = "confirmed" /\ report.conf = c
  /\ report' = [status |-> "editing", conf |-> NoConf, log |-> "not_started"]
  /\ intent[c].status = "running" => budget.overlaps > 0
  /\ budget' = IF intent[c].status = "running" THEN [budget EXCEPT !.overlaps = @ - 1] ELSE budget
  /\ UNCHANGED <<attempt, exec, graced, prov, query>>

\* Saving, restoring and collecting again: a pending intent of the confirmation
\* is cancelled with its queued job, a running one is left alone.
Edit(c) ==
  /\ Unconfirm(c)
  /\ IF intent[c].status = "pending"
     THEN /\ intent' = [intent EXCEPT ![c].status = "cancelled"]
          /\ job' = [job EXCEPT ![c] =
               [n \in Attempts |-> IF @[n] = "queued" THEN "cancelled" ELSE @[n]]]
     ELSE UNCHANGED <<intent, job>>

\* Adopting an AI suggestion invalidates the confirmation and nothing else.
Adopt(c) == Unconfirm(c) /\ UNCHANGED <<intent, job>>

----------------------------------------------------------------------------
(* WeeklyReportDeliveryService.submitLog *)

Unresolved(c) == intent[c].status \in {"unknown", "needs_review"}

\* A second call finds the intent and replays it: no state changes.
SubmitLog(c) ==
  /\ report.status = "confirmed" /\ report.conf = c
  /\ intent[c].status = "absent"
  /\ \A d \in Confs : ~Unresolved(d)
  /\ report' = [report EXCEPT !.log = "submitting"]
  /\ intent' = [intent EXCEPT ![c].status = "pending"]
  /\ job' = [job EXCEPT ![c][1] = "queued"]
  /\ UNCHANGED <<attempt, exec, graced, prov, query, budget>>

----------------------------------------------------------------------------
(* WeeklyReportDeliveryHandler, executed once per job by the job runner *)

Goto(c, n, s) == exec' = [exec EXCEPT ![c][n] = s]

\* The type has concurrency 1, and polling starts after the boot recovery.
Claim(c, n) ==
  /\ job[c][n] = "queued"
  /\ \A d \in Confs, m \in Attempts : exec[d][m] = "none" /\ ~Orphan(d, m)
  /\ job' = [job EXCEPT ![c][n] = "running"]
  /\ Goto(c, n, "claimed")
  /\ UNCHANGED <<report, intent, attempt, graced, prov, query, budget>>

\* loadIntent and the two checks of its status.
Load(c, n) ==
  /\ exec[c][n] = "claimed"
  /\ Goto(c, n, CASE intent[c].status = "succeeded" -> "returned"
                  [] intent[c].status = "pending" -> "loaded"
                  [] OTHER -> "thrown")
  /\ UNCHANGED <<report, intent, attempt, job, graced, prov, query, budget>>

Current(c) == report.status = "confirmed" /\ report.conf = c

\* Mutant: an invalidated submission is dropped without cancelling its intent.
StartAttemptLeavesPending(c, n) ==
  /\ exec[c][n] = "loaded"
  /\ IF intent[c].status = "pending" /\ Current(c)
     THEN /\ intent' = [intent EXCEPT ![c].status = "running", ![c].attempts = @ + 1]
          /\ attempt' = [attempt EXCEPT ![c][n] = "running"]
          /\ Goto(c, n, "calling")
     ELSE Goto(c, n, "returned") /\ UNCHANGED <<intent, attempt>>
  /\ UNCHANGED <<report, job, graced, prov, query, budget>>

\* startAttempt: one conditional update decides; if it misses, a pending intent
\* is cancelled before anything was sent, any other one is somebody else's.
StartAttempt(c, n) ==
  /\ exec[c][n] = "loaded"
  /\ \/ /\ intent[c].status = "pending" /\ Current(c)
        /\ intent' = [intent EXCEPT ![c].status = "running", ![c].attempts = @ + 1]
        /\ attempt' = [attempt EXCEPT ![c][n] = "running"]
        /\ Goto(c, n, "calling")
     \/ /\ intent[c].status = "pending" /\ ~Current(c)
        /\ intent' = [intent EXCEPT ![c].status = "cancelled"]
        /\ Goto(c, n, "returned")
        /\ UNCHANGED attempt
     \/ /\ intent[c].status # "pending"
        /\ Goto(c, n, "thrown")
        /\ UNCHANGED <<intent, attempt>>
  /\ UNCHANGED <<report, job, graced, prov, query, budget>>

\* A check of the connection, the credential or the configuration fails before
\* the create request; a timeout of the token request counts as unknown.
PreflightFails(c, n) ==
  /\ exec[c][n] = "calling"
  /\ \E result \in {"failed", "unknown"} : Goto(c, n, result)
  /\ UNCHANGED <<report, intent, attempt, job, graced, prov, query, budget>>

Send(c, n) ==
  /\ exec[c][n] = "calling"
  /\ prov' = [prov EXCEPT ![c][n] = "sent"]
  /\ Goto(c, n, "sent")
  /\ UNCHANGED <<report, intent, attempt, job, graced, query, budget>>

\* The answer, as classifyFailure reads it; a timeout says nothing.
Answer(c, n) ==
  /\ exec[c][n] = "sent"
  /\ \/ prov[c][n] = "landed" /\ Goto(c, n, "succeeded")
     \/ prov[c][n] = "refused" /\ Goto(c, n, "failed")
     \/ Goto(c, n, "unknown")
  /\ UNCHANGED <<report, intent, attempt, job, graced, prov, query, budget>>

\* An answer that is cut, is no JSON or does not fit the schema is an explicit
\* failure for classifyFailure; one that trickles in or breaks off is awaited for
\* ever, because only an idle socket times out.
AnswerUnreadable(c, n) ==
  /\ exec[c][n] = "sent" /\ prov[c][n] # "sent" /\ budget.faults > 0
  /\ \E s \in {"failed", "hung"} : Goto(c, n, s)
  /\ budget' = [budget EXCEPT !.faults = @ - 1]
  /\ UNCHANGED <<report, intent, attempt, job, graced, prov, query>>

\* reportProgress(85) or finishAttempt rejects after the provider accepted: the
\* catch block classifies the database error as an explicit failure.
RecordingFails(c, n) ==
  /\ exec[c][n] = "succeeded" /\ budget.faults > 0
  /\ Goto(c, n, "failed")
  /\ budget' = [budget EXCEPT !.faults = @ - 1]
  /\ UNCHANGED <<report, intent, attempt, job, graced, prov, query>>

\* The log state of the report and the recovery status a result leads to.
LogOf(result) == IF result = "succeeded" THEN "submitted" ELSE result
RecoveryOf(result) == IF result = "unknown" THEN "pending" ELSE "not_required"

\* finishAttempt; if the intent is no longer running nothing is recorded, and
\* the catch block tries once more to record a success, as a failure.
FinishAttempt(c, n) ==
  LET result == exec[c][n] IN
  /\ result \in Result
  /\ \/ /\ intent[c].status = "running"
        /\ intent' = [intent EXCEPT ![c].status = result, ![c].recovery = RecoveryOf(result)]
        /\ attempt' = [attempt EXCEPT ![c][n] = result]
        /\ graced' = [graced EXCEPT ![c] = FALSE]
        /\ report' = [report EXCEPT !.log = LogOf(result)]
        /\ Goto(c, n, IF result = "unknown" THEN "thrown" ELSE "returned")
     \/ /\ intent[c].status # "running"
        /\ Goto(c, n, IF result = "succeeded" THEN "failed" ELSE "thrown")
        /\ UNCHANGED <<intent, attempt, graced, report>>
  /\ UNCHANGED <<job, prov, query, budget>>

----------------------------------------------------------------------------
(* What the job runner does with the job afterwards *)

EndJob(c, n) ==
  /\ \/ /\ exec[c][n] = "returned"
        /\ job' = [job EXCEPT ![c][n] = "succeeded"]
        /\ Goto(c, n, "none")
     \/ /\ exec[c][n] = "thrown"
        /\ job' = [job EXCEPT ![c][n] = "unknown"]
        /\ Goto(c, n, "mark")
  /\ UNCHANGED <<report, intent, attempt, graced, prov, query, budget>>

\* markManualReviewTarget
MarkAs(c, n, before, after) ==
  /\ exec[c][n] = "mark"
  /\ Goto(c, n, "none")
  /\ IF intent[c].status = before
     THEN /\ intent' = [intent EXCEPT ![c].status = after, ![c].recovery = RecoveryOf(after)]
          /\ report' = [report EXCEPT !.log = after]
     ELSE UNCHANGED <<intent, report>>
  /\ UNCHANGED <<attempt, job, graced, prov, query, budget>>

\* Mutants: the interrupted submission is marked as failed, or only if it has
\* not started yet.
MarkFailed(c, n) == MarkAs(c, n, "running", "failed")
MarkUnstarted(c, n) == MarkAs(c, n, "pending", "unknown")

Mark(c, n) == MarkAs(c, n, "running", "unknown")

\* A death leaves the submission for good whose job was claimed and had not yet
\* started it, and the one whose job is "unknown" already and had not yet marked it.
LeftByDeath(c) ==
  \E n \in Attempts :
    \/ intent[c].status = "pending" /\ exec[c][n] \in {"claimed", "loaded"}
    \/ intent[c].status = "running" /\ exec[c][n] = "mark"

Crash ==
  /\ budget.crashes > 0
  /\ exec' = Idle /\ query' = [c \in Confs |-> "none"]
  /\ budget' = [budget EXCEPT !.crashes = @ - 1,
                               !.forgotten = @ \union {c \in Confs : LeftByDeath(c)}]
  /\ UNCHANGED <<report, intent, attempt, job, graced, prov>>

\* Bootstrap recovery of a job whose lease has expired.
RecoverJob(c, n) ==
  /\ Orphan(c, n)
  /\ job' = [job EXCEPT ![c][n] = "unknown"]
  /\ Goto(c, n, "mark")
  /\ UNCHANGED <<report, intent, attempt, graced, prov, query, budget>>

\* The cancel endpoint on a queued job; this handler has no callback for it.
CancelJob(c, n) ==
  /\ job[c][n] = "queued" /\ budget.cancels > 0
  /\ job' = [job EXCEPT ![c][n] = "cancelled"]
  /\ budget' = [budget EXCEPT !.cancels = @ - 1, !.forgotten = @ \union {c}]
  /\ UNCHANGED <<report, intent, attempt, exec, graced, prov, query>>

----------------------------------------------------------------------------
(* DingTalk, and time.  A request lands, is refused or is lost, at the latest *)
(* when the visibility grace after the end of its attempt has passed.          *)

Settle(c, n) ==
  /\ prov[c][n] = "sent"
  /\ \E r \in {"landed", "refused", "lost"} : prov' = [prov EXCEPT ![c][n] = r]
  /\ UNCHANGED <<report, intent, attempt, job, exec, graced, query, budget>>

\* That the grace ends while a query is under way is a late query.
GracePasses(c) ==
  LET n == intent[c].attempts IN
  /\ ~graced[c] /\ n > 0 /\ attempt[c][n] \in Result
  /\ prov[c][n] # "sent"
  /\ graced' = [graced EXCEPT ![c] = TRUE]
  /\ IF query[c] = "none" THEN UNCHANGED budget
     ELSE budget.faults > 0 /\ budget' = [budget EXCEPT !.faults = @ - 1]
  /\ UNCHANGED <<report, intent, attempt, job, exec, prov, query>>

\* repeatedAbsenceGapMs since the newest not_found check.
GapPasses(c) ==
  /\ intent[c].last = "recent"
  /\ intent' = [intent EXCEPT ![c].last = "old"]
  /\ UNCHANGED <<report, attempt, job, exec, graced, prov, query, budget>>

----------------------------------------------------------------------------
(* WeeklyReportDeliveryRecoveryService *)

Landed(c) == {n \in Attempts : prov[c][n] = "landed"}

\* Which of the logs a query can find: all those that landed, but an earlier
\* one may lie before the query window, and the newest may not be visible yet.
Findable(c) ==
  {V \in SUBSET Landed(c) :
     graced[c] /\ intent[c].attempts \in Landed(c) => intent[c].attempts \in V}

Answered(found, complete) ==
  CASE ~complete -> "incomplete"
    [] complete /\ found = {} -> "no_match"
    [] complete /\ Cardinality(found) = 1 -> "one_match"
    [] OTHER -> "many_matches"

\* reconcile up to the answer of the provider, for an attempt that has ended.
Query(c) ==
  LET n == intent[c].attempts IN
  /\ query[c] = "none"
  /\ Unresolved(c) /\ Marked(c) /\ n > 0 /\ attempt[c][n] \in Result
  /\ \E found \in Findable(c), complete \in BOOLEAN :
       query' = [query EXCEPT ![c] = Answered(found, complete)]
  /\ UNCHANGED <<report, intent, attempt, job, exec, graced, prov, budget>>

\* Mutant: absence is confirmed without waiting for the provider's visibility.
QueryOutcomeUngraced(c) ==
  CASE query[c] = "one_match" -> "matched"
    [] query[c] = "no_match" /\ intent[c].last = "old" -> "absence_confirmed"
    [] query[c] = "no_match" /\ intent[c].last # "old" -> "not_found"
    [] OTHER -> "ambiguous"

\* The grace and the gap are measured when the answer is judged.
QueryOutcome(c) ==
  CASE query[c] = "one_match" -> "matched"
    [] query[c] = "no_match" /\ graced[c] /\ intent[c].last = "old" -> "absence_confirmed"
    [] query[c] = "no_match" /\ ~(graced[c] /\ intent[c].last = "old") -> "not_found"
    [] OTHER -> "ambiguous"

\* Mutant: an ambiguous result is taken for a success.
StatusAfterTrusting(outcome) ==
  CASE outcome \in {"matched", "ambiguous"} -> "succeeded"
    [] outcome = "absence_confirmed" -> "failed"
    [] outcome = "not_found" -> "unknown"

StatusAfter(outcome) ==
  CASE outcome = "matched" -> "succeeded"
    [] outcome = "absence_confirmed" -> "failed"
    [] outcome = "ambiguous" -> "needs_review"
    [] outcome = "not_found" -> "unknown"

Judged(i, outcome) ==
  [i EXCEPT !.status = StatusAfter(outcome), !.recovery = outcome,
            !.last = IF outcome = "not_found" THEN "recent" ELSE @]

\* The transaction of reconcile, or that of a query that failed.
Reconcile(c) ==
  LET outcome == QueryOutcome(c) IN
  /\ query[c] # "none"
  /\ query' = [query EXCEPT ![c] = "none"]
  /\ \/ /\ intent' = [intent EXCEPT ![c] = Judged(@, outcome)]
        /\ report' = [report EXCEPT !.log =
             CASE outcome = "matched" -> "submitted"
               [] outcome = "absence_confirmed" -> "failed"
               [] OTHER -> @]
     \/ intent' = [intent EXCEPT ![c].recovery = "pending"] /\ UNCHANGED report
  /\ UNCHANGED <<attempt, job, exec, graced, prov, budget>>

\* resolve; the user looks into DingTalk and reports what is there.  A query under
\* way then finds a newer version of the intent, and its result is dropped.
Resolve(c, delivered) ==
  /\ Unresolved(c) /\ Marked(c)
  /\ IF delivered THEN Landed(c) # {}
     ELSE \A n \in Attempts : prov[c][n] \notin {"sent", "landed"}
  /\ intent' = [intent EXCEPT
       ![c].status = IF delivered THEN "succeeded" ELSE "failed",
       ![c].recovery = IF delivered THEN "manual_succeeded" ELSE "manual_absence_confirmed"]
  /\ report' = [report EXCEPT !.log = IF delivered THEN "submitted" ELSE "failed"]
  /\ query' = [query EXCEPT ![c] = "none"]
  /\ UNCHANGED <<attempt, job, exec, graced, prov, budget>>

\* retry asks neither for the current confirmation nor for an idle report.
Retry(c) ==
  LET n == intent[c].attempts + 1 IN
  /\ intent[c].status = "failed" /\ n <= MaxAttempts /\ Marked(c)
  /\ intent[c].recovery \notin {"pending", "not_found", "ambiguous"}
  /\ intent' = [intent EXCEPT ![c].status = "pending"]
  /\ job' = [job EXCEPT ![c][n] = "queued"]
  /\ report' = [report EXCEPT !.log = "submitting"]
  /\ UNCHANGED <<attempt, exec, graced, prov, query, budget>>

----------------------------------------------------------------------------
(* The specification *)

Handler(c, n) ==
  \/ Claim(c, n) \/ Load(c, n) \/ StartAttempt(c, n) \/ PreflightFails(c, n) \/ Send(c, n)
  \/ Answer(c, n) \/ FinishAttempt(c, n) \/ EndJob(c, n) \/ Mark(c, n) \/ RecoverJob(c, n)

Recovery(c) ==
  \/ Query(c) \/ Reconcile(c) \/ Retry(c)
  \/ \E delivered \in BOOLEAN : Resolve(c, delivered)

Next ==
  \/ Crash
  \/ \E c \in Confs :
       \/ Confirm(c) \/ Edit(c) \/ Adopt(c) \/ SubmitLog(c) \/ Recovery(c) \/ GracePasses(c) \/ GapPasses(c)
       \/ \E n \in Attempts :
            Handler(c, n) \/ AnswerUnreadable(c, n) \/ RecordingFails(c, n) \/ CancelJob(c, n) \/ Settle(c, n)

Spec == Init /\ [][Next]_vars

\* Jobs are claimed, handlers bound their calls, and a restarted service
\* recovers what it left behind.
FairSpec == Spec /\ \A c \in Confs, n \in Attempts : WF_vars(Handler(c, n))

----------------------------------------------------------------------------
(* Properties *)

NoFault == budget.faults = MaxFaults

\* A formal log is created at most once for a confirmed version, whatever
\* times out, crashes, is queried, decided and retried.
NoDuplicateLog ==
  NoFault => \A c \in Confs : Cardinality(Landed(c)) <= 1

\* Success is never claimed without a log in DingTalk.
SuccessIsReal ==
  \A c \in Confs : intent[c].status = "succeeded" => Landed(c) # {}

\* A result that may be retried is proved absent: no request of the intent has
\* landed or can still land (delivery-recovery.service.ts:394-404).
RetryableIsAbsent ==
  NoFault => \A c \in Confs :
    /\ intent[c].status \in {"failed", "pending"}
    => \A n \in Attempts : prov[c][n] \notin {"landed", "sent"}

\* An accepted submission is started, unless its queued job is cancelled or a process
\* dies between the claim and the start; and what is running ends, over any number of
\* deaths: a job lost in one is found out and marked, unless the next one comes between
\* the update of the job and the mark (job-runner.service.ts:33-51, 152-179) or the
\* answer of DingTalk never ends (weekly-report-delivery.handler.ts:70).
SubmissionSettles ==
  \A c \in Confs :
    /\ intent[c].status = "pending" ~>
         intent[c].status # "pending" \/ c \in budget.forgotten
    /\ intent[c].status = "running" ~>
         \/ intent[c].status # "running" \/ c \in budget.forgotten
         \/ \E n \in Attempts : exec[c][n] = "hung"

\* Editing and confirming again never opens a second submission while the fate
\* of an earlier one is open, unless the report was edited during it.
OneOpenSubmission ==
  budget.overlaps = MaxOverlaps =>
    \A c, d \in Confs : {intent[c].status, intent[d].status}
      \subseteq {"running", "unknown", "needs_review"} => c = d

----------------------------------------------------------------------------
(* Auxiliary invariants used by the proofs *)

\* A handler that waits for, has got or is about to record a result.
Attempting == {"calling", "sent", "hung"} \union Result

\* At most one job of the type is being worked on or waits for its recovery.
Active(c, n) == exec[c][n] # "none" \/ job[c][n] = "running"

OneActive ==
  \A c, d \in Confs, n, m \in Attempts : Active(c, n) /\ Active(d, m) => c = d /\ n = m

\* The job of attempt n is the next or the current one of its intent.
JobInStep(c, n) ==
  /\ exec[c][n] \notin {"none", "mark"} => job[c][n] = "running"
  /\ job[c][n] = "queued" => intent[c].status = "pending" /\ n = intent[c].attempts + 1
  /\ exec[c][n] \in {"claimed", "loaded"} => n = intent[c].attempts + 1
  /\ exec[c][n] \in Attempting =>
       n = intent[c].attempts /\ intent[c].status = "running" /\ attempt[c][n] = "running"
  /\ n > intent[c].attempts /\ Active(c, n) => intent[c].status \in {"pending", "cancelled"}
  /\ intent[c].status = "absent" => intent[c].attempts = 0 /\ job[c][n] = "none"

\* The request of attempt n fits what its handler knows of it.
RequestInStep(c, n) ==
  /\ exec[c][n] = "calling" \/ n > intent[c].attempts => prov[c][n] = "none"
  /\ exec[c][n] = "succeeded" => prov[c][n] = "landed"
  /\ exec[c][n] = "failed" /\ NoFault => prov[c][n] \notin {"sent", "landed"}

\* Whether a log of attempt n exists or may still come to exist.
MayExist(c, n) == prov[c][n] \in {"sent", "landed"}

\* Only the current attempt may have left a log, and none if it may be retried.
AbsentBefore(c, n) ==
  NoFault /\ MayExist(c, n) =>
    n = intent[c].attempts /\ intent[c].status \notin {"failed", "pending"}

\* What a query has found out, and what the grace says of the current attempt.
QueryInStep(c) ==
  /\ query[c] # "none" => Unresolved(c)
  /\ query[c] = "one_match" => Landed(c) # {}
  /\ \A n \in Attempts : n = intent[c].attempts /\ graced[c] =>
       /\ attempt[c][n] \in Result => prov[c][n] # "sent"
       /\ NoFault /\ query[c] = "no_match" => ~MayExist(c, n)

DeliveryInv ==
  /\ budget.faults <= MaxFaults
  /\ OneActive
  /\ \A c \in Confs : QueryInStep(c) /\ (intent[c].status = "succeeded" => Landed(c) # {})
  /\ \A c \in Confs, n \in Attempts :
       JobInStep(c, n) /\ RequestInStep(c, n) /\ AbsentBefore(c, n)

\* Without an edit during a submission, only the submission of the current
\* confirmation runs, and none is created for it beside an open one.
OpenInv ==
  /\ budget.overlaps <= MaxOverlaps
  /\ OneOpenSubmission
  /\ budget.overlaps = MaxOverlaps =>
       /\ \A c \in Confs : intent[c].status = "running" => Current(c)
       /\ \A c, d \in Confs :
            Unresolved(d) /\ Current(c) /\ c # d => intent[c].status = "absent"
=============================================================================
