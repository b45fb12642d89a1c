----------------------------- MODULE Reminders -----------------------------
(***************************************************************************)
(* The reminders of the weekly report (modules/weekly-reports): a policy   *)
(* of the user, the scheduler that plans an occurrence for every week and  *)
(* kind of reminder and turns those that are due into notifications, and   *)
(* the manual_review job that sends a notification through the robot.      *)
(*                                                                         *)
(* One profile, one process that holds the instance lease, one robot that  *)
(* is healthy when the policy is saved.  Time is counted in ticks, week w  *)
(* begins at tick (w - 1) * Week.                                          *)
(***************************************************************************)
EXTENDS Integers, FiniteSets

CONSTANTS
  NumWeeks,      \* bound: weeks that are lived through
  Week,          \* ticks of a week
  Offset,        \* Offset[k]: the tick of the week at which reminder k is due
  Grace,         \* graceMinutes, in ticks
  NumVersions,   \* bound: versions of the policy
  MaxCalls,      \* DINGTALK_ROBOT_MAX_PROVIDER_CALLS
  MaxFaults,     \* bound: deaths, database writes that fail and answers that never end
  MaxCancels,    \* bound: uses of the cancel endpoint
  MaxChanges     \* bound: changes of the reports

Weeks == 1..NumWeeks
Versions == 1..NumVersions
Kinds == DOMAIN Offset
Times == 0..(NumWeeks * Week)

ASSUME RemindersAssumption ==
  /\ NumWeeks \in Nat \ {0} /\ Week \in Nat \ {0}
  /\ Kinds \subseteq {"generation", "confirmation", "deadline"}
  /\ Offset \in [Kinds -> 0..(Week - 1)]
  /\ {NumVersions, MaxCalls} \subseteq Nat \ {0} /\ {Grace, MaxFaults, MaxCancels, MaxChanges} \subseteq Nat

VARIABLES
  now,       \* the clock
  policy,    \* the weekly_report_reminder_policy row
  report,    \* report[w]: the weekly_report row of the week
  occ,       \* occ[o]: status of the weekly_report_reminder_occurrence row
  ntf,       \* ntf[o]: status of its robot_notification row
  job,       \* job[o]: status of its job row
  sched,     \* reconcile, in memory
  handler,   \* the notification job that is executed, in memory
  cancel,    \* requestCancel between its read and its write
  up,        \* the service runs
  sent,      \* sent[o]: POSTs of the message, those answered "later", whether one was accepted
  budget     \* what may still happen, and the occurrences a death has left unmarked

vars == <<now, policy, report, occ, ntf, job, sched, handler, cancel, up, sent, budget>>
rows == <<occ, ntf, job>>

\* An occurrence belongs to one version of the policy: its unique key.
Occurrences == [v: Versions, w: Weeks, k: Kinds]
NoOcc == [v |-> 0, w |-> 0, k |-> "none"]
MaybeOcc == Occurrences \union {NoOcc}

OccFinal == {"succeeded", "failed", "unknown", "skipped", "cancelled"}
OccStatus == {"absent", "planned", "queued"} \union OccFinal
NtfStatus == {"absent", "queued", "sending"} \union OccFinal
JobStatus == {"absent", "queued", "running", "succeeded", "cancelled", "unknown"}
Decisions == {"none", "queue", "skip", "cancel"}
HandlerSteps == {"idle", "load", "claim", "send", "hung", "finish", "settle", "mark"}

Sched == [pc: {"idle", "stale", "plan", "list", "due"}, version: 0..NumVersions,
          enabled: BOOLEAN, now: Times, stale: SUBSET (Occurrences \X {"planned", "queued"}),
          due: SUBSET (Occurrences \X BOOLEAN), pick: MaybeOcc, plan: Decisions]
Handling == [occ: MaybeOcc, pc: HandlerSteps, calls: 0..MaxCalls,
             result: {"none", "succeeded", "failed", "unknown"}]
Posts == [calls: Nat, busy: Nat, accepted: BOOLEAN]

IdleSched == [pc |-> "idle", version |-> 0, enabled |-> FALSE, now |-> 0, stale |-> {},
              due |-> {}, pick |-> NoOcc, plan |-> "none"]
IdleHandler == [occ |-> NoOcc, pc |-> "idle", calls |-> 0, result |-> "none"]

TypeOK ==
  /\ now \in Times
  /\ policy \in [version: Versions, enabled: BOOLEAN]
  /\ report \in [Weeks -> [status: {"none", "editing", "confirmed"}, submitted: BOOLEAN]]
  /\ occ \in [Occurrences -> OccStatus]
  /\ \A o \in Occurrences :   \* the triggers of the table
       /\ occ[o] \in {"absent", "planned"} => ntf[o] = "absent" /\ job[o] = "absent"
       /\ occ[o] = "queued" => ntf[o] # "absent" /\ job[o] # "absent"
  /\ ntf \in [Occurrences -> NtfStatus]
  /\ job \in [Occurrences -> JobStatus]
  /\ sched \in Sched /\ handler \in Handling
  /\ cancel \in MaybeOcc
  /\ up \in BOOLEAN
  /\ sent \in [Occurrences -> Posts]
  /\ budget \in [faults: Nat, cancels: Nat, changes: Nat, unmarked: SUBSET Occurrences]

\* A policy that has just been enabled; a report may exist already.
Init ==
  /\ now = 0
  /\ policy = [version |-> 1, enabled |-> TRUE]
  /\ report = [w \in Weeks |-> [status |-> "none", submitted |-> FALSE]]
  /\ occ = [o \in Occurrences |-> "absent"]
  /\ ntf = [o \in Occurrences |-> "absent"]
  /\ job = [o \in Occurrences |-> "absent"]
  /\ sched = IdleSched /\ handler = IdleHandler /\ cancel = NoOcc
  /\ up = TRUE
  /\ sent = [o \in Occurrences |-> [calls |-> 0, busy |-> 0, accepted |-> FALSE]]
  /\ budget = [faults |-> MaxFaults, cancels |-> MaxCancels, changes |-> MaxChanges,
               unmarked |-> {}]

----------------------------------------------------------------------------
(* Time and the report *)

ScheduledFor(o) == (o.w - 1) * Week + Offset[o.k]
GraceUntil(o) == ScheduledFor(o) + Grace

Tick ==
  /\ now < NumWeeks * Week
  /\ now' = now + 1
  /\ UNCHANGED <<policy, report, rows, sched, handler, cancel, up, sent, budget>>

\* Generation, confirmation, an edit that ends a confirmation, and the formal
\* submission, which an edit does not take back.
ReportAfter(r) ==
  CASE r.status = "none" -> {[r EXCEPT !.status = "editing"]}
    [] r.status = "editing" -> {[r EXCEPT !.status = "confirmed"]}
    [] OTHER -> {[r EXCEPT !.status = "editing"], [r EXCEPT !.submitted = TRUE]}

ReportChanges(w) ==
  /\ up /\ budget.changes > 0
  /\ \E r \in ReportAfter(report[w]) : report' = [report EXCEPT ![w] = r]
  /\ budget' = [budget EXCEPT !.changes = @ - 1]
  /\ UNCHANGED <<now, policy, rows, sched, handler, cancel, up, sent>>

----------------------------------------------------------------------------
(* What ends an occurrence whose version of the policy is over *)

\* Mutant: the job and the occurrence are cancelled, the notification is left.
RevokedNotified(S) ==
  /\ job' = [o \in Occurrences |-> IF o \in S /\ job[o] = "queued" THEN "cancelled" ELSE job[o]]
  /\ ntf' = ntf
  /\ occ' = [o \in Occurrences |-> IF o \in S THEN "cancelled" ELSE occ[o]]

\* Job, notification and occurrence in one transaction, each if it still waits.
Revoked(S) ==
  /\ job' = [o \in Occurrences |-> IF o \in S /\ job[o] = "queued" THEN "cancelled" ELSE job[o]]
  /\ ntf' = [o \in Occurrences |-> IF o \in S /\ ntf[o] = "queued" THEN "cancelled" ELSE ntf[o]]
  /\ occ' = [o \in Occurrences |-> IF o \in S THEN "cancelled" ELSE occ[o]]

\* WeeklyReportReminderPolicyService.update: the new version and the end of what
\* the old one still has planned or queued, unless it is being sent.
UpdatePolicy ==
  /\ up /\ policy.version < NumVersions
  /\ \E enabled \in BOOLEAN : policy' = [version |-> policy.version + 1, enabled |-> enabled]
  /\ Revoked({o \in Occurrences : occ[o] \in {"planned", "queued"} /\ ntf[o] # "sending"})
  /\ UNCHANGED <<now, report, sched, handler, cancel, up, sent, budget>>

----------------------------------------------------------------------------
(* WeeklyReportReminderSchedulerService.reconcile *)

\* The policy is read, and then what other versions have planned or queued.
Begin ==
  /\ up /\ sched.pc = "idle"
  /\ sched' = [IdleSched EXCEPT
       !.pc = "stale", !.version = policy.version, !.enabled = policy.enabled, !.now = now,
       !.stale = {<<o, occ[o]>> : o \in {p \in Occurrences :
          /\ occ[p] \in {"planned", "queued"}
          /\ policy.enabled => p.v # policy.version
          /\ ntf[p] # "sending"}}]
  /\ UNCHANGED <<now, policy, report, rows, handler, cancel, up, sent, budget>>

\* One transaction per stale row, for what was read of it.
CancelStale ==
  /\ up /\ sched.pc = "stale"
  /\ \/ \E s \in sched.stale :
          /\ Revoked(IF occ[s[1]] = s[2] THEN {s[1]} ELSE {})
          /\ sched' = [sched EXCEPT !.stale = @ \ {s}]
     \/ /\ sched.stale = {}
        /\ sched' = [sched EXCEPT !.pc = IF sched.enabled THEN "plan" ELSE "list"]
        /\ UNCHANGED rows
  /\ UNCHANGED <<now, policy, report, handler, cancel, up, sent, budget>>

CurrentWeek(t) == t \div Week + 1

\* Mutant: a row that exists is planned again.
MissingOrEnded(o) ==
  /\ o.v = sched.version /\ o.w >= CurrentWeek(sched.now)
  /\ occ[o] \in {"absent"} \union OccFinal

\* buildWeeklyReminderSchedule from the week of now on, less what exists.
Missing(o) ==
  /\ o.v = sched.version /\ o.w >= CurrentWeek(sched.now)
  /\ occ[o] = "absent"

\* The missing rows are created one by one; the unique key keeps doubles out.
Plan ==
  /\ up /\ sched.pc = "plan"
  /\ occ' = [o \in Occurrences |-> IF Missing(o) THEN "planned" ELSE occ[o]]
  /\ sched' = [sched EXCEPT !.pc = "list"]
  /\ UNCHANGED <<now, policy, report, ntf, job, handler, cancel, up, sent, budget>>

\* The rows that are due, each with the policy as it is now.
ListDue ==
  /\ up /\ sched.pc = "list"
  /\ sched' = [sched EXCEPT
       !.pc = "due",
       !.due = {<<o, policy.enabled /\ policy.version = o.v>> :
                  o \in {p \in Occurrences : occ[p] = "planned" /\ ScheduledFor(p) <= sched.now}}]
  /\ UNCHANGED <<now, policy, report, rows, handler, cancel, up, sent, budget>>

\* fulfilledReason
Fulfilled(k, r) ==
  \/ k = "generation" /\ r.status # "none"
  \/ k = "confirmation" /\ (r.status = "confirmed" \/ r.submitted)
  \/ k = "deadline" /\ r.submitted

Decision(o, current) ==
  CASE ~current -> "cancel"
    [] current /\ (sched.now > GraceUntil(o) \/ Fulfilled(o.k, report[o.w])) -> "skip"
    [] OTHER -> "queue"

\* processOccurrence: the report is read and what to do is decided.
Decide ==
  /\ up /\ sched.pc = "due" /\ sched.pick = NoOcc
  /\ \/ \E d \in sched.due :
          sched' = [sched EXCEPT !.due = @ \ {d}, !.pick = d[1], !.plan = Decision(d[1], d[2])]
     \/ sched.due = {} /\ sched' = IdleSched
  /\ UNCHANGED <<now, policy, report, rows, handler, cancel, up, sent, budget>>

\* cancelOccurrence, recordSkipped, queue: a transaction that is rolled back when
\* the occurrence is no longer planned.
Apply ==
  LET o == sched.pick
      planned == occ[o] = "planned"
  IN  /\ up /\ o # NoOcc
      /\ \/ /\ planned /\ sched.plan = "cancel"
            /\ occ' = [occ EXCEPT ![o] = "cancelled"] /\ UNCHANGED <<ntf, job>>
         \/ /\ planned /\ sched.plan = "skip"
            /\ occ' = [occ EXCEPT ![o] = "skipped"] /\ ntf' = [ntf EXCEPT ![o] = "skipped"]
            /\ UNCHANGED job
         \/ /\ planned /\ sched.plan = "queue"
            /\ occ' = [occ EXCEPT ![o] = "queued"]
            /\ ntf' = [ntf EXCEPT ![o] = "queued"]
            /\ job' = [job EXCEPT ![o] = "queued"]
         \/ ~planned /\ UNCHANGED rows
      /\ sched' = [sched EXCEPT !.pick = NoOcc, !.plan = "none"]
      /\ UNCHANGED <<now, policy, report, handler, cancel, up, sent, budget>>

----------------------------------------------------------------------------
(* The runner and WeeklyReportNotificationHandler.execute *)

At(pc) == up /\ handler.pc = pc
Goes(pc) == handler' = [handler EXCEPT !.pc = pc]
Fault == budget.faults > 0 /\ budget' = [budget EXCEPT !.faults = @ - 1]

\* The only notification job at a time (concurrency 1).
Start(o) ==
  /\ At("idle") /\ job[o] = "queued"
  /\ job' = [job EXCEPT ![o] = "running"]
  /\ handler' = [IdleHandler EXCEPT !.occ = o, !.pc = "load"]
  /\ UNCHANGED <<now, policy, report, occ, ntf, sched, cancel, up, sent, budget>>

\* The notification is read; one that does not wait any more is refused.
Load ==
  /\ At("load")
  /\ IF ntf[handler.occ] = "queued" THEN Goes("claim")
     ELSE handler' = [handler EXCEPT !.pc = "settle", !.result = "unknown"]
  /\ UNCHANGED <<now, policy, report, rows, sched, cancel, up, sent, budget>>

\* Mutant: the version that was read is not compared.
ClaimAny ==
  /\ At("claim")
  /\ ntf' = [ntf EXCEPT ![handler.occ] = "sending"]
  /\ Goes("send")
  /\ UNCHANGED <<now, policy, report, occ, job, sched, cancel, up, sent, budget>>

\* The update to sending, by version and status.
Claim ==
  LET o == handler.occ IN
  /\ At("claim")
  /\ \/ ntf[o] = "queued" /\ ntf' = [ntf EXCEPT ![o] = "sending"] /\ Goes("send")
     \/ /\ ntf[o] # "queued" /\ UNCHANGED ntf
        /\ handler' = [handler EXCEPT !.pc = "settle", !.result = "unknown"]
  /\ UNCHANGED <<now, policy, report, occ, job, sched, cancel, up, sent, budget>>

\* DingTalkRobotClient.sendText: one POST and what its answer says of it.  Whether
\* the group gets the message too when the answer does not say so is left open.
Posted(busy, accepted) ==
  sent' = [sent EXCEPT ![handler.occ] =
    [calls |-> @.calls + 1, busy |-> @.busy + busy, accepted |-> accepted]]
Ends(result) == handler' = [handler EXCEPT !.pc = "finish", !.result = result]

\* 429, a rate limit or a server error, even of a message that was delivered: the
\* POST is repeated, MaxCalls times in all.
AnsweredLater ==
  /\ Posted(1, FALSE)
  /\ IF handler.calls + 1 < MaxCalls THEN handler' = [handler EXCEPT !.calls = @ + 1]
     ELSE Ends("failed")

\* The robot accepts, refuses, answers what cannot be read, or not in time.
Send ==
  /\ At("send")
  /\ \/ AnsweredLater
     \/ Posted(0, TRUE) /\ Ends("succeeded")
     \/ \E result \in {"failed", "unknown"} : Posted(0, FALSE) /\ Ends(result)
  /\ UNCHANGED <<now, policy, report, rows, sched, cancel, up, budget>>

\* assertConnection, readCredential or the content hash: there is no POST.
Refused ==
  /\ At("send") /\ handler.calls = 0
  /\ Ends("failed")
  /\ UNCHANGED <<now, policy, report, rows, sched, cancel, up, sent, budget>>

\* An answer that is cut, or goes on for ever, is awaited for ever.
SendHangs ==
  /\ At("send") /\ Fault
  /\ Posted(0, FALSE) /\ Goes("hung")
  /\ UNCHANGED <<now, policy, report, rows, sched, cancel, up>>

\* Mutant: a message without an answer is sent again.
AfterFinishAgain(result) == IF result = "unknown" THEN "send" ELSE "settle"

AfterFinish(result) == "settle"

\* finish: notification and occurrence in one transaction.
Finish ==
  LET o == handler.occ IN
  /\ At("finish")
  /\ ntf' = [ntf EXCEPT ![o] = IF @ = "sending" THEN handler.result ELSE @]
  /\ occ' = [occ EXCEPT ![o] = IF ntf[o] = "sending" /\ @ = "queued" THEN handler.result ELSE @]
  /\ Goes(AfterFinish(handler.result))
  /\ UNCHANGED <<now, policy, report, job, sched, cancel, up, sent, budget>>

\* The first finish is rejected: the catch block files the message as failed.
FinishFails ==
  /\ At("finish") /\ handler.result = "succeeded" /\ Fault
  /\ handler' = [handler EXCEPT !.result = "failed"]
  /\ UNCHANGED <<now, policy, report, rows, sched, cancel, up, sent>>

\* Another statement is rejected: the read, the claim, the progress after it, or the
\* finish of the catch block.
HandlerThrows ==
  /\ up /\ handler.pc \in {"load", "claim", "send", "finish"} /\ Fault
  /\ handler.pc = "send" => handler.calls = 0
  /\ handler.pc = "finish" => handler.result # "succeeded"
  /\ handler' = [handler EXCEPT !.pc = "settle", !.result = "unknown"]
  /\ UNCHANGED <<now, policy, report, rows, sched, cancel, up, sent>>

\* The runner writes the row; an outcome in doubt is followed by the mark.
Settle ==
  LET o == handler.occ  doubt == handler.result = "unknown" IN
  /\ At("settle")
  /\ job' = [job EXCEPT ![o] = IF doubt THEN "unknown" ELSE "succeeded"]
  /\ handler' = IF doubt THEN [handler EXCEPT !.pc = "mark"] ELSE IdleHandler
  /\ UNCHANGED <<now, policy, report, occ, ntf, sched, cancel, up, sent, budget>>

\* Mutant: only the notification is marked.
MarkNotification ==
  LET o == handler.occ IN
  /\ handler.pc = "mark"
  /\ ntf' = [ntf EXCEPT ![o] = IF @ = "sending" THEN "unknown" ELSE @]
  /\ handler' = IdleHandler
  /\ UNCHANGED <<now, policy, report, occ, job, sched, cancel, up, sent, budget>>

\* markManualReviewTarget, after the execution or at the boot
Mark ==
  LET o == handler.occ IN
  /\ handler.pc = "mark"
  /\ ntf' = [ntf EXCEPT ![o] = IF @ = "sending" THEN "unknown" ELSE @]
  /\ occ' = [occ EXCEPT ![o] = IF @ = "queued" THEN "unknown" ELSE @]
  /\ handler' = IdleHandler
  /\ UNCHANGED <<now, policy, report, job, sched, cancel, up, sent, budget>>

----------------------------------------------------------------------------
(* The cancel endpoint, crash and restart *)

\* requestCancel for a queued job; the handler has no onQueuedCancellation.
CancelRead(o) ==
  /\ up /\ cancel = NoOcc /\ job[o] = "queued"
  /\ budget.cancels > 0 /\ budget' = [budget EXCEPT !.cancels = @ - 1]
  /\ cancel' = o
  /\ UNCHANGED <<now, policy, report, rows, sched, handler, up, sent>>

CancelWrite ==
  /\ up /\ cancel # NoOcc
  /\ job' = [job EXCEPT ![cancel] = "cancelled"] /\ cancel' = NoOcc
  /\ UNCHANGED <<now, policy, report, occ, ntf, sched, handler, up, sent, budget>>

\* A death between the update of the job and the mark leaves the occurrence unmarked.
Crash ==
  /\ up \/ handler.pc = "mark"
  /\ budget.faults > 0
  /\ budget' = [budget EXCEPT !.faults = @ - 1,
                  !.unmarked = @ \union (IF handler.pc = "mark" THEN {handler.occ} ELSE {})]
  /\ up' = FALSE /\ sched' = IdleSched /\ handler' = IdleHandler /\ cancel' = NoOcc
  /\ UNCHANGED <<now, policy, report, rows, sent>>

\* onApplicationBootstrap finds the job that was running, and then marks it.
Recover(o) ==
  /\ ~up /\ handler.pc = "idle" /\ job[o] = "running"
  /\ job' = [job EXCEPT ![o] = "unknown"]
  /\ handler' = [IdleHandler EXCEPT !.occ = o, !.pc = "mark", !.result = "unknown"]
  /\ UNCHANGED <<now, policy, report, occ, ntf, sched, cancel, up, sent, budget>>

Restart ==
  /\ ~up /\ handler.pc = "idle" /\ \A o \in Occurrences : job[o] # "running"
  /\ up' = TRUE
  /\ UNCHANGED <<now, policy, report, rows, sched, handler, cancel, sent, budget>>

----------------------------------------------------------------------------
Reconcile == Begin \/ CancelStale \/ Plan \/ ListDue \/ Decide \/ Apply
Handler ==
  \/ (\E o \in Occurrences : Start(o)) \/ Load \/ Claim \/ Send \/ Refused \/ Finish
  \/ Settle \/ Mark
User == UpdatePolicy \/ (\E w \in Weeks : ReportChanges(w)) \/ \E o \in Occurrences : CancelRead(o)
Faults == SendHangs \/ FinishFails \/ HandlerThrows \/ Crash
Boot == Restart \/ \E o \in Occurrences : Recover(o)

Next == Tick \/ User \/ Reconcile \/ Handler \/ CancelWrite \/ Faults \/ Boot

Spec == Init /\ [][Next]_vars

\* reconcile runs every thirty seconds and ends, the runner polls, the clock goes
\* on, and a service that died is started again.
FairSpec == Spec /\ WF_vars(Tick) /\ WF_vars(Reconcile) /\ WF_vars(Handler) /\ WF_vars(Boot)

----------------------------------------------------------------------------
(* Properties *)

\* What the settings page shows is true: a reminder that is shown as cancelled or
\* skipped was never posted, one shown as sent was accepted, and while one is being
\* sent it is shown as queued (weekly-report-notification.handler.ts:184).
PageTells ==
  \A o \in Occurrences :
    /\ occ[o] \in {"absent", "planned", "skipped", "cancelled"} => sent[o].calls = 0
    /\ occ[o] = "succeeded" => sent[o].accepted
    /\ ntf[o] = "sending" => occ[o] = "queued"
    /\ ntf[o] \in {"succeeded", "failed", "skipped", "cancelled"} => occ[o] = ntf[o]

\* A message is posted again only when the robot has answered every POST of it with
\* 429, a rate limit or a server error, and MaxCalls times in all (phase-4c3b1:11-22):
\* one whose outcome is in doubt is left to a human, and no planning, crash or change of
\* the policy revives it (phase-4c3b3b2:42).  And its sending never begins under a policy
\* that has been changed or disabled since it was planned, whatever reconcile had read
\* before (:38).  A server error after the delivery still doubles the message.
PostedAsPlanned ==
  [][\A o \in Occurrences :
       /\ sent'[o].calls <= MaxCalls
       /\ sent'[o].calls > sent[o].calls => sent[o].calls = sent[o].busy
       /\ ntf[o] # "sending" /\ ntf'[o] = "sending" =>
            policy.enabled /\ policy.version = o.v]_vars

\* A reminder that is due is decided, and one that is queued ends, over any number of
\* deaths, unless the cancel endpoint has taken its job away, a process died between the
\* update of its job and the mark (job-runner.service.ts:33-51, 152-179), or an answer of
\* the robot never ends (secure-http.service.ts:156).
ReminderEnds ==
  \A o \in Occurrences :
    occ[o] \in {"planned", "queued"} /\ ScheduledFor(o) <= now ~>
      \/ occ[o] \in OccFinal \/ job[o] = "cancelled" \/ o \in budget.unmarked
      \/ occ[o] = "queued" /\ handler.pc = "hung"

----------------------------------------------------------------------------
(* The inductive invariant *)

\* The policy is still the one that planned the occurrence.
Current(o) == policy.enabled /\ policy.version = o.v

\* What waits in one table waits in the others; and it waits under the policy
\* that planned it, unless it is being sent.
WaitTogether ==
  \A o \in Occurrences :
    /\ job[o] = "queued" => occ[o] = "queued" /\ ntf[o] = "queued"
    /\ occ[o] = "queued" => ntf[o] \in {"queued", "sending"}
    /\ occ[o] = "queued" /\ ntf[o] # "sending" => Current(o)

\* What reconcile has read: stale are only rows that were never queued, and what
\* it means to queue is still planned under the policy only if that is current.
ReconcileIsCurrent ==
  /\ \A s \in sched.stale : s[2] = "planned"
  /\ sched.pc # "due" => sched.due = {} /\ sched.pick = NoOcc
  /\ \A d \in sched.due : d[2] /\ occ[d[1]] = "planned" => Current(d[1])
  /\ sched.pick # NoOcc /\ sched.plan = "queue" /\ occ[sched.pick] = "planned" =>
       Current(sched.pick)

\* The job that is executed, or cancelled, exists; until it is claimed the
\* notification waits or was cancelled with its occurrence, from then on it is being
\* sent, and every POST before the next one was answered "later".
HandlerInOrder ==
  LET o == handler.occ IN
  /\ handler.pc # "idle" => o \in Occurrences /\ job[o] \notin {"absent", "queued"}
  /\ handler.pc \in {"load", "claim"} =>
       ntf[o] = occ[o] /\ occ[o] \in {"queued", "cancelled"} /\ handler.calls = 0
  /\ handler.pc \in {"send", "hung", "finish"} => ntf[o] = "sending"
  /\ handler.pc = "send" =>
       sent[o].calls = handler.calls /\ sent[o].busy = handler.calls /\ handler.calls < MaxCalls
  /\ handler.pc = "finish" =>
       handler.result # "none" /\ (handler.result = "succeeded" => sent[o].accepted)
  /\ cancel # NoOcc => job[cancel] # "absent"

\* Nothing is posted that is not being sent, nor more often than the client may.
PostsInOrder ==
  \A o \in Occurrences :
    /\ sent[o].busy <= sent[o].calls /\ sent[o].calls <= MaxCalls
    /\ sent[o].calls > 0 => ntf[o] \in {"sending", "succeeded", "failed", "unknown"}

IInv ==
  /\ TypeOK /\ WaitTogether /\ ReconcileIsCurrent /\ HandlerInOrder /\ PostsInOrder /\ PageTells

=============================================================================
