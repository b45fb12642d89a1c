--------------------------- MODULE GitBatchProofs ---------------------------
(* Theorems about GitBatch, for every number of repositories, every set of  *)
(* actions and initial working copies, and every value of the bounds.       *)
EXTENDS GitBatch, TLAPS

USE GitBatchAssumption

----------------------------------------------------------------------------
(* What the operators of git and of the engine do *)

\* A command that git accepts makes a repository of a repository.
LEMMA ResultType ==
  ASSUME NEW a \in AllActions, NEW r \in Repository, Accepts(a, r)
  PROVE  Result(a, r) \in Repository
<1> USE DEF Repository, Commits, CommitOrNone
<1>0. 0 \in 0..2 /\ 2 \in 0..2
  OBVIOUS
<1>1. CASE a = "fetch_prune" BY <1>1 DEF Result
<1>2. CASE a = "pull_ff_only" BY <1>2 DEF Result, Accepts
<1>3. CASE a = "create_branch" BY <1>3 DEF Result
<1>4. CASE a = "checkout" BY <1>4 DEF Result
<1>5. CASE a = "push" BY <1>5 DEF Result
<1>6. CASE a = "push_set_upstream" BY <1>6 DEF Result
<1>7. CASE a = "stash_create" BY <1>0, <1>7 DEF Result
<1>8. CASE a = "stash_apply" BY <1>8 DEF Result
<1>9. CASE a = "stage_paths" BY <1>0, <1>9 DEF Result
<1>10. CASE a = "commit" BY <1>0, <1>10 DEF Result
<1> QED
  BY <1>1, <1>2, <1>3, <1>4, <1>5, <1>6, <1>7, <1>8, <1>9, <1>10 DEF AllActions

LEMMA FactsType ==
  ASSUME NEW a \in AllActions, NEW r \in Repository, NEW x \in BOOLEAN
  PROVE  Facts(a, r, x) \in FactLists
<1>1. \A u, v \in CommitOrNone : <<u, v>> \in FactLists /\ <<u>> \in FactLists
  BY DEF FactLists
<1>2. << >> \in FactLists
  BY DEF FactLists
<1>3. /\ r.main \in CommitOrNone /\ r.topic \in CommitOrNone
      /\ r.tracking \in CommitOrNone /\ r.remote \in CommitOrNone
  BY DEF Repository, CommitOrNone
<1> QED BY <1>1, <1>2, <1>3 DEF Facts

LEMMA SnapshotType ==
  ASSUME NEW a \in AllActions, NEW r \in Repository, NEW x \in BOOLEAN
  PROVE  Snapshot(a, r, x) \in Snapshots
<1>1. Head(r) \in CommitOrNone /\ r.tracking \in CommitOrNone /\ Tracked(r) \in BOOLEAN
  BY DEF Repository, CommitOrNone, Head, Tracked
<1> QED BY <1>1, FactsType DEF Snapshot, Snapshots, Repository, CommitOrNone

LEMMA EditsType ==
  ASSUME NEW r \in Repository, NEW e \in Edits(r)
  PROVE  e \in Repository
<1>1. 0 \in 0..2 /\ 2 \in 0..2
  OBVIOUS
<1> USE DEF Repository, Commits, CommitOrNone
<1>2. [r EXCEPT !.staged = 2] \in Repository /\ [r EXCEPT !.main = "ours", !.staged = 0] \in Repository
  BY <1>1
<1>3. [r EXCEPT !.remote = "theirs"] \in Repository /\ [r EXCEPT !.tracking = r.remote] \in Repository
  OBVIOUS
<1>4. [r EXCEPT !.same = FALSE] \in Repository /\ [r EXCEPT !.listed = FALSE] \in Repository
  OBVIOUS
<1> HIDE DEF Repository
<1> QED BY <1>2, <1>3, <1>4 DEF Edits

\* An action that is already satisfied has reached its goal; setting an upstream
\* is the exception.
LEMMA SatisfiedIsGoal ==
  ASSUME NEW a \in AllActions, NEW r \in Repository, NEW x \in BOOLEAN,
         Plan(a, r, x).satisfied, ~Plan(a, r, x).blocked, a # "push_set_upstream"
  PROVE  Goal(a, r)
<1> USE DEF Decision, Goal, Plan, Repository
<1>1. CASE a = "pull_ff_only" BY <1>1 DEF PlanPull, IsAncestor
<1>2. CASE a \in {"create_branch", "checkout"} BY <1>2 DEF PlanBranch
<1>3. CASE a = "push" BY <1>3 DEF PlanPush, IsAncestor
<1>4. CASE a = "stash_create" BY <1>4 DEF PlanFiles
<1> QED BY <1>1, <1>2, <1>3, <1>4 DEF AllActions

\* The repositories of two unblocked plans with the same snapshot agree on what
\* the user reviewed.
LEMMA SameAsReviewed ==
  ASSUME NEW a \in AllActions, NEW r \in Repository, NEW s \in Repository,
         NEW x \in BOOLEAN, NEW y \in BOOLEAN,
         Snapshot(a, r, x) = Snapshot(a, s, y),
         ~Plan(a, r, x).blocked, ~Plan(a, s, y).blocked
  PROVE  AsReviewed(a, r, s)
<1>1. /\ Head(r) = Head(s) /\ r.on = s.on /\ r.staged = s.staged /\ r.conflict = s.conflict
      /\ Facts(a, r, x) = Facts(a, s, y) /\ Tracked(r) = Tracked(s)
  BY DEF Snapshot
<1>2. CASE a \in {"push", "push_set_upstream"}
  <2>1. x /\ y
    BY <1>2 DEF Plan, PlanPush, Decision
  <2>2. <<r.main, r.remote>> = <<s.main, s.remote>>
    BY <1>1, <1>2, <2>1 DEF Facts
  <2> QED BY <1>1, <2>2 DEF AsReviewed
<1>3. CASE a = "pull_ff_only"
  <2>1. x /\ y /\ Tracked(r) /\ Tracked(s)
    BY <1>3 DEF Plan, PlanPull, Decision
  <2>2. <<r.remote>> = <<s.remote>>
    BY <1>1, <1>3, <2>1 DEF Facts
  <2> QED BY <1>1, <2>1, <2>2 DEF AsReviewed, Tracked, Head
<1>4. CASE a \notin {"push", "push_set_upstream", "pull_ff_only"}
  BY <1>1, <1>4 DEF AsReviewed
<1> QED BY <1>2, <1>3, <1>4

LEMMA Verdicts ==
  ASSUME NEW a \in AllActions, NEW r \in Repository, NEW s, NEW x \in BOOLEAN
  PROVE  /\ Verdict(a, r, s, x) \in {"stale_preview", "blocked", "already_satisfied", "none"}
         /\ Verdict(a, r, s, x) = "already_satisfied" =>
              Plan(a, r, x).satisfied /\ ~Plan(a, r, x).blocked
         /\ Verdict(a, r, s, x) = "none" =>
              Snapshot(a, r, x) = s /\ ~Plan(a, r, x).blocked
BY DEF Verdict

LEMMA FinalStatusEnds ==
  ASSUME NEW R
  PROVE  FinalStatus(R) \in Ended /\ ("needs_review" \in R => FinalStatus(R) = "needs_review")
BY DEF FinalStatus, Ended

----------------------------------------------------------------------------
(* Updates of the rows *)

LEMMA StatusUpdate ==
  ASSUME NEW b \in BatchRow, NEW s \in BatchStatus
  PROVE  /\ [b EXCEPT !.status = s] \in BatchRow
         /\ [b EXCEPT !.status = s, !.version = @ + 1] \in BatchRow
         /\ [b EXCEPT !.status = s, !.started = TRUE, !.version = @ + 1] \in BatchRow
         /\ b.version \in Nat
<1>1. b.version \in Nat /\ b.version + 1 \in Nat
  BY DEF BatchRow
<1>2. [b EXCEPT !.status = s] \in BatchRow
  BY DEF BatchRow
<1>3. [b EXCEPT !.status = s, !.version = @ + 1] \in BatchRow
  BY <1>1 DEF BatchRow
<1>4. [b EXCEPT !.status = s, !.started = TRUE, !.version = @ + 1] \in BatchRow
  BY <1>1 DEF BatchRow
<1> QED BY <1>1, <1>2, <1>3, <1>4

LEMMA Statuses ==
  /\ {"none", "previewing", "preview_failed", "previewed", "expired", "cancelled",
      "approved", "running", "needs_review"} \subseteq BatchStatus
  /\ Ended \subseteq BatchStatus
BY DEF BatchStatus, Ended

LEMMA ReviewedType ==
  ASSUME batch \in BatchRow
  PROVE  /\ Reviewed \in BatchRow
         /\ Reviewed.action = batch.action /\ Reviewed.started = batch.started
         /\ Reviewed.version >= batch.version
         /\ \/ Reviewed = batch
            \/ /\ batch.status = "running" /\ Reviewed.status = "needs_review"
               /\ Reviewed.version > batch.version
<1>1. CASE batch.status = "running"
  <2>1. Reviewed = [batch EXCEPT !.status = "needs_review", !.version = @ + 1]
    BY <1>1 DEF Reviewed
  <2>2. Reviewed \in BatchRow /\ batch.version \in Nat
    BY <2>1, StatusUpdate, Statuses
  <2>3. /\ Reviewed.status = "needs_review" /\ Reviewed.version = batch.version + 1
        /\ Reviewed.action = batch.action /\ Reviewed.started = batch.started
    BY <2>1 DEF BatchRow
  <2> QED BY <1>1, <2>2, <2>3
<1>2. CASE batch.status # "running"
  BY <1>2 DEF Reviewed, BatchRow
<1> QED BY <1>1, <1>2

LEMMA JobUpdates ==
  ASSUME NEW j \in JobRow
  PROVE  /\ \A s \in JobStatus : [j EXCEPT !.status = s] \in JobRow
         /\ \A s \in JobStatus : [j EXCEPT !.status = s].cancel = j.cancel
         /\ \A s \in JobStatus : [j EXCEPT !.status = s, !.attempts = @ + 1] \in JobRow
         /\ [j EXCEPT !.cancel = TRUE] \in JobRow
         /\ CancelledJob(j) \in JobRow
<1>1. j.attempts + 1 \in Nat
  BY DEF JobRow
<1>2. \A s \in JobStatus : /\ [j EXCEPT !.status = s] \in JobRow
                          /\ [j EXCEPT !.status = s].cancel = j.cancel
  BY DEF JobRow
<1>3. \A s \in JobStatus : [j EXCEPT !.status = s, !.attempts = @ + 1] \in JobRow
  BY <1>1 DEF JobRow
<1>4. [j EXCEPT !.cancel = TRUE] \in JobRow
  BY DEF JobRow
<1>5. CancelledJob(j) \in JobRow
  BY DEF JobRow, JobStatus, CancelledJob
<1> QED BY <1>2, <1>3, <1>4, <1>5

LEMMA ItemUpdates ==
  ASSUME NEW i \in ItemRow
  PROVE  /\ \A s \in ItemStatus \union Results : [i EXCEPT !.status = s] \in ItemRow
         /\ \A r \in Results : [i EXCEPT !.status = r, !.result = r] \in ItemRow
BY DEF ItemRow

LEMMA SelectedType ==
  ASSUME NEW i \in ItemRow, NEW c \in BOOLEAN
  PROVE  /\ Selected(i, c) \in ItemRow /\ Selected(i, c).selected = c
         /\ Selected(i, c).executable = i.executable /\ Selected(i, c).snap = i.snap
         /\ c => Selected(i, c).result = i.result
         /\ ~c => Selected(i, c).result = "skipped_by_user"
BY DEF Selected, ItemRow, ItemStatus, Results

LEMMA HandlerUpdates ==
  /\ IdlePreview \in PreviewState /\ IdleExecution \in ExecutionState
  /\ NoRequest \in Requests /\ NoApproval \in [version: Nat, chosen: SUBSET Items]
BY DEF IdlePreview, IdleExecution, NoRequest, NoApproval, PreviewState, ExecutionState, Requests

LEMMA TypesNext ==
  ASSUME batch' \in BatchRow, item' \in [Items -> ItemRow], pjob' \in JobRow, ejob' \in JobRow,
         pv' \in PreviewState, ex' \in ExecutionState, request' \in Requests, up' \in BOOLEAN,
         repo' \in [Items -> Repository], seen' \in [Items -> History], budget' \in Budget
  PROVE  TypeOK'
BY DEF TypeOK

\* A fault spends a trouble and nothing else.
LEMMA FaultType ==
  ASSUME budget \in Budget, budget' = budget \/ Fault
  PROVE  budget' \in Budget /\ budget'.cancel = budget.cancel
<1>1. CASE Fault
  <2>1. budget.troubles \in Nat /\ budget.troubles > 0
    BY <1>1 DEF Fault, Budget
  <2>2. budget.troubles - 1 \in Nat
    BY <2>1
  <2> QED BY <1>1, <2>2 DEF Fault, Budget
<1> QED BY <1>1

\* A step that ends a handler, writes a job, marks the batch or starts the service
\* leaves the items, the repositories and the requests alone.
LEMMA BehindTheScenes ==
  ASSUME IInv, UNCHANGED <<item, request, repo, seen>>,
         batch' = batch \/ (batch' = Reviewed /\ ex'.pc = "idle"),
         pjob' \in JobRow, ejob' \in JobRow, pjob'.cancel = pjob.cancel,
         pv' = pv \/ (pv' \in PreviewState /\ pv'.pc \in {"idle", "thrown"}),
         ex' = ex \/ (ex' \in ExecutionState /\ ex'.pc \in {"idle", "return", "thrown", "mark"}),
         budget' \in Budget, budget'.cancel = budget.cancel,
         up' \in BOOLEAN, up' \/ (pv'.pc = "idle" /\ ex'.pc \in {"idle", "mark"})
  PROVE  IInv'
<1>0. TypeOK /\ batch \in BatchRow
  BY DEF IInv, TypeOK
<1>1. /\ batch' \in BatchRow /\ batch'.action = batch.action /\ batch'.started = batch.started
      /\ batch'.version >= batch.version
      /\ \/ batch' = batch
         \/ /\ batch.status = "running" /\ batch'.status = "needs_review" /\ ex'.pc = "idle"
            /\ batch'.version > batch.version
  <2>1. batch.version \in Nat
    BY <1>0 DEF BatchRow
  <2> QED BY <1>0, <2>1, ReviewedType
<1>2. /\ pv' = pv \/ pv'.pc \in {"idle", "thrown"}
      /\ ex' = ex \/ ex'.pc \in {"idle", "return", "thrown", "mark"}
  OBVIOUS
<1>11. TypeOK'
  BY <1>0, <1>1 DEF TypeOK
<1>12. Stages'
  BY <1>1, <1>2 DEF IInv, Stages, Previewing, Executing
<1>13. Unstarted'
  BY <1>1, <1>2 DEF IInv, Unstarted, Stages, Previewing
<1>14. Approvable'
  BY <1>0, <1>1 DEF IInv, Approvable, TypeOK, BatchRow, Requests
<1>15. Scanned'
  BY <1>1, <1>2 DEF IInv, Scanned, Whole
<1>16. Walked'
  <2>1. CASE batch' = batch /\ ex' = ex
    BY <2>1 DEF IInv, Walked, Untouched, Settled
  <2>2. CASE ex'.pc \in {"idle", "return", "thrown", "mark"}
    BY <2>2 DEF Walked
  <2> QED BY <1>1, <1>2, <2>1, <2>2
<1>17. ASSUME NEW k \in Items PROVE Planned(k)' /\ Chosen(k)'
  BY <1>1, <1>17 DEF IInv, Planned, Chosen
<1>18. WrittenAsApproved'
  BY <1>1 DEF IInv, WrittenAsApproved
<1>19. ResultTells'
  BY <1>1 DEF IInv, ResultTells, Tells, DoubtIsReviewed
<1> QED BY <1>11, <1>12, <1>13, <1>14, <1>15, <1>16, <1>17, <1>18, <1>19 DEF IInv

LEMMA CreatePreviewStep == ASSUME IInv, NEW a \in Actions, CreatePreview(a) PROVE IInv'
<1> USE DEF CreatePreview, jobVars
<1>0. TypeOK /\ batch \in BatchRow /\ item \in [Items -> ItemRow] /\ pjob \in JobRow /\ ejob \in JobRow
      /\ pv \in PreviewState /\ ex \in ExecutionState /\ request \in Requests /\ budget \in Budget
      /\ seen \in [Items -> History] /\ repo \in [Items -> Repository] /\ up \in BOOLEAN
  BY DEF IInv, TypeOK
<1>1. TypeOK'
  <2>1. batch' \in BatchRow
    BY <1>0 DEF BatchRow, BatchStatus
  <2>2. pjob' \in JobRow
    BY <1>0, JobUpdates DEF JobStatus
  <2> QED BY <1>0, <2>1, <2>2, TypesNext
<1>2. Stages'
  BY DEF IInv, Stages, Previewing, Executing
<1>3. Unstarted'
  BY DEF IInv, Unstarted
<1>4. Approvable'
  BY <1>0 DEF IInv, Approvable, Unstarted, Requests
<1>5. Scanned'
  BY DEF IInv, Scanned, Stages, Previewing
<1>6. Walked'
  BY DEF IInv, Walked, Stages, Unstarted, Executing
<1>7. ASSUME NEW k \in Items PROVE Planned(k)' /\ Chosen(k)'
  BY DEF IInv, Planned, Chosen, Unstarted
<1>8. WrittenAsApproved'
  BY DEF IInv, WrittenAsApproved, Unstarted
<1>9. ResultTells'
  BY DEF IInv, ResultTells, DoubtIsReviewed, Unstarted
<1> QED BY <1>1, <1>2, <1>3, <1>4, <1>5, <1>6, <1>7, <1>8, <1>9 DEF IInv

LEMMA TimeStep == ASSUME IInv, Time PROVE IInv'
<1> USE DEF Time, jobVars
<1>0. TypeOK /\ batch \in BatchRow /\ item \in [Items -> ItemRow] /\ pjob \in JobRow /\ ejob \in JobRow
      /\ pv \in PreviewState /\ ex \in ExecutionState /\ request \in Requests /\ budget \in Budget
      /\ seen \in [Items -> History] /\ repo \in [Items -> Repository] /\ up \in BOOLEAN
  BY DEF IInv, TypeOK
<1>1. TypeOK'
  <2>1. batch' \in BatchRow
    BY <1>0 DEF BatchRow
  <2> QED BY <1>0, <2>1, TypesNext
<1>2. Stages'
  BY DEF IInv, Stages, Previewing, Executing
<1>3. Unstarted'
  BY DEF IInv, Unstarted
<1>4. Approvable'
  BY DEF IInv, Approvable
<1>5. Scanned'
  BY DEF IInv, Scanned, Whole
<1>6. Walked'
  BY DEF IInv, Walked, Stages, Unstarted, Executing
<1>7. ASSUME NEW k \in Items PROVE Planned(k)' /\ Chosen(k)'
  BY DEF IInv, Planned, Chosen
<1>8. WrittenAsApproved'
  BY DEF IInv, WrittenAsApproved
<1>9. ResultTells'
  BY DEF IInv, ResultTells, DoubtIsReviewed
<1> QED BY <1>1, <1>2, <1>3, <1>4, <1>5, <1>6, <1>7, <1>8, <1>9 DEF IInv

LEMMA ExpireStep == ASSUME IInv, Expire PROVE IInv'
<1> USE DEF Expire, jobVars
<1>0. TypeOK /\ batch \in BatchRow /\ item \in [Items -> ItemRow] /\ pjob \in JobRow /\ ejob \in JobRow
      /\ pv \in PreviewState /\ ex \in ExecutionState /\ request \in Requests /\ budget \in Budget
      /\ seen \in [Items -> History] /\ repo \in [Items -> Repository] /\ up \in BOOLEAN
  BY DEF IInv, TypeOK
<1>1. TypeOK'
  <2>1. batch' \in BatchRow
    <3>1. "expired" \in BatchStatus
      BY Statuses
    <3> QED BY <1>0, <3>1, StatusUpdate
  <2> QED BY <1>0, <2>1, TypesNext
<1>2. Stages'
  BY DEF IInv, Stages, Previewing, Executing
<1>3. Unstarted'
  BY DEF IInv, Unstarted
<1>4. Approvable'
  BY <1>0 DEF IInv, Approvable, BatchRow, Requests
<1>5. Scanned'
  BY DEF IInv, Scanned, Stages, Previewing
<1>6. Walked'
  BY DEF IInv, Walked, Stages, Unstarted, Executing
<1>7. ASSUME NEW k \in Items PROVE Planned(k)' /\ Chosen(k)'
  BY DEF IInv, Planned, Chosen
<1>8. WrittenAsApproved'
  BY DEF IInv, WrittenAsApproved
<1>9. ResultTells'
  BY DEF IInv, ResultTells, DoubtIsReviewed
<1> QED BY <1>1, <1>2, <1>3, <1>4, <1>5, <1>6, <1>7, <1>8, <1>9 DEF IInv

LEMMA ApproveReadStep == ASSUME IInv, NEW chosen \in SUBSET Items, ApproveRead(chosen) PROVE IInv'
<1> USE DEF ApproveRead, jobVars
<1>0. TypeOK /\ batch \in BatchRow /\ item \in [Items -> ItemRow] /\ pjob \in JobRow /\ ejob \in JobRow
      /\ pv \in PreviewState /\ ex \in ExecutionState /\ request \in Requests /\ budget \in Budget
      /\ seen \in [Items -> History] /\ repo \in [Items -> Repository] /\ up \in BOOLEAN
  BY DEF IInv, TypeOK
<1>1. TypeOK'
  <2>1. request' \in Requests
    BY <1>0 DEF Requests, BatchRow
  <2> QED BY <1>0, <2>1, TypesNext
<1>2. Stages'
  BY DEF IInv, Stages, Previewing, Executing
<1>3. Unstarted'
  BY DEF IInv, Unstarted
<1>4. Approvable'
  BY <1>0 DEF Approvable, BatchRow
<1>5. Scanned'
  BY DEF IInv, Scanned, Whole
<1>6. Walked'
  BY DEF IInv, Walked, Stages, Unstarted, Executing
<1>7. ASSUME NEW k \in Items PROVE Planned(k)' /\ Chosen(k)'
  BY DEF IInv, Planned, Chosen
<1>8. WrittenAsApproved'
  BY DEF IInv, WrittenAsApproved
<1>9. ResultTells'
  BY DEF IInv, ResultTells, DoubtIsReviewed
<1> QED BY <1>1, <1>2, <1>3, <1>4, <1>5, <1>6, <1>7, <1>8, <1>9 DEF IInv

LEMMA CancelReadStep == ASSUME IInv, CancelRead PROVE IInv'
<1> USE DEF CancelRead, jobVars
<1>0. TypeOK /\ batch \in BatchRow /\ item \in [Items -> ItemRow] /\ pjob \in JobRow /\ ejob \in JobRow
      /\ pv \in PreviewState /\ ex \in ExecutionState /\ request \in Requests /\ budget \in Budget
      /\ seen \in [Items -> History] /\ repo \in [Items -> Repository] /\ up \in BOOLEAN
  BY DEF IInv, TypeOK
<1>1. TypeOK'
  <2>1. request' \in Requests
    BY <1>0 DEF Requests
  <2> QED BY <1>0, <2>1, TypesNext
<1>2. Stages'
  BY DEF IInv, Stages, Previewing, Executing
<1>3. Unstarted'
  BY DEF IInv, Unstarted, Previewing
<1>4. Approvable'
  BY DEF IInv, Approvable
<1>5. Scanned'
  BY DEF IInv, Scanned, Whole
<1>6. Walked'
  BY DEF IInv, Walked, Stages, Executing
<1>7. ASSUME NEW k \in Items PROVE Planned(k)' /\ Chosen(k)'
  BY DEF IInv, Planned, Chosen
<1>8. WrittenAsApproved'
  BY DEF IInv, WrittenAsApproved
<1>9. ResultTells'
  BY DEF IInv, ResultTells, DoubtIsReviewed
<1> QED BY <1>1, <1>2, <1>3, <1>4, <1>5, <1>6, <1>7, <1>8, <1>9 DEF IInv

LEMMA CancelWriteStep == ASSUME IInv, CancelWrite PROVE IInv'
<1> USE DEF CancelWrite, CancelledJob, jobVars
<1>0. TypeOK /\ batch \in BatchRow /\ item \in [Items -> ItemRow] /\ pjob \in JobRow /\ ejob \in JobRow
      /\ pv \in PreviewState /\ ex \in ExecutionState /\ request \in Requests /\ budget \in Budget
      /\ seen \in [Items -> History] /\ repo \in [Items -> Repository] /\ up \in BOOLEAN
  BY DEF IInv, TypeOK
<1>1. TypeOK'
  <2>1. batch' \in BatchRow
    <3>1. "cancelled" \in BatchStatus
      BY Statuses
    <3> QED BY <1>0, <3>1, StatusUpdate
  <2>2. pjob' \in JobRow /\ ejob' \in JobRow
    BY <1>0, JobUpdates
  <2>3. request' \in Requests
    BY <1>0 DEF Requests
  <2>4. budget' \in Budget
    BY <1>0 DEF Budget
  <2> QED BY <1>0, <2>1, <2>2, <2>3, <2>4, TypesNext
<1>2. Stages'
  BY DEF IInv, Stages, Previewing, Executing
<1>3. Unstarted'
  BY DEF IInv, Unstarted, Previewing
<1>4. Approvable'
  BY <1>0 DEF IInv, Approvable, BatchRow, Requests
<1>5. Scanned'
  BY DEF IInv, Scanned, Whole
<1>6. Walked'
  BY DEF IInv, Walked, Untouched, Settled
<1>7. ASSUME NEW k \in Items PROVE Planned(k)' /\ Chosen(k)'
  BY DEF IInv, Planned, Chosen
<1>8. WrittenAsApproved'
  BY DEF IInv, WrittenAsApproved
<1>9. ResultTells'
  BY DEF IInv, ResultTells, DoubtIsReviewed, Chosen, Unstarted
<1> QED BY <1>1, <1>2, <1>3, <1>4, <1>5, <1>6, <1>7, <1>8, <1>9 DEF IInv

LEMMA PreviewFinishStep == ASSUME IInv, PreviewFinish PROVE IInv'
<1> USE DEF PreviewFinish, jobVars
<1>0. TypeOK /\ batch \in BatchRow /\ item \in [Items -> ItemRow] /\ pjob \in JobRow /\ ejob \in JobRow
      /\ pv \in PreviewState /\ ex \in ExecutionState /\ request \in Requests /\ budget \in Budget
      /\ seen \in [Items -> History] /\ repo \in [Items -> Repository] /\ up \in BOOLEAN
  BY DEF IInv, TypeOK
<1>1. TypeOK'
  <2>1. batch' \in BatchRow
    <3>1. "previewed" \in BatchStatus /\ "preview_failed" \in BatchStatus
      BY Statuses
    <3> QED BY <1>0, <3>1, StatusUpdate
  <2>2. pv' \in PreviewState
    BY <1>0 DEF PreviewState
  <2> QED BY <1>0, <2>1, <2>2, TypesNext
<1>2. Stages'
  BY DEF IInv, Stages, Previewing, Executing
<1>3. Unstarted'
  BY DEF IInv, Unstarted, Previewing
<1>4. Approvable'
  BY <1>0 DEF IInv, Approvable, BatchRow, Requests
<1>5. Scanned'
  BY DEF IInv, Scanned, Whole, Stages
<1>6. Walked'
  BY DEF IInv, Walked, Stages, Previewing, Executing
<1>7. ASSUME NEW k \in Items PROVE Planned(k)' /\ Chosen(k)'
  BY DEF IInv, Planned, Chosen
<1>8. WrittenAsApproved'
  BY DEF IInv, WrittenAsApproved
<1>9. ResultTells'
  BY DEF IInv, ResultTells, DoubtIsReviewed
<1> QED BY <1>1, <1>2, <1>3, <1>4, <1>5, <1>6, <1>7, <1>8, <1>9 DEF IInv

LEMMA PreviewReturnStep == ASSUME IInv, PreviewReturn PROVE IInv'
<1> USE DEF PreviewReturn, IdlePreview, jobVars
<1>0. TypeOK /\ batch \in BatchRow /\ item \in [Items -> ItemRow] /\ pjob \in JobRow /\ ejob \in JobRow
      /\ pv \in PreviewState /\ ex \in ExecutionState /\ request \in Requests /\ budget \in Budget
      /\ seen \in [Items -> History] /\ repo \in [Items -> Repository] /\ up \in BOOLEAN
  BY DEF IInv, TypeOK
<1>1. TypeOK'
  <2>1. pjob' \in JobRow
    BY <1>0, JobUpdates DEF JobStatus
  <2>2. pv' \in PreviewState
    BY HandlerUpdates
  <2> QED BY <1>0, <2>1, <2>2, TypesNext
<1>2. Stages'
  BY DEF IInv, Stages, Previewing, Executing
<1>3. Unstarted'
  BY DEF IInv, Unstarted, Previewing
<1>4. Approvable'
  BY DEF IInv, Approvable
<1>5. Scanned'
  BY DEF IInv, Scanned, Whole
<1>6. Walked'
  BY DEF IInv, Walked, Untouched, Settled
<1>7. ASSUME NEW k \in Items PROVE Planned(k)' /\ Chosen(k)'
  BY DEF IInv, Planned, Chosen
<1>8. WrittenAsApproved'
  BY DEF IInv, WrittenAsApproved
<1>9. ResultTells'
  BY DEF IInv, ResultTells, DoubtIsReviewed
<1> QED BY <1>1, <1>2, <1>3, <1>4, <1>5, <1>6, <1>7, <1>8, <1>9 DEF IInv

LEMMA ExecuteStartStep == ASSUME IInv, ExecuteStart PROVE IInv'
<1> USE DEF ExecuteStart, IdleExecution, jobVars
<1>0. TypeOK /\ batch \in BatchRow /\ item \in [Items -> ItemRow] /\ pjob \in JobRow /\ ejob \in JobRow
      /\ pv \in PreviewState /\ ex \in ExecutionState /\ request \in Requests /\ budget \in Budget
      /\ seen \in [Items -> History] /\ repo \in [Items -> Repository] /\ up \in BOOLEAN
  BY DEF IInv, TypeOK
<1>1. TypeOK'
  <2>1. ejob' \in JobRow
    BY <1>0, JobUpdates DEF JobStatus
  <2>2. ex' \in ExecutionState
    BY DEF ExecutionState
  <2> QED BY <1>0, <2>1, <2>2, TypesNext
<1>2. Stages'
  BY DEF IInv, Stages, Previewing, Executing
<1>3. Unstarted'
  BY DEF IInv, Unstarted, Previewing
<1>4. Approvable'
  BY DEF IInv, Approvable
<1>5. Scanned'
  BY DEF IInv, Scanned, Whole
<1>6. Walked'
  BY DEF Walked
<1>7. ASSUME NEW k \in Items PROVE Planned(k)' /\ Chosen(k)'
  BY DEF IInv, Planned, Chosen
<1>8. WrittenAsApproved'
  BY DEF IInv, WrittenAsApproved
<1>9. ResultTells'
  BY DEF IInv, ResultTells, DoubtIsReviewed
<1> QED BY <1>1, <1>2, <1>3, <1>4, <1>5, <1>6, <1>7, <1>8, <1>9 DEF IInv

LEMMA ExecuteReturnStep == ASSUME IInv, ExecuteReturn PROVE IInv'
<1> USE DEF ExecuteReturn, IdleExecution, jobVars
<1>0. TypeOK /\ batch \in BatchRow /\ item \in [Items -> ItemRow] /\ pjob \in JobRow /\ ejob \in JobRow
      /\ pv \in PreviewState /\ ex \in ExecutionState /\ request \in Requests /\ budget \in Budget
      /\ seen \in [Items -> History] /\ repo \in [Items -> Repository] /\ up \in BOOLEAN
  BY DEF IInv, TypeOK
<1>1. TypeOK'
  <2>1. ejob' \in JobRow
    BY <1>0, JobUpdates DEF JobStatus
  <2>2. ex' \in ExecutionState
    BY HandlerUpdates
  <2> QED BY <1>0, <2>1, <2>2, TypesNext
<1>2. Stages'
  BY DEF IInv, Stages, Previewing, Executing
<1>3. Unstarted'
  BY DEF IInv, Unstarted, Previewing
<1>4. Approvable'
  BY DEF IInv, Approvable
<1>5. Scanned'
  BY DEF IInv, Scanned, Whole
<1>6. Walked'
  BY DEF Walked
<1>7. ASSUME NEW k \in Items PROVE Planned(k)' /\ Chosen(k)'
  BY DEF IInv, Planned, Chosen
<1>8. WrittenAsApproved'
  BY DEF IInv, WrittenAsApproved
<1>9. ResultTells'
  BY DEF IInv, ResultTells, DoubtIsReviewed
<1> QED BY <1>1, <1>2, <1>3, <1>4, <1>5, <1>6, <1>7, <1>8, <1>9 DEF IInv

LEMMA ItemStatus1 ==
  ASSUME item \in [Items -> ItemRow], NEW k \in Items, NEW s \in ItemStatus,
         item' = [item EXCEPT ![k].status = s]
  PROVE  /\ item' \in [Items -> ItemRow]
         /\ item'[k].status = s
         /\ \A j \in Items : /\ item'[j].snap = item[j].snap
                             /\ item'[j].executable = item[j].executable
                             /\ item'[j].selected = item[j].selected
                             /\ item'[j].result = item[j].result
                             /\ j # k => item'[j] = item[j]
<1>1. [item[k] EXCEPT !.status = s] \in ItemRow
  BY ItemUpdates
<1>2. item' = [j \in Items |-> IF j = k THEN [item[k] EXCEPT !.status = s] ELSE item[j]]
  OBVIOUS
<1>3. item' \in [Items -> ItemRow]
  BY <1>1, <1>2
<1>4. item'[k].status = s
  BY <1>2 DEF ItemRow
<1>5. ASSUME NEW j \in Items
      PROVE  /\ item'[j].snap = item[j].snap /\ item'[j].executable = item[j].executable
             /\ item'[j].selected = item[j].selected /\ item'[j].result = item[j].result
             /\ j # k => item'[j] = item[j]
  BY <1>2, <1>5 DEF ItemRow
<1> QED BY <1>3, <1>4, <1>5

LEMMA PreviewItemStep == ASSUME IInv, PreviewItem PROVE IInv'
<1> USE DEF PreviewItem, jobVars
<1>0. TypeOK /\ batch \in BatchRow /\ item \in [Items -> ItemRow] /\ pjob \in JobRow /\ ejob \in JobRow
      /\ pv \in PreviewState /\ ex \in ExecutionState /\ request \in Requests /\ budget \in Budget
      /\ seen \in [Items -> History] /\ repo \in [Items -> Repository] /\ up \in BOOLEAN
  BY DEF IInv, TypeOK
<1>a. Previewing /\ ~Executing /\ ~batch.started /\ batch.status # "previewed"
      /\ pv.k >= 1 /\ pv.k \in 0..NumItems + 1
  BY <1>0 DEF IInv, Stages, Previewing, Executing, PreviewState
<1>b. /\ \A j \in Items : /\ item'[j].snap = item[j].snap /\ item'[j].executable = item[j].executable
                          /\ item'[j].selected = item[j].selected /\ item'[j].result = item[j].result
                          /\ j # pv.k => item'[j] = item[j]
      /\ item' \in [Items -> ItemRow]
      /\ \/ pv'.pc = "finish" /\ (pv.k > NumItems \/ pjob.cancel) /\ item' = item
         \/ pv'.pc = "plan" /\ pv.k \in Items
      /\ pv' \in PreviewState /\ pv'.k = pv.k
  <2>1. CASE pv.k > NumItems \/ pjob.cancel
    BY <1>0, <2>1 DEF PreviewState
  <2>2. CASE ~(pv.k > NumItems \/ pjob.cancel)
    <3>1. pv.k \in Items
      BY <1>a, <2>2 DEF Items
    <3>2. item' = [item EXCEPT ![pv.k].status = "previewing"] /\ "previewing" \in ItemStatus
      BY <2>2 DEF ItemStatus
    <3>3. pv' \in PreviewState /\ pv'.k = pv.k /\ pv'.pc = "plan"
      BY <1>0, <2>2 DEF PreviewState
    <3> QED BY <1>0, <3>1, <3>2, <3>3, ItemStatus1
  <2> QED BY <2>1, <2>2
<1> HIDE DEF PreviewItem
<1>c. UNCHANGED <<batch, pjob, ejob, ex, request, up, repo, seen, budget>>
  BY DEF PreviewItem
<1>1. TypeOK'
  BY <1>0, <1>b, <1>c, TypesNext
<1>2. Stages'
  BY <1>0, <1>a, <1>b, <1>c DEF IInv, Stages, Previewing, Executing
<1>3. Unstarted'
  BY <1>0, <1>a, <1>b, <1>c DEF IInv, Unstarted, Previewing
<1>4. Approvable'
  BY <1>0, <1>a, <1>b, <1>c DEF IInv, Approvable
<1>5. Scanned'
  <2>1. ASSUME NEW k \in Items, k < pv.k PROVE Whole(k)'
    BY <1>a, <1>b, <2>1, PreviewItem DEF IInv, Scanned, Whole, PreviewItem, Items
  <2>2. pv'.pc = "finish" /\ ~pjob.cancel => \A k \in Items : k < pv.k
    BY <1>a, <1>b DEF Items
  <2> QED BY <1>a, <1>b, <1>c, <2>1, <2>2 DEF Scanned
<1>6. Walked'
  BY <1>a, <1>c DEF Walked, Executing
<1>7. ASSUME NEW k \in Items PROVE Planned(k)' /\ Chosen(k)'
  BY <1>b, <1>c, <1>7 DEF IInv, Planned, Chosen
<1>8. WrittenAsApproved'
  BY <1>b, <1>c DEF IInv, WrittenAsApproved
<1>9. ResultTells'
  BY <1>b, <1>c DEF IInv, ResultTells, Tells, DoubtIsReviewed
<1> QED BY <1>1, <1>2, <1>3, <1>4, <1>5, <1>6, <1>7, <1>8, <1>9 DEF IInv

LEMMA PreviewStartStep == ASSUME IInv, PreviewStart PROVE IInv'
<1> USE DEF PreviewStart, jobVars
<1>0. TypeOK /\ batch \in BatchRow /\ pjob \in JobRow /\ pv \in PreviewState
  BY DEF IInv, TypeOK
<1>1. TypeOK'
  <2>1. pjob' \in JobRow
    BY <1>0, JobUpdates DEF JobStatus
  <2>2. Listed \subseteq Items /\ 1 \in 0..NumItems + 1
    BY DEF Listed
  <2>3. [pc |-> "item", k |-> 1, listed |-> Listed, taken |-> FALSE] \in PreviewState
    BY <2>2 DEF PreviewState
  <2>4. [IdlePreview EXCEPT !.pc = "return"] \in PreviewState
    BY HandlerUpdates DEF PreviewState
  <2>5. pv' \in PreviewState
    BY <2>3, <2>4
  <2> QED BY <1>0, <2>1, <2>5 DEF TypeOK
<1>a. \/ /\ batch.status \in {"previewing", "preview_failed"}
         /\ pv'.pc = "item" /\ pv'.k = 1
      \/ pv'.pc = "return"
  BY DEF IdlePreview
<1>2. Stages'
  BY <1>0, <1>a DEF IInv, Stages, Unstarted, Previewing, Executing, JobRow
<1>3. Unstarted'
  BY <1>0, <1>a DEF IInv, Unstarted, Previewing
<1>4. Approvable'
  BY <1>0, <1>a DEF IInv, Approvable
<1>5. Scanned'
  BY <1>0, <1>a DEF IInv, Scanned, Whole, JobRow, Items
<1>6. Walked'
  BY DEF IInv, Walked, Untouched, Settled
<1>7. ASSUME NEW k \in Items PROVE Planned(k)' /\ Chosen(k)'
  BY <1>7 DEF IInv, Planned, Chosen
<1>8. WrittenAsApproved'
  BY DEF IInv, WrittenAsApproved
<1>9. ResultTells'
  BY DEF IInv, ResultTells, Tells, DoubtIsReviewed
<1> QED BY <1>1, <1>2, <1>3, <1>4, <1>5, <1>6, <1>7, <1>8, <1>9 DEF IInv

LEMMA ApproveWriteStep == ASSUME IInv, ApproveWrite PROVE IInv'
<1>0. TypeOK /\ batch \in BatchRow /\ item \in [Items -> ItemRow] /\ request \in Requests
  BY DEF IInv, TypeOK
<1>a. /\ request' = [request EXCEPT !.approve = NoApproval] /\ request' \in Requests
      /\ request'.approve = NoApproval /\ request'.cancel = request.cancel
      /\ UNCHANGED <<pjob, pv, ex, up, repo, seen, budget>>
  BY <1>0, HandlerUpdates DEF ApproveWrite, Requests
<1>1. CASE batch.status = "previewed" /\ batch.version = request.approve.version
  <2>1. /\ batch' = [batch EXCEPT !.status = "approved", !.version = @ + 1]
        /\ item' = [k \in Items |-> Selected(item[k], k \in request.approve.chosen)]
        /\ ejob' = [NoJob EXCEPT !.status = "queued"] /\ request.approve # NoApproval
    BY <1>1 DEF ApproveWrite
  <2>2. batch' \in BatchRow /\ batch'.status = "approved" /\ batch'.action = batch.action
        /\ batch'.started = batch.started
    BY <1>0, <2>1, StatusUpdate, Statuses DEF BatchRow
  <2>3. ~batch.started /\ ~Previewing /\ ~Executing /\ budget.cancel # "early" /\ up
    BY <1>1 DEF IInv, Stages, Unstarted, ApproveWrite
  <2>a. ASSUME NEW k \in Items
        PROVE  LET row == Selected(item[k], k \in request.approve.chosen)
               IN  /\ row \in ItemRow /\ row.selected = (k \in request.approve.chosen)
                   /\ row.executable = item[k].executable /\ row.snap = item[k].snap
                   /\ row.result = IF k \in request.approve.chosen THEN item[k].result
                                                                   ELSE "skipped_by_user"
    <3>1. item[k] \in ItemRow /\ (k \in request.approve.chosen) \in BOOLEAN
      BY <1>0, <2>a
    <3> QED BY <3>1, SelectedType
  <2>4. /\ item' \in [Items -> ItemRow]
        /\ \A k \in Items : /\ item'[k].executable = item[k].executable
                            /\ item'[k].snap = item[k].snap
                            /\ item'[k].selected = (k \in request.approve.chosen)
                            /\ item'[k].result =
                                 IF k \in request.approve.chosen THEN item[k].result
                                                                 ELSE "skipped_by_user"
    BY <2>1, <2>a
  <2>5. ejob' \in JobRow
    BY <2>1 DEF NoJob, JobRow, JobStatus
  <2>6. ASSUME NEW k \in Items
        PROVE  /\ item[k].executable \/ k \notin request.approve.chosen
               /\ seen[k].commands = 0 /\ seen[k].met /\ ~item[k].selected
               /\ item[k].result \in {"none", "skipped_by_user"}
    BY <1>1, <2>1, <2>3 DEF IInv, Approvable, Unstarted
  <2>11. TypeOK'
    BY <1>0, <1>a, <2>2, <2>4, <2>5, TypesNext DEF TypeOK
  <2>12. Stages'
    BY <1>a, <2>2, <2>3 DEF IInv, Stages, Previewing, Executing
  <2>13. Unstarted'
    BY <1>a, <2>2, <2>3, <2>4, <2>6 DEF Unstarted, Previewing
  <2>14. Approvable'
    BY <1>a DEF Approvable
  <2>15. Scanned'
    BY <1>a, <2>2, <2>3 DEF Scanned, Previewing
  <2>16. Walked'
    BY <1>a, <2>3 DEF Walked, Executing
  <2>17. ASSUME NEW k \in Items PROVE Planned(k)'
    BY <1>a, <2>2, <2>4, <2>17 DEF IInv, Planned
  <2>18. ASSUME NEW k \in Items PROVE Chosen(k)'
    <3>3. item[k].result = "none"
      BY <1>1, <2>18 DEF IInv, Unstarted
    <3>4. k \in request.approve.chosen => item[k].result # "skipped_by_user"
      BY <3>3
    <3> QED BY <1>a, <2>4, <2>6, <2>18, <3>4 DEF IInv, Chosen
  <2>19. WrittenAsApproved'
    BY <1>a, <2>6 DEF WrittenAsApproved
  <2>20. ResultTells'
    <3>1. \A k \in Items : seen'[k].changed = FALSE
      BY <1>0, <1>a, <2>6 DEF IInv, Chosen, TypeOK, History
    <3> QED BY <1>a, <2>4, <2>6, <3>1 DEF ResultTells, Tells, DoubtIsReviewed
  <2> QED BY <2>11, <2>12, <2>13, <2>14, <2>15, <2>16, <2>17, <2>18, <2>19, <2>20 DEF IInv
<1>2. CASE ~(batch.status = "previewed" /\ batch.version = request.approve.version)
  <2>1. UNCHANGED <<batch, item, ejob>>
    BY <1>2 DEF ApproveWrite
  <2>2. TypeOK'
    BY <1>0, <1>a, <2>1 DEF TypeOK
  <2>3. Stages' /\ Unstarted' /\ Approvable' /\ Scanned' /\ Walked'
    BY <1>a, <2>1 DEF IInv, Stages, Unstarted, Approvable, Scanned, Walked, Previewing, Executing,
       Whole, Untouched, Settled
  <2>4. (\A k \in Items : Planned(k) /\ Chosen(k))' /\ WrittenAsApproved' /\ ResultTells'
    BY <1>a, <2>1 DEF IInv, Planned, Chosen, WrittenAsApproved, ResultTells, Tells, DoubtIsReviewed
  <2> QED BY <2>2, <2>3, <2>4 DEF IInv
<1> QED BY <1>1, <1>2

LEMMA ExecuteClaimStep == ASSUME IInv, ExecuteClaim PROVE IInv'
<1>0. /\ TypeOK /\ batch \in BatchRow /\ ejob \in JobRow /\ ex \in ExecutionState
      /\ UNCHANGED <<item, pjob, ejob, pv, request, up, repo, seen, budget>> /\ up /\ ex.pc = "start"
  BY DEF IInv, TypeOK, ExecuteClaim, jobVars
<1>1. CASE batch.status = "approved" /\ ~batch.started
  <2>1. /\ batch' = [batch EXCEPT !.status = "running", !.started = TRUE, !.version = @ + 1]
        /\ ex' = [pc |-> "item", k |-> 1, listed |-> Listed, result |-> "none"]
    BY <1>1 DEF ExecuteClaim
  <2>2. /\ batch' \in BatchRow /\ batch'.status = "running" /\ batch'.started
        /\ batch'.action = batch.action
    BY <1>0, <2>1, StatusUpdate, Statuses DEF BatchRow
  <2>3. ex' \in ExecutionState
    <3>1. Listed \subseteq Items /\ 1 \in 0..NumItems + 1
      BY DEF Listed
    <3> QED BY <2>1, <3>1 DEF ExecutionState
  <2>4. ~Previewing /\ ~Executing /\ budget.cancel # "early"
    BY <1>0, <1>1 DEF IInv, Stages, Executing
  <2>5. \A k \in Items : /\ seen[k].commands = 0 /\ seen[k].met
                         /\ item[k].result \in {"none", "skipped_by_user"}
    BY <1>1 DEF IInv, Unstarted
  <2>11. TypeOK'
    BY <1>0, <2>1, <2>2, <2>3 DEF TypeOK
  <2>12. Stages'
    BY <1>0, <1>1, <2>1, <2>2, <2>4 DEF IInv, Stages, Previewing, Executing
  <2>13. Unstarted'
    BY <1>0, <2>2, <2>4 DEF Unstarted, Previewing
  <2>14. Approvable'
    <3>1. batch'.version >= batch.version
      BY <1>0, <2>1 DEF BatchRow
    <3> QED BY <1>0, <2>2, <3>1 DEF IInv, Approvable, TypeOK, BatchRow, Requests
  <2>15. Scanned'
    BY <1>0, <2>2, <2>4 DEF Scanned, Previewing
  <2>16. Walked'
    BY <1>0, <2>1, <2>5 DEF Walked, Untouched, Items
  <2>17. ASSUME NEW k \in Items PROVE Planned(k)' /\ Chosen(k)'
    BY <1>0, <2>2, <2>17 DEF IInv, Planned, Chosen
  <2>18. WrittenAsApproved'
    BY <1>0, <2>5 DEF WrittenAsApproved
  <2>19. ResultTells'
    BY <1>0, <2>2, <2>5 DEF IInv, ResultTells, Tells, DoubtIsReviewed
  <2> QED BY <2>11, <2>12, <2>13, <2>14, <2>15, <2>16, <2>17, <2>18, <2>19 DEF IInv
<1>2. CASE ~(batch.status = "approved" /\ ~batch.started)
  <2>1. batch' = batch /\ ex' \in ExecutionState /\ ex'.pc \in {"return", "thrown"}
    BY <1>0, <1>2 DEF ExecuteClaim, ExecutionState
  <2> QED BY <1>0, <2>1, BehindTheScenes DEF TypeOK
<1> QED BY <1>1, <1>2

\* An untouched item is settled: nothing has changed it.
LEMMA UntouchedIsSettled ==
  ASSUME IInv, NEW k \in Items, Untouched(k)
  PROVE  Settled(k)
BY DEF IInv, Chosen, Untouched, Settled

LEMMA ExecuteItemStep == ASSUME IInv, ExecuteItem PROVE IInv'
<1>0. /\ TypeOK /\ item \in [Items -> ItemRow] /\ ex \in ExecutionState /\ up /\ ex.pc = "item"
      /\ UNCHANGED <<batch, pjob, ejob, pv, request, up, repo, seen, budget>>
  BY DEF IInv, TypeOK, ExecuteItem, jobVars
<1>1. /\ Executing /\ batch.started /\ ~Previewing
      /\ batch.status \notin {"none", "previewing", "preview_failed", "previewed"}
      /\ batch.status = "running" \/ budget.cancel = "late"
  BY <1>0 DEF IInv, Stages, Unstarted, Executing
<1>2. \A k \in Items : /\ k >= ex.k => Untouched(k)
                       /\ Settled(k)
  BY <1>0, UntouchedIsSettled DEF IInv, Walked, Items
<1>3. /\ ex' \in ExecutionState /\ item' \in [Items -> ItemRow]
      /\ \A j \in Items : /\ item'[j].snap = item[j].snap
                          /\ item'[j].executable = item[j].executable
                          /\ item'[j].selected = item[j].selected
                          /\ item'[j].result = item[j].result
      /\ \/ ex'.pc = "final"
         \/ ex'.pc = "check" /\ ex'.k \in Items /\ item[ex'.k].selected /\ ex'.k >= ex.k
  <2> DEFINE left == {k \in Items : k >= ex.k /\ item[k].selected}
  <2>1. CASE left = {} /\ ex' = [ex EXCEPT !.pc = "final"] /\ UNCHANGED item
    BY <1>0, <2>1 DEF ExecutionState
  <2>2. CASE \E next \in left : /\ item' = [item EXCEPT ![next].status = "running"]
                                /\ ex' = [ex EXCEPT !.pc = "check", !.k = next]
    <3>1. PICK next \in left : /\ item' = [item EXCEPT ![next].status = "running"]
                               /\ ex' = [ex EXCEPT !.pc = "check", !.k = next]
      BY <2>2
    <3>2. next \in Items /\ next \in 0..NumItems + 1 /\ "running" \in ItemStatus
      BY DEF Items, ItemStatus
    <3>3. /\ ex' \in ExecutionState /\ ex'.pc = "check" /\ ex'.k = next
      BY <1>0, <3>1, <3>2 DEF ExecutionState
    <3> QED BY <1>0, <3>1, <3>2, <3>3, ItemStatus1
  <2> QED BY <1>0, <2>1, <2>2 DEF ExecuteItem
<1>11. TypeOK'
  BY <1>0, <1>3 DEF TypeOK
<1>12. Stages'
  BY <1>0, <1>1, <1>3 DEF IInv, Stages, Previewing, Executing
<1>13. Unstarted'
  BY <1>0, <1>1 DEF Unstarted, Previewing
<1>14. Approvable'
  BY <1>0, <1>1 DEF IInv, Approvable
<1>15. Scanned'
  BY <1>0, <1>1 DEF Scanned, Previewing
<1>16. Walked'
  <2>1. ASSUME NEW k \in Items PROVE Settled(k)' /\ (Untouched(k) => Untouched(k)')
    BY <1>0, <1>2, <1>3, <2>1 DEF Settled, Untouched
  <2>2. \A k \in Items : ex'.pc = "check" /\ k >= ex'.k => Untouched(k)'
    BY <1>0, <1>2, <1>3, <2>1 DEF Items, ExecutionState
  <2> QED BY <1>3, <2>1, <2>2 DEF Walked
<1>17. ASSUME NEW k \in Items PROVE Planned(k)' /\ Chosen(k)'
  BY <1>0, <1>3, <1>17 DEF IInv, Planned, Chosen
<1>18. WrittenAsApproved'
  BY <1>0, <1>3 DEF IInv, WrittenAsApproved
<1>19. ResultTells'
  BY <1>0, <1>3 DEF IInv, ResultTells, Tells, DoubtIsReviewed
<1> QED BY <1>11, <1>12, <1>13, <1>14, <1>15, <1>16, <1>17, <1>18, <1>19 DEF IInv

LEMMA ExecuteFinalStep == ASSUME IInv, ExecuteFinal PROVE IInv'
<1> DEFINE status == FinalStatus({item[k].result : k \in Items})
<1>0. /\ TypeOK /\ batch \in BatchRow /\ ex \in ExecutionState /\ ex.pc = "final" /\ up
      /\ batch' = [batch EXCEPT !.status = status, !.version = @ + 1]
      /\ ex' = [ex EXCEPT !.pc = "return"]
      /\ UNCHANGED <<item, pjob, ejob, pv, request, up, repo, seen, budget>>
  BY DEF IInv, TypeOK, ExecuteFinal, jobVars
<1>1. status \in Ended /\ ((\E k \in Items : item[k].result = "needs_review")
                             => status = "needs_review")
  BY FinalStatusEnds
<1> HIDE DEF status
<1>2. /\ batch' \in BatchRow /\ batch'.status = status /\ batch'.started = batch.started
      /\ batch'.action = batch.action /\ batch'.version = batch.version + 1
      /\ batch.version \in Nat
  BY <1>0, <1>1, StatusUpdate, Statuses DEF BatchRow
<1>3. ex' \in ExecutionState /\ ex'.pc = "return"
  BY <1>0 DEF ExecutionState
<1>4. Executing /\ batch.started /\ ~Previewing /\ budget.cancel # "early" /\ pjob.cancel \in BOOLEAN
      /\ \A k \in Items : Settled(k)
  BY <1>0 DEF IInv, Stages, Executing, Walked, TypeOK, JobRow
<1>5. status \notin {"none", "previewing", "preview_failed", "previewed"}
  BY <1>1 DEF Ended
<1>11. TypeOK'
  BY <1>0, <1>2, <1>3 DEF TypeOK
<1>12. Stages'
  BY <1>0, <1>2, <1>3, <1>4, <1>5 DEF IInv, Stages, Previewing, Executing
<1>13. Unstarted'
  BY <1>0, <1>2, <1>4, <1>5 DEF Unstarted, Previewing
<1>14. Approvable'
  BY <1>0, <1>2, <1>5 DEF IInv, Approvable, TypeOK, Requests
<1>15. Scanned'
  BY <1>0, <1>2, <1>4, <1>5 DEF Scanned, Previewing
<1>16. Walked'
  BY <1>3 DEF Walked
<1>17. ASSUME NEW k \in Items PROVE Planned(k)' /\ Chosen(k)'
  BY <1>0, <1>2, <1>17 DEF IInv, Planned, Chosen
<1>18. WrittenAsApproved'
  BY <1>0, <1>2 DEF IInv, WrittenAsApproved
<1>19. ResultTells'
  <2>1. ASSUME NEW k \in Items PROVE DoubtIsReviewed(k)'
    <3>1. CASE item[k].result = "needs_review"
      BY <1>1, <1>2, <2>1, <3>1 DEF DoubtIsReviewed
    <3>2. CASE item[k].result # "needs_review"
      <4>1. Tells(item[k].result, seen[k]) /\ Chosen(k) /\ Settled(k)
        BY <1>4, <2>1 DEF IInv, ResultTells
      <4>2. item[k].result \in Results \union {"none"} /\ seen[k].commands \in Nat
        BY <1>0, <2>1 DEF TypeOK, ItemRow, History
      <4>3. seen[k].changed /\ item[k].result # "succeeded" => seen[k].cut
        BY <3>2, <4>1, <4>2 DEF Tells, Chosen, Settled, Results
      <4> QED BY <1>0, <4>3 DEF DoubtIsReviewed
    <3> QED BY <3>1, <3>2
  <2> QED BY <1>0, <1>2, <2>1 DEF IInv, ResultTells, Tells
<1> QED BY <1>11, <1>12, <1>13, <1>14, <1>15, <1>16, <1>17, <1>18, <1>19 DEF IInv

LEMMA PreviewPlanStep == ASSUME IInv, PreviewPlan PROVE IInv'
<1> DEFINE n == pv.k
<1>0. /\ TypeOK /\ batch \in BatchRow /\ item \in [Items -> ItemRow] /\ pv \in PreviewState
      /\ seen \in [Items -> History] /\ repo \in [Items -> Repository] /\ budget \in Budget
      /\ up /\ pv.pc = "plan" /\ n \in Items
      /\ UNCHANGED <<batch, pjob, ejob, ex, request, up, repo>>
  BY DEF IInv, TypeOK, Stages, PreviewPlan, jobVars
<1>1. /\ Previewing /\ ~Executing /\ ~batch.started
      /\ batch.status \in {"previewing", "preview_failed", "cancelled"}
  BY <1>0 DEF IInv, Stages, Previewing, Executing
<1>2. \A k \in Items : /\ seen[k].commands = 0 /\ seen[k].met /\ ~item[k].selected
                       /\ ~seen[k].changed
  BY <1>0, <1>1 DEF IInv, Unstarted, Chosen, History
<1>3. /\ budget' \in Budget /\ budget'.cancel = budget.cancel
      /\ pv' \in PreviewState /\ pv'.pc = "item" /\ pv'.k = n + 1
  <2>1. budget' = budget \/ Fault
    BY DEF PreviewPlan
  <2>2. budget' \in Budget /\ budget'.cancel = budget.cancel
    BY <1>0, <2>1 DEF Budget, Fault
  <2>3. n + 1 \in 0..NumItems + 1
    BY <1>0 DEF Items
  <2>4. pv' \in PreviewState /\ pv'.pc = "item" /\ pv'.k = n + 1
    BY <1>0, <2>3 DEF PreviewPlan, PreviewState
  <2> QED BY <2>2, <2>4
<1>4. /\ item' \in [Items -> ItemRow] /\ seen' \in [Items -> History]
      /\ \A k \in Items \ {n} : item'[k] = item[k] /\ seen'[k] = seen[k]
      /\ item'[n].selected = item[n].selected /\ item'[n].result = item[n].result
      /\ seen'[n] = [seen[n] EXCEPT !.looked = seen'[n].looked]
      /\ item'[n].executable =>
           /\ item'[n].status = "previewed" /\ seen'[n].looked = repo[n]
           /\ \E reachable \in BOOLEAN :
                /\ item'[n].snap = Snapshot(batch.action, repo[n], reachable)
                /\ ~Plan(batch.action, repo[n], reachable).blocked
  <2>0. item[n] \in ItemRow /\ seen[n] \in History /\ repo[n] \in Repository
        /\ batch.action \in AllActions
    BY <1>0 DEF BatchRow
  <2>1. CASE /\ n \in pv.listed /\ repo[n].same
             /\ \E reachable \in BOOLEAN :
                  item' = [item EXCEPT ![n] =
                    Previewed(@, Snapshot(batch.action, repo[n], reachable),
                              ~Plan(batch.action, repo[n], reachable).blocked)]
             /\ seen' = [seen EXCEPT ![n].looked = repo[n]]
    <3>1. PICK reachable \in BOOLEAN :
            item' = [item EXCEPT ![n] =
              Previewed(@, Snapshot(batch.action, repo[n], reachable),
                        ~Plan(batch.action, repo[n], reachable).blocked)]
      BY <2>1
    <3> DEFINE snap == Snapshot(batch.action, repo[n], reachable)
               free == ~Plan(batch.action, repo[n], reachable).blocked
               row == Previewed(item[n], snap, free)
    <3>2. snap \in Snapshots /\ free \in BOOLEAN
      BY <2>0, SnapshotType
    <3> HIDE DEF snap, free
    <3>3. /\ row \in ItemRow /\ row.selected = item[n].selected /\ row.result = item[n].result
          /\ row.executable = free /\ row.snap = snap
          /\ (free => row.status = "previewed")
      BY <2>0, <3>2 DEF Previewed, ItemRow, ItemStatus, Results
    <3>4. item' \in [Items -> ItemRow] /\ item'[n] = row
          /\ \A k \in Items \ {n} : item'[k] = item[k]
      <4>1. item' = [item EXCEPT ![n] = row]
        BY <3>1 DEF snap, free
      <4> HIDE DEF row
      <4> QED BY <1>0, <3>3, <4>1
    <3>5. seen' \in [Items -> History] /\ seen'[n] = [seen[n] EXCEPT !.looked = repo[n]]
          /\ seen'[n].looked = repo[n] /\ \A k \in Items \ {n} : seen'[k] = seen[k]
      <4>1. [seen[n] EXCEPT !.looked = repo[n]] \in History
            /\ [seen[n] EXCEPT !.looked = repo[n]].looked = repo[n]
        BY <2>0 DEF History
      <4> QED BY <1>0, <2>1, <4>1
    <3> HIDE DEF row
    <3> QED BY <3>3, <3>4, <3>5 DEF snap, free
  <2>2. CASE item' = [item EXCEPT ![n] = Unplanned(@)] /\ UNCHANGED seen
    <3>1. /\ Unplanned(item[n]) \in ItemRow /\ Unplanned(item[n]).selected = item[n].selected
          /\ Unplanned(item[n]).result = item[n].result /\ ~Unplanned(item[n]).executable
      BY <2>0 DEF Unplanned, ItemRow, ItemStatus, Results
    <3>2. seen[n] = [seen[n] EXCEPT !.looked = seen[n].looked]
      BY <2>0 DEF History
    <3>3. /\ item' \in [Items -> ItemRow] /\ item'[n] = Unplanned(item[n])
          /\ \A k \in Items \ {n} : item'[k] = item[k]
      BY <1>0, <2>2, <3>1
    <3> QED BY <1>0, <2>2, <3>1, <3>2, <3>3
  <2> QED BY <2>1, <2>2 DEF PreviewPlan
<1>5. \A k \in Items : /\ seen'[k].commands = 0 /\ seen'[k].met /\ ~seen'[k].changed
                       /\ ~item'[k].selected /\ item'[k].result = item[k].result
  BY <1>0, <1>2, <1>4 DEF History
<1>11. TypeOK'
  BY <1>0, <1>3, <1>4 DEF TypeOK
<1>12. Stages'
  BY <1>0, <1>1, <1>3 DEF IInv, Stages, Previewing, Executing, Items
<1>13. Unstarted'
  BY <1>0, <1>1, <1>5 DEF IInv, Unstarted, Previewing
<1>14. Approvable'
  BY <1>0, <1>1 DEF IInv, Approvable
<1>15. Scanned'
  <2>1. ASSUME NEW k \in Items, k < n + 1 PROVE Whole(k)'
    <3>1. CASE k = n
      BY <1>4, <3>1 DEF Whole
    <3>2. CASE k # n
      <4>1. k < n /\ item'[k] = item[k]
        BY <1>0, <1>4, <2>1, <3>2 DEF Items
      <4> QED BY <1>0, <4>1 DEF IInv, Scanned, Whole
    <3> QED BY <3>1, <3>2
  <2> QED BY <1>0, <1>1, <1>3, <2>1 DEF Scanned
<1>16. Walked'
  BY <1>0, <1>1 DEF Walked, Executing
<1>17. ASSUME NEW k \in Items PROVE Planned(k)'
  <2>1. CASE k = n
    <3>1. repo[n] # None
      BY <1>0, NoneAssumption
    <3> QED BY <1>0, <1>4, <2>1, <3>1 DEF Planned
  <2>2. CASE k # n
    BY <1>0, <1>4, <1>17, <2>2 DEF IInv, Planned
  <2> QED BY <2>1, <2>2
<1>18. ASSUME NEW k \in Items PROVE Chosen(k)'
  BY <1>5, <1>18 DEF Chosen
<1>19. WrittenAsApproved'
  BY <1>5 DEF WrittenAsApproved
<1>20. ResultTells'
  <2>1. ASSUME NEW k \in Items PROVE Tells(item'[k].result, seen'[k]) /\ DoubtIsReviewed(k)'
    <3>1. item[k].result = "none"
      BY <1>1, <2>1 DEF IInv, Unstarted
    <3> QED BY <1>5, <2>1, <3>1 DEF Tells, DoubtIsReviewed
  <2> QED BY <1>5, <2>1 DEF ResultTells
<1> QED BY <1>11, <1>12, <1>13, <1>14, <1>15, <1>16, <1>17, <1>18, <1>19, <1>20 DEF IInv

LEMMA ExecuteCheckStep == ASSUME IInv, ExecuteCheck PROVE IInv'
<1> DEFINE n == ex.k
<1>0. /\ TypeOK /\ batch \in BatchRow /\ item \in [Items -> ItemRow] /\ ex \in ExecutionState
      /\ seen \in [Items -> History] /\ repo \in [Items -> Repository] /\ budget \in Budget
      /\ up /\ ex.pc = "check" /\ n \in Items /\ item[n].selected
      /\ UNCHANGED <<batch, item, pjob, ejob, pv, request, up, repo>>
  BY DEF IInv, TypeOK, Stages, ExecuteCheck, jobVars
<1>1. /\ Executing /\ batch.started /\ ~Previewing
      /\ batch.status \notin {"none", "previewing", "preview_failed", "previewed"}
      /\ batch.status = "running" \/ budget.cancel = "late"
  BY <1>0 DEF IInv, Stages, Unstarted, Executing
<1>2. \A k \in Items : /\ k >= n => Untouched(k)
                       /\ Settled(k)
  BY <1>0, UntouchedIsSettled DEF IInv, Walked, Items
<1>3. PICK v \in {"stale_preview", "blocked", "already_satisfied", "failed", "none"} :
        /\ ex' = [ex EXCEPT !.pc = IF v = "none" THEN "write" ELSE "finish", !.result = v]
        /\ \/ v \in {"stale_preview", "failed"} /\ seen' = seen
           \/ /\ seen' = [seen EXCEPT ![n].met = v = "already_satisfied" => Goal(batch.action, repo[n])]
              /\ \E x \in BOOLEAN : v = Verdict(batch.action, repo[n], item[n].snap, x)
        /\ budget' = budget \/ Fault
  <2>1. ASSUME NEW x \in BOOLEAN
        PROVE  Verdict(batch.action, repo[n], item[n].snap, x)
                 \in {"stale_preview", "blocked", "already_satisfied", "none"}
    BY <1>0, Verdicts DEF BatchRow
  <2> QED BY <2>1 DEF ExecuteCheck
<1>4. /\ ex' \in ExecutionState /\ ex'.k = n /\ ex'.result = v
      /\ ex'.pc = IF v = "none" THEN "write" ELSE "finish"
  BY <1>0, <1>3 DEF ExecutionState, Results
<1>5. budget' \in Budget /\ budget'.cancel = budget.cancel
  BY <1>0, <1>3 DEF Budget, Fault
<1>6. batch.action # "push_set_upstream" /\ (\E x \in BOOLEAN : v = Verdict(batch.action, repo[n], item[n].snap, x))
        => (v = "already_satisfied" => Goal(batch.action, repo[n]))
  <2>1. batch.action \in AllActions /\ repo[n] \in Repository
    BY <1>0 DEF BatchRow
  <2>2. ASSUME batch.action # "push_set_upstream", v = "already_satisfied", NEW x \in BOOLEAN,
               v = Verdict(batch.action, repo[n], item[n].snap, x)
        PROVE  Goal(batch.action, repo[n])
    <3>1. Plan(batch.action, repo[n], x).satisfied /\ ~Plan(batch.action, repo[n], x).blocked
      BY <2>1, <2>2, Verdicts
    <3> QED BY <2>1, <2>2, <3>1, SatisfiedIsGoal
  <2> QED BY <2>2
<1>7. /\ seen' \in [Items -> History]
      /\ \A k \in Items : /\ seen'[k].commands = seen[k].commands /\ seen'[k].changed = seen[k].changed
                          /\ seen'[k].looked = seen[k].looked /\ seen'[k].ran = seen[k].ran
                          /\ seen'[k].raced = seen[k].raced /\ seen'[k].cut = seen[k].cut
                          /\ batch.action # "push_set_upstream" /\ seen[k].met => seen'[k].met
  <2>1. CASE seen' = seen
    BY <1>0, <2>1
  <2>2. CASE /\ seen' = [seen EXCEPT ![n].met = v = "already_satisfied" => Goal(batch.action, repo[n])]
             /\ \E x \in BOOLEAN : v = Verdict(batch.action, repo[n], item[n].snap, x)
    <3> DEFINE m == v = "already_satisfied" => Goal(batch.action, repo[n])
    <3>1. m \in BOOLEAN /\ (batch.action # "push_set_upstream" => m)
      BY <1>6, <2>2
    <3>2. seen' = [k \in Items |-> IF k = n THEN [seen[n] EXCEPT !.met = m] ELSE seen[k]]
      BY <1>0, <2>2
    <3> HIDE DEF m
    <3>3. seen[n] \in History /\ [seen[n] EXCEPT !.met = m] \in History
      BY <1>0, <3>1 DEF History
    <3>4. seen' \in [Items -> History]
      BY <1>0, <3>2, <3>3
    <3>5. /\ seen'[n].commands = seen[n].commands /\ seen'[n].changed = seen[n].changed
          /\ seen'[n].looked = seen[n].looked /\ seen'[n].ran = seen[n].ran
          /\ seen'[n].raced = seen[n].raced /\ seen'[n].cut = seen[n].cut /\ seen'[n].met = m
      BY <1>0, <3>2, <3>3 DEF History
    <3>6. \A k \in Items \ {n} : seen'[k] = seen[k]
      BY <3>2
    <3> QED BY <3>1, <3>4, <3>5, <3>6
  <2> QED BY <1>3, <2>1, <2>2
<1>11. TypeOK'
  BY <1>0, <1>4, <1>5, <1>7 DEF TypeOK
<1>12. Stages'
  BY <1>0, <1>1, <1>4, <1>5 DEF IInv, Stages, Previewing, Executing
<1>13. Unstarted'
  BY <1>0, <1>1 DEF Unstarted, Previewing
<1>14. Approvable'
  BY <1>0, <1>1 DEF IInv, Approvable
<1>15. Scanned'
  BY <1>0, <1>1 DEF Scanned, Previewing
<1>16. Walked'
  <2>1. ASSUME NEW k \in Items PROVE Settled(k)' /\ (Untouched(k) => Untouched(k)')
    BY <1>0, <1>2, <1>7, <2>1 DEF Settled, Untouched
  <2>2. ASSUME v = "none"
        PROVE  seen[n].raced \/ AsReviewed(batch.action, seen[n].looked, repo[n])
    <3>1. PICK x \in BOOLEAN : v = Verdict(batch.action, repo[n], item[n].snap, x)
      BY <1>3, <2>2
    <3>2. batch.action \in AllActions /\ repo[n] \in Repository
          /\ seen[n].looked \in Repository \union {None}
      BY <1>0 DEF BatchRow, History
    <3>3. Snapshot(batch.action, repo[n], x) = item[n].snap
          /\ ~Plan(batch.action, repo[n], x).blocked
      BY <2>2, <3>1, <3>2, Verdicts
    <3>4. PICK y \in BOOLEAN : /\ item[n].snap = Snapshot(batch.action, seen[n].looked, y)
                               /\ ~Plan(batch.action, seen[n].looked, y).blocked
                               /\ seen[n].looked # None
      BY <1>0 DEF IInv, Planned, Chosen
    <3> QED BY <3>2, <3>3, <3>4, SameAsReviewed
  <2>3. item[n].result = "none" /\ seen[n].commands = 0 /\ ~seen[n].changed
    BY <1>0, <1>2 DEF IInv, Chosen, Untouched, Items, History
  <2>4. v # "none" => Tells(v, seen'[n])
    BY <1>0, <1>7, <2>3 DEF Tells
  <2>5. \A k \in Items : k >= n => Untouched(k)'
    BY <1>2, <2>1
  <2>6. CASE v = "none"
    BY <1>0, <1>4, <1>7, <2>1, <2>2, <2>5, <2>6 DEF Walked
  <2>7. CASE v # "none"
    <3>1. \A k \in Items : k > n => k >= n
      BY <1>0 DEF Items
    <3> QED BY <1>0, <1>4, <2>1, <2>3, <2>4, <2>5, <2>7, <3>1 DEF Walked
  <2> QED BY <2>6, <2>7
<1>17. ASSUME NEW k \in Items PROVE Planned(k)' /\ Chosen(k)'
  BY <1>0, <1>7, <1>17 DEF IInv, Planned, Chosen
<1>18. WrittenAsApproved'
  BY <1>0, <1>7 DEF IInv, WrittenAsApproved
<1>19. ResultTells'
  BY <1>0, <1>5, <1>7 DEF IInv, ResultTells, Tells, DoubtIsReviewed
<1> QED BY <1>11, <1>12, <1>13, <1>14, <1>15, <1>16, <1>17, <1>18, <1>19 DEF IInv

\* A command, cut off or not, leaves everything but its own item alone.
LEMMA CommandedType ==
  ASSUME TypeOK, NEW k \in Items, NEW effect \in BOOLEAN,
         effect => Accepts(batch.action, repo[k]), Commanded(k, effect) \/ Cut(k, effect)
  PROVE  /\ repo' \in [Items -> Repository] /\ seen' \in [Items -> History]
         /\ \A j \in Items \ {k} : repo'[j] = repo[j] /\ seen'[j] = seen[j]
         /\ seen'[k].commands = seen[k].commands + 1 /\ seen'[k].ran = repo[k]
         /\ seen'[k].changed = effect /\ seen'[k].looked = seen[k].looked
         /\ seen'[k].met = seen[k].met /\ seen'[k].raced = seen[k].raced
         /\ Cut(k, effect) => seen'[k].cut
<1>1. repo[k] \in Repository /\ seen[k] \in History /\ batch.action \in AllActions
      /\ repo \in [Items -> Repository] /\ seen \in [Items -> History]
  BY DEF TypeOK, BatchRow
<1>2. repo' \in [Items -> Repository] /\ \A j \in Items \ {k} : repo'[j] = repo[j]
  <2>1. CASE effect
    <3>1. Result(batch.action, repo[k]) \in Repository
      BY <1>1, <2>1, ResultType
    <3>2. repo' = [repo EXCEPT ![k] = Result(batch.action, repo[k])]
      BY <2>1 DEF Commanded, Cut
    <3> QED BY <1>1, <3>1, <3>2
  <2>2. CASE ~effect
    BY <1>1, <2>2 DEF Commanded, Cut
  <2> QED BY <2>1, <2>2
<1> DEFINE s == [seen[k] EXCEPT !.commands = @ + 1, !.ran = repo[k], !.changed = effect]
           t == [seen[k] EXCEPT !.commands = @ + 1, !.ran = repo[k], !.changed = effect, !.cut = TRUE]
<1>3. /\ Commanded(k, effect) => seen' = [seen EXCEPT ![k] = s]
      /\ Cut(k, effect) => seen' = [seen EXCEPT ![k] = t]
  BY <1>1 DEF Commanded, Cut
<1>4. s \in History /\ t \in History
  <2>1. seen[k].commands + 1 \in Nat /\ repo[k] \in Repository \union {None}
    BY <1>1 DEF History
  <2> QED BY <1>1, <2>1 DEF History
<1>5. \A h \in {s, t} : /\ h.commands = seen[k].commands + 1 /\ h.ran = repo[k]
                        /\ h.changed = effect /\ h.looked = seen[k].looked
                        /\ h.met = seen[k].met /\ h.raced = seen[k].raced
  BY <1>1 DEF History
<1>6. t.cut
  BY <1>1 DEF History
<1> HIDE DEF s, t
<1>7. /\ seen' \in [Items -> History] /\ seen'[k] \in {s, t}
      /\ Cut(k, effect) => seen'[k] = t
      /\ \A j \in Items \ {k} : seen'[j] = seen[j]
  BY <1>1, <1>3, <1>4
<1> QED BY <1>2, <1>5, <1>6, <1>7

\* A command of the execution at its item keeps what does not depend on what is
\* recorded of it: the other items, and that it was run once, as approved.
LEMMA CommandKeeps ==
  ASSUME IInv, ex.pc = "write", NEW effect \in BOOLEAN,
         effect => Accepts(batch.action, repo[ex.k]), Commanded(ex.k, effect) \/ Cut(ex.k, effect),
         UNCHANGED <<batch, item>>
  PROVE  /\ repo' \in [Items -> Repository] /\ seen' \in [Items -> History]
         /\ ex.k \in Items /\ seen'[ex.k].changed = effect /\ (Cut(ex.k, effect) => seen'[ex.k].cut)
         /\ \A j \in Items \ {ex.k} : repo'[j] = repo[j] /\ seen'[j] = seen[j]
         /\ item[ex.k].result = "none"
         /\ \A k \in Items : Planned(k)' /\ Chosen(k)'
         /\ WrittenAsApproved'
         /\ \A k \in Items : Tells(item'[k].result, seen'[k]) /\ (seen[k].met = seen'[k].met)
<1>0. /\ ex.k \in Items /\ item[ex.k].selected /\ TypeOK /\ Executing /\ batch.started
      /\ seen[ex.k].commands = 0 /\ item[ex.k].result = "none"
      /\ item[ex.k].executable
      /\ seen[ex.k].looked # None
      /\ seen[ex.k].raced \/ AsReviewed(batch.action, seen[ex.k].looked, repo[ex.k])
  BY DEF IInv, Stages, Executing, Walked, Untouched, Planned, Chosen, Items
<1>1. /\ repo' \in [Items -> Repository] /\ seen' \in [Items -> History]
      /\ \A j \in Items \ {ex.k} : repo'[j] = repo[j] /\ seen'[j] = seen[j]
      /\ seen'[ex.k].commands = 1 /\ seen'[ex.k].ran = repo[ex.k]
      /\ seen'[ex.k].changed = effect /\ seen'[ex.k].looked = seen[ex.k].looked
      /\ seen'[ex.k].met = seen[ex.k].met /\ seen'[ex.k].raced = seen[ex.k].raced
      /\ Cut(ex.k, effect) => seen'[ex.k].cut
  BY <1>0, CommandedType
<1>3. ASSUME NEW k \in Items
      PROVE  Planned(k)' /\ Chosen(k)' /\ Tells(item'[k].result, seen'[k])
             /\ seen[k].met = seen'[k].met
  <2>1. CASE k = ex.k
    BY <1>0, <1>1, <2>1 DEF IInv, Planned, Chosen, Tells
  <2>2. CASE k # ex.k
    BY <1>1, <1>3, <2>2 DEF IInv, Planned, Chosen, Tells, ResultTells
  <2> QED BY <2>1, <2>2
<1>4. WrittenAsApproved'
  <2>1. ASSUME NEW k \in Items, seen'[k].commands > 0
        PROVE  /\ seen'[k].commands = 1 /\ item'[k].selected /\ item'[k].executable
               /\ seen'[k].looked # None
               /\ seen'[k].raced \/ AsReviewed(batch'.action, seen'[k].looked, seen'[k].ran)
    <3>1. CASE k = ex.k
      BY <1>0, <1>1, <3>1
    <3>2. CASE k # ex.k
      BY <1>1, <2>1, <3>2 DEF IInv, WrittenAsApproved
    <3> QED BY <3>1, <3>2
  <2> QED BY <2>1 DEF WrittenAsApproved
<1> QED BY <1>0, <1>1, <1>3, <1>4

LEMMA ExecuteWriteStep == ASSUME IInv, ExecuteWrite PROVE IInv'
<1> DEFINE n == ex.k
<1>0. /\ TypeOK /\ ex \in ExecutionState /\ budget \in Budget /\ up /\ ex.pc = "write" /\ n \in Items
      /\ item[n].selected
      /\ UNCHANGED <<batch, item, pjob, ejob, pv, request, up>>
  BY DEF IInv, TypeOK, Stages, ExecuteWrite, jobVars
<1>1. /\ Executing /\ batch.started /\ ~Previewing
      /\ batch.status \notin {"none", "previewing", "preview_failed", "previewed"}
      /\ batch.status = "running" \/ budget.cancel = "late"
  BY <1>0 DEF IInv, Stages, Unstarted, Executing
<1>2. PICK v \in {"succeeded", "failed", "needs_review"}, effect \in BOOLEAN :
        /\ effect => Accepts(batch.action, repo[n])
        /\ Commanded(n, effect) \/ Cut(n, effect)
        /\ v = "succeeded" => effect
        /\ v = "failed" /\ ~Cut(n, effect) => ~effect
        /\ ex' = [ex EXCEPT !.pc = "finish", !.result = v]
        /\ budget' = budget \/ Fault
  BY DEF ExecuteWrite
<1>3. /\ ex' \in ExecutionState /\ ex'.pc = "finish" /\ ex'.k = n /\ ex'.result = v
  BY <1>0, <1>2 DEF ExecutionState, Results
<1>4. budget' \in Budget /\ budget'.cancel = budget.cancel
  BY <1>0, <1>2 DEF Budget, Fault
<1>5. /\ repo' \in [Items -> Repository] /\ seen' \in [Items -> History]
      /\ seen'[n].changed = effect /\ (Cut(n, effect) => seen'[n].cut)
      /\ \A j \in Items \ {n} : repo'[j] = repo[j] /\ seen'[j] = seen[j]
      /\ item[n].result = "none"
      /\ \A k \in Items : Planned(k)' /\ Chosen(k)'
      /\ WrittenAsApproved'
      /\ \A k \in Items : Tells(item'[k].result, seen'[k]) /\ (seen[k].met = seen'[k].met)
  BY <1>0, <1>2, CommandKeeps
<1>11. TypeOK'
  BY <1>0, <1>3, <1>4, <1>5 DEF TypeOK
<1>12. Stages'
  BY <1>0, <1>1, <1>3, <1>4 DEF IInv, Stages, Previewing, Executing
<1>13. Unstarted'
  BY <1>0, <1>1 DEF Unstarted, Previewing
<1>14. Approvable'
  BY <1>0, <1>1 DEF IInv, Approvable
<1>15. Scanned'
  BY <1>0, <1>1 DEF Scanned, Previewing
<1>16. Walked'
  <2>1. ASSUME NEW k \in Items, k # n
        PROVE  (k > n => Untouched(k)') /\ (k < n => Settled(k)')
    BY <1>0, <1>5, <2>1 DEF IInv, Walked, Untouched, Settled, Items
  <2>2. Tells(v, seen'[n])
    BY <1>2, <1>5 DEF Tells
  <2>3. \A k \in Items : (k > n => k # n) /\ (k < n => k # n)
    BY <1>0 DEF Items
  <2> QED BY <1>0, <1>3, <1>5, <2>1, <2>2, <2>3 DEF Walked
<1>17. ResultTells'
  <2>1. \A k \in Items : DoubtIsReviewed(k)'
    BY <1>0, <1>1, <1>4 DEF DoubtIsReviewed
  <2> QED BY <1>0, <1>5, <2>1 DEF IInv, ResultTells
<1> QED BY <1>11, <1>12, <1>13, <1>14, <1>15, <1>16, <1>5, <1>17 DEF IInv

LEMMA ExecuteFinishStep == ASSUME IInv, ExecuteFinish PROVE IInv'
<1> DEFINE n == ex.k
<1>0. /\ TypeOK /\ batch \in BatchRow /\ item \in [Items -> ItemRow] /\ ex \in ExecutionState
      /\ ejob \in JobRow /\ budget \in Budget
      /\ up /\ ex.pc = "finish" /\ n \in Items /\ item[n].selected
      /\ UNCHANGED <<batch, pjob, ejob, pv, request, up, repo, seen, budget>>
  BY DEF IInv, TypeOK, Stages, ExecuteFinish, jobVars
<1>1. /\ Executing /\ batch.started /\ ~Previewing
      /\ batch.status \notin {"none", "previewing", "preview_failed", "previewed"}
      /\ batch.status = "running" \/ budget.cancel = "late"
  BY <1>0 DEF IInv, Stages, Unstarted, Executing
<1>2. /\ item' = [item EXCEPT ![n].status = ex.result, ![n].result = ex.result]
      /\ ex' = [ex EXCEPT !.pc = "item", !.k = @ + 1, !.result = "none"]
  BY DEF ExecuteFinish
<1>21. ex.result \in Results /\ Tells(ex.result, seen[n]) /\ ex.result # "skipped_by_user"
  BY <1>0 DEF IInv, Walked, ExecutionState
<1>22. ex' \in ExecutionState /\ ex'.pc = "item" /\ ex'.k = n + 1
  <2>1. n + 1 \in 0..NumItems + 1
    BY <1>0 DEF Items
  <2> QED BY <1>0, <1>2, <2>1 DEF ExecutionState
<1>23. /\ item' \in [Items -> ItemRow] /\ item'[n].result = ex.result
      /\ \A j \in Items : /\ item'[j].snap = item[j].snap
                          /\ item'[j].executable = item[j].executable
                          /\ item'[j].selected = item[j].selected
                          /\ j # n => item'[j] = item[j]
  <2> DEFINE row == [item[n] EXCEPT !.status = ex.result, !.result = ex.result]
  <2>1. item' = [item EXCEPT ![n] = row]
    BY <1>0, <1>2
  <2>2. row \in ItemRow /\ row.result = ex.result /\ row.snap = item[n].snap
        /\ row.executable = item[n].executable /\ row.selected = item[n].selected
    BY <1>0, <1>21, ItemUpdates DEF ItemRow
  <2> HIDE DEF row
  <2>3. item' \in [Items -> ItemRow] /\ item'[n] = row /\ \A j \in Items \ {n} : item'[j] = item[j]
    BY <1>0, <2>1, <2>2
  <2> QED BY <2>2, <2>3
<1>31. TypeOK'
  BY <1>0, <1>2, <1>22, <1>23 DEF TypeOK
<1>32. Stages'
  BY <1>0, <1>1, <1>2, <1>22 DEF IInv, Stages, Previewing, Executing
<1>33. Unstarted'
  BY <1>0, <1>1, <1>2 DEF Unstarted, Previewing
<1>34. Approvable'
  BY <1>0, <1>1, <1>2 DEF IInv, Approvable
<1>35. Scanned'
  BY <1>0, <1>1, <1>2 DEF Scanned, Previewing
<1>36. Walked'
  <2>1. ASSUME NEW k \in Items
        PROVE  IF k >= n + 1 THEN Untouched(k)' ELSE Settled(k)'
    <3>1. CASE k = n
      BY <1>0, <1>21, <1>23, <3>1 DEF Settled, Items, Results
    <3>2. CASE k # n
      <4>1. (k > n => Untouched(k)) /\ (k < n => Settled(k))
        BY <1>0, <2>1 DEF IInv, Walked
      <4>2. item'[k] = item[k] /\ seen'[k] = seen[k]
        BY <1>0, <1>23, <2>1, <3>2
      <4>3. (k >= n + 1 => k > n) /\ (~(k >= n + 1) => k < n)
        BY <1>0, <2>1, <3>2 DEF Items
      <4> QED BY <4>1, <4>2, <4>3 DEF Untouched, Settled
    <3> QED BY <3>1, <3>2
  <2> QED BY <1>22, <2>1 DEF Walked
<1>37. ASSUME NEW k \in Items PROVE Planned(k)'
  BY <1>0, <1>2, <1>23, <1>37 DEF IInv, Planned
<1>38. ASSUME NEW k \in Items PROVE Chosen(k)'
  <2>1. k # n \/ item'[k].result # "skipped_by_user"
    BY <1>21, <1>23
  <2> QED BY <1>0, <1>23, <1>38, <2>1 DEF IInv, Chosen
<1>39. WrittenAsApproved'
  BY <1>0, <1>2, <1>23 DEF IInv, WrittenAsApproved
<1>40. ResultTells'
  <2>1. ASSUME NEW k \in Items PROVE Tells(item'[k].result, seen'[k])
    BY <1>0, <1>21, <1>23, <2>1 DEF IInv, ResultTells
  <2>2. \A k \in Items : DoubtIsReviewed(k)'
    BY <1>0, <1>1, <1>2 DEF DoubtIsReviewed
  <2> QED BY <1>0, <1>2, <2>1, <2>2 DEF IInv, ResultTells
<1> QED BY <1>31, <1>32, <1>33, <1>34, <1>35, <1>36, <1>37, <1>38, <1>39, <1>40 DEF IInv

LEMMA CrashStep == ASSUME IInv, Crash PROVE IInv'
<1>0. /\ TypeOK /\ budget \in Budget /\ up' = FALSE
      /\ pv' = IdlePreview /\ ex' = IdleExecution /\ request' = NoRequest
      /\ UNCHANGED <<batch, item, pjob, ejob>>
  BY DEF IInv, TypeOK, Crash, jobVars
<1>1. /\ pv' \in PreviewState /\ ex' \in ExecutionState /\ request' \in Requests
      /\ pv'.pc = "idle" /\ ex'.pc = "idle" /\ request'.approve = NoApproval
      /\ budget' \in Budget /\ budget'.cancel = budget.cancel
  <2>1. budget' \in Budget /\ budget'.cancel = budget.cancel
    <3>1. budget.troubles - 1 \in Nat
      BY <1>0 DEF Crash, Budget
    <3> QED BY <1>0, <3>1 DEF Crash, Budget
  <2>2. /\ pv' \in PreviewState /\ ex' \in ExecutionState /\ request' \in Requests
        /\ pv'.pc = "idle" /\ ex'.pc = "idle" /\ request'.approve = NoApproval
    BY <1>0, HandlerUpdates DEF IdlePreview, IdleExecution, NoRequest
  <2> QED BY <2>1, <2>2
<1>2. /\ repo' \in [Items -> Repository] /\ seen' \in [Items -> History]
      /\ \A k \in Items : Planned(k)' /\ Chosen(k)'
      /\ WrittenAsApproved'
      /\ \A k \in Items : Tells(item'[k].result, seen'[k]) /\ (seen[k].met = seen'[k].met)
      /\ \A k \in Items : seen'[k].commands = seen[k].commands \/ batch.started
      /\ (\A k \in Items : seen'[k] = seen[k]) \/ (batch.started /\ (batch.status = "running" \/ budget.cancel = "late"))
  <2>1. CASE UNCHANGED <<repo, seen>>
    BY <1>0, <2>1 DEF IInv, TypeOK, Planned, Chosen, WrittenAsApproved, ResultTells
  <2>2. CASE /\ ex.pc = "write"
             /\ \E effect \in BOOLEAN :
                  (effect => Accepts(batch.action, repo[ex.k])) /\ Commanded(ex.k, effect)
    <3>1. batch.started /\ (batch.status = "running" \/ budget.cancel = "late")
      BY <2>2 DEF IInv, Stages, Executing
    <3> QED BY <1>0, <2>2, <3>1, CommandKeeps
  <2> QED BY <2>1, <2>2 DEF Crash
<1>11. TypeOK'
  <2>1. up' \in BOOLEAN
    BY <1>0
  <2> QED BY <1>0, <1>1, <1>2, <2>1 DEF TypeOK
<1>12. Stages'
  BY <1>0, <1>1 DEF IInv, Stages, Previewing, Executing
<1>13. Unstarted'
  BY <1>0, <1>1, <1>2 DEF IInv, Unstarted, Previewing
<1>14. Approvable'
  BY <1>1 DEF Approvable
<1>15. Scanned'
  BY <1>0, <1>1 DEF IInv, Scanned, Whole
<1>16. Walked'
  BY <1>1 DEF Walked
<1>17. ResultTells'
  <2>1. \A k \in Items : DoubtIsReviewed(k)'
    BY <1>0, <1>1, <1>2 DEF IInv, ResultTells, DoubtIsReviewed
  <2> QED BY <1>0, <1>2, <2>1 DEF IInv, ResultTells
<1> QED BY <1>11, <1>12, <1>13, <1>14, <1>15, <1>16, <1>2, <1>17 DEF IInv

LEMMA EditStep == ASSUME IInv, NEW n \in Items, Edit(n) PROVE IInv'
<1>0. /\ TypeOK /\ budget \in Budget /\ repo \in [Items -> Repository] /\ seen \in [Items -> History]
      /\ UNCHANGED <<batch, item, pjob, ejob, pv, ex, request, up>>
  BY DEF IInv, TypeOK, Edit, jobVars
<1>1. repo' \in [Items -> Repository] /\ \A k \in Items \ {n} : repo'[k] = repo[k]
  <2>1. PICK r \in Edits(repo[n]) : repo' = [repo EXCEPT ![n] = r]
    BY DEF Edit
  <2>2. r \in Repository
    BY <1>0, <2>1, EditsType
  <2> QED BY <1>0, <2>1, <2>2
<1>2. /\ seen' \in [Items -> History]
      /\ \A k \in Items : /\ seen'[k].commands = seen[k].commands /\ seen'[k].changed = seen[k].changed
                          /\ seen'[k].looked = seen[k].looked /\ seen'[k].ran = seen[k].ran
                          /\ seen'[k].met = seen[k].met /\ seen'[k].cut = seen[k].cut
                          /\ seen[k].raced => seen'[k].raced
      /\ ex.pc = "write" /\ ex.k = n => seen'[n].raced
  <2> DEFINE x == seen[n].raced \/ (ex.pc = "write" /\ ex.k = n)
  <2>1. seen' = [k \in Items |-> IF k = n THEN [seen[n] EXCEPT !.raced = x] ELSE seen[k]]
    BY <1>0 DEF Edit
  <2>2. x \in BOOLEAN /\ seen[n] \in History
    BY <1>0 DEF History
  <2>3. x <=> (seen[n].raced \/ (ex.pc = "write" /\ ex.k = n))
    OBVIOUS
  <2> HIDE DEF x
  <2>4. [seen[n] EXCEPT !.raced = x] \in History
    BY <2>2 DEF History
  <2>5. seen' \in [Items -> History] /\ seen'[n] = [seen[n] EXCEPT !.raced = x]
        /\ \A k \in Items \ {n} : seen'[k] = seen[k]
    BY <1>0, <2>1, <2>4
  <2>6. /\ seen'[n].commands = seen[n].commands /\ seen'[n].changed = seen[n].changed
        /\ seen'[n].looked = seen[n].looked /\ seen'[n].ran = seen[n].ran
        /\ seen'[n].met = seen[n].met /\ seen'[n].cut = seen[n].cut /\ seen'[n].raced = x
    BY <2>2, <2>5 DEF History
  <2> QED BY <2>3, <2>5, <2>6
<1>3. budget' \in Budget /\ budget'.cancel = budget.cancel
  BY <1>0 DEF Edit, Budget
<1>11. TypeOK'
  BY <1>0, <1>1, <1>2, <1>3 DEF TypeOK
<1>12. Stages'
  BY <1>0, <1>3 DEF IInv, Stages, Previewing, Executing
<1>13. Unstarted'
  BY <1>0, <1>2 DEF IInv, Unstarted, Previewing
<1>14. Approvable'
  BY <1>0 DEF IInv, Approvable
<1>15. Scanned'
  BY <1>0 DEF IInv, Scanned, Whole
<1>16. Walked'
  <2>1. ASSUME NEW k \in Items
        PROVE  /\ Untouched(k) => Untouched(k)'
               /\ Settled(k) => Settled(k)'
               /\ \A v : Tells(v, seen[k]) => Tells(v, seen'[k])
    BY <1>0, <1>2, <2>1 DEF Untouched, Settled, Tells
  <2>2. ex.pc \in {"check", "write", "finish"} => ex.k \in Items
    BY DEF IInv, Stages
  <2>3. ex.pc = "write" => \/ seen'[ex.k].raced
                           \/ AsReviewed(batch.action, seen'[ex.k].looked, repo'[ex.k])
    BY <1>1, <1>2, <2>2 DEF IInv, Walked
  <2>4. ex.pc = "finish" => Tells(ex.result, seen'[ex.k])
    BY <2>1, <2>2 DEF IInv, Walked
  <2> QED BY <1>0, <2>1, <2>3, <2>4 DEF IInv, Walked
<1>17. ASSUME NEW k \in Items PROVE Planned(k)' /\ Chosen(k)'
  BY <1>0, <1>2, <1>17 DEF IInv, Planned, Chosen
<1>18. WrittenAsApproved'
  BY <1>0, <1>2 DEF IInv, WrittenAsApproved
<1>19. ResultTells'
  BY <1>0, <1>2, <1>3 DEF IInv, ResultTells, Tells, DoubtIsReviewed
<1> QED BY <1>11, <1>12, <1>13, <1>14, <1>15, <1>16, <1>17, <1>18, <1>19 DEF IInv

LEMMA Initially == Init => IInv
<1> SUFFICES ASSUME Init PROVE IInv
  OBVIOUS
<1>1. /\ NoBatch \in BatchRow /\ NoBatch.status = "none" /\ NoBatch.version = 0 /\ ~NoBatch.started
      /\ NoItem \in ItemRow /\ ~NoItem.executable /\ ~NoItem.selected /\ NoItem.result = "none"
      /\ Unseen \in History /\ Unseen.commands = 0 /\ Unseen.met /\ ~Unseen.changed
      /\ NoJob \in JobRow /\ ~NoJob.cancel /\ IdlePreview.pc = "idle" /\ IdleExecution.pc = "idle"
      /\ NoRequest.approve = NoApproval
  BY DEF NoBatch, NoItem, Unseen, NoJob, IdlePreview, IdleExecution, NoRequest, BatchRow, ItemRow,
     History, JobRow, BatchStatus, ItemStatus, JobStatus
<1>2. budget \in Budget /\ budget.cancel = "none" /\ up \in BOOLEAN /\ repo \in [Items -> Repository]
  BY DEF Init, Budget
<1>3. TypeOK
  BY <1>1, <1>2, HandlerUpdates DEF Init, TypeOK
<1>4. Stages /\ Unstarted /\ Approvable /\ Scanned /\ Walked
  BY <1>1, <1>2 DEF Init, Stages, Unstarted, Approvable, Scanned, Walked, Previewing, Executing
<1>5. (\A k \in Items : Planned(k) /\ Chosen(k)) /\ WrittenAsApproved /\ ResultTells
  BY <1>1 DEF Init, Planned, Chosen, WrittenAsApproved, ResultTells, Tells, DoubtIsReviewed
<1> QED BY <1>3, <1>4, <1>5 DEF IInv

LEMMA RestartStep == ASSUME IInv, Restart PROVE IInv'
<1>1. /\ UNCHANGED <<batch, item, pjob, ejob, pv, ex, request, repo, seen, budget>>
      /\ up' \in BOOLEAN /\ up'
  BY DEF Restart, jobVars
<1> QED BY <1>1, BehindTheScenes DEF IInv, TypeOK

LEMMA PreviewThrowsStep == ASSUME IInv, PreviewThrows PROVE IInv'
<1>1. /\ UNCHANGED <<batch, item, pjob, ejob, ex, request, up, repo, seen>> /\ up
      /\ budget' \in Budget /\ budget'.cancel = budget.cancel
  BY FaultType DEF PreviewThrows, jobVars, IInv, TypeOK
<1>2. pv' \in PreviewState /\ pv'.pc = "thrown"
  BY HandlerUpdates DEF PreviewThrows, IdlePreview, PreviewState
<1> QED BY <1>1, <1>2, BehindTheScenes DEF IInv, TypeOK

LEMMA PreviewFailsStep == ASSUME IInv, PreviewFails PROVE IInv'
<1>1. UNCHANGED <<batch, item, ejob, ex, request, up, repo, seen, budget>> /\ up
  BY DEF PreviewFails
<1>2. pv' \in PreviewState /\ pv'.pc = "idle"
  BY HandlerUpdates DEF PreviewFails, IdlePreview
<1>3. pjob' \in JobRow /\ pjob'.cancel = pjob.cancel
  BY JobUpdates DEF PreviewFails, IInv, TypeOK, JobStatus
<1> QED BY <1>1, <1>2, <1>3, BehindTheScenes DEF IInv, TypeOK

LEMMA ExecuteThrowsStep == ASSUME IInv, ExecuteThrows PROVE IInv'
<1>1. /\ UNCHANGED <<batch, item, pjob, ejob, pv, request, up, repo, seen>> /\ up
      /\ budget' \in Budget /\ budget'.cancel = budget.cancel
  BY FaultType DEF ExecuteThrows, jobVars, IInv, TypeOK
<1>2. ex' \in ExecutionState /\ ex'.pc = "thrown"
  BY HandlerUpdates DEF ExecuteThrows, IdleExecution, ExecutionState
<1> QED BY <1>1, <1>2, BehindTheScenes DEF IInv, TypeOK

LEMMA ExecuteFailsStep == ASSUME IInv, ExecuteFails PROVE IInv'
<1>1. UNCHANGED <<batch, item, pjob, pv, request, up, repo, seen, budget>> /\ up
  BY DEF ExecuteFails
<1>2. ex' \in ExecutionState /\ ex'.pc = "mark"
  BY DEF ExecuteFails, IInv, TypeOK, ExecutionState
<1>3. ejob' \in JobRow
  BY JobUpdates DEF ExecuteFails, IInv, TypeOK, JobStatus
<1> QED BY <1>1, <1>2, <1>3, BehindTheScenes DEF IInv, TypeOK

LEMMA ExecuteMarkStep == ASSUME IInv, ExecuteMark PROVE IInv'
<1>1. /\ UNCHANGED <<item, pjob, ejob, pv, request, up, repo, seen, budget>>
      /\ batch' = Reviewed /\ (up \/ pv.pc = "idle")
  BY DEF ExecuteMark, jobVars, IInv, Stages
<1>2. ex' \in ExecutionState /\ ex'.pc = "idle"
  BY HandlerUpdates DEF ExecuteMark, IdleExecution
<1> QED BY <1>1, <1>2, BehindTheScenes DEF IInv, TypeOK

LEMMA RecoverPreviewStep == ASSUME IInv, RecoverPreview PROVE IInv'
<1>1. /\ UNCHANGED <<batch, item, ejob, pv, ex, request, up, repo, seen, budget>>
      /\ ~up /\ ex.pc = "idle" /\ pv.pc = "idle"
  BY DEF RecoverPreview, IInv, Stages
<1>2. pjob' \in JobRow /\ pjob'.cancel = pjob.cancel
  BY JobUpdates DEF RecoverPreview, IInv, TypeOK, JobStatus
<1> QED BY <1>1, <1>2, BehindTheScenes DEF IInv, TypeOK

LEMMA RecoverExecutionStep == ASSUME IInv, RecoverExecution PROVE IInv'
<1>1. /\ UNCHANGED <<batch, item, pjob, pv, request, up, repo, seen, budget>>
      /\ ~up /\ pv.pc = "idle"
  BY DEF RecoverExecution, IInv, Stages
<1>2. ex' \in ExecutionState /\ ex'.pc = "mark"
  BY HandlerUpdates DEF RecoverExecution, IdleExecution, ExecutionState
<1>3. ejob' \in JobRow
  BY JobUpdates DEF RecoverExecution, IInv, TypeOK, JobStatus
<1> QED BY <1>1, <1>2, <1>3, BehindTheScenes DEF IInv, TypeOK

LEMMA UnchangedStep == ASSUME IInv, UNCHANGED vars PROVE IInv'
<1>1. UNCHANGED <<batch, item, pjob, ejob, pv, ex, request, up, repo, seen, budget>>
  BY DEF vars
<1>2. TypeOK'
  BY <1>1 DEF IInv, TypeOK
<1>3. Stages' /\ Unstarted' /\ Approvable' /\ Scanned' /\ Walked'
  BY <1>1 DEF IInv, Stages, Unstarted, Approvable, Scanned, Walked, Previewing, Executing,
     Whole, Untouched, Settled
<1>4. (\A k \in Items : Planned(k) /\ Chosen(k))' /\ WrittenAsApproved' /\ ResultTells'
  BY <1>1 DEF IInv, Planned, Chosen, WrittenAsApproved, ResultTells, Tells, DoubtIsReviewed
<1> QED BY <1>2, <1>3, <1>4 DEF IInv

LEMMA Inductive == IInv /\ [Next]_vars => IInv'
<1> SUFFICES ASSUME IInv, [Next]_vars PROVE IInv'
  OBVIOUS
<1>1. CASE UNCHANGED vars
  BY <1>1, UnchangedStep
<1>2. CASE Preview
  BY <1>2, PreviewStartStep, PreviewItemStep, PreviewPlanStep, PreviewFinishStep, PreviewReturnStep,
     PreviewFailsStep DEF Preview
<1>3. CASE Execute
  BY <1>3, ExecuteStartStep, ExecuteClaimStep, ExecuteItemStep, ExecuteCheckStep,
     ExecuteWriteStep, ExecuteFinishStep, ExecuteFinalStep, ExecuteReturnStep,
     ExecuteFailsStep, ExecuteMarkStep DEF Execute
<1>4. CASE User
  BY <1>4, CreatePreviewStep, ApproveReadStep, ApproveWriteStep, CancelReadStep, CancelWriteStep,
     ExpireStep DEF User
<1>5. CASE Time \/ \E k \in Items : Edit(k)
  BY <1>5, TimeStep, EditStep
<1>6. CASE Faults
  BY <1>6, PreviewThrowsStep, ExecuteThrowsStep, CrashStep DEF Faults
<1>7. CASE Boot
  BY <1>7, RecoverPreviewStep, RecoverExecutionStep, RestartStep DEF Boot
<1> QED BY <1>1, <1>2, <1>3, <1>4, <1>5, <1>6, <1>7 DEF Next

\* The invariant that carries the others.
THEOREM BatchInvariant == Spec => []IInv
BY Initially, Inductive, PTL DEF Spec

\* Every reachable state has the types that GitBatch declares.
THEOREM TypeCorrect == Spec => []TypeOK
<1>1. IInv => TypeOK
  BY DEF IInv
<1> QED BY <1>1, BatchInvariant, PTL

\* Whatever crashes, recoveries, repeated approvals and foreign changes happen,
\* a write command runs at most once per item, on a selected item, on the
\* repository the user reviewed (git-batch.handlers.ts:31, git-batch-engine.service.ts:77-111).
THEOREM CommandsAreApproved == Spec => []WrittenAsApproved
<1>1. IInv => WrittenAsApproved
  BY DEF IInv
<1> QED BY <1>1, BatchInvariant, PTL

\* A cancel that was written before the claim of the execution is final
\* (git-batch.service.ts:189-204).
THEOREM EarlyCancelIsFinal == Spec => []CancelHonoured
<1>1. IInv => CancelHonoured
  BY DEF IInv, CancelHonoured, Stages, Unstarted
<1> QED BY <1>1, BatchInvariant, PTL

\* The results on record tell what happened to the repositories, and what is
\* in doubt is under review (git-batch-engine.service.ts:77-151).
THEOREM ResultsAreTrue == Spec => []ResultTells
<1>1. IInv => ResultTells
  BY DEF IInv
<1> QED BY <1>1, BatchInvariant, PTL

\* What a preview offers for approval was planned to its end
\* (git-batch.handlers.ts:130).
THEOREM PreviewsAreWhole == Spec => []PreviewWhole
<1>1. IInv => PreviewWhole
  <2> SUFFICES ASSUME IInv, batch.status = "previewed", NEW k \in Items, item[k].executable
               PROVE  item[k].status = "previewed" /\ item[k].snap # None
    BY DEF PreviewWhole
  <2>1. item[k].status = "previewed"
    BY DEF IInv, Scanned, Whole
  <2>2. PICK x \in BOOLEAN : item[k].snap = Snapshot(batch.action, seen[k].looked, x)
    BY DEF IInv, Planned
  <2>3. seen[k].looked \in Repository /\ batch.action \in AllActions
    BY DEF IInv, Planned, TypeOK, History, BatchRow
  <2> QED BY <2>1, <2>2, <2>3, SnapshotType, NoneAssumption
<1> QED BY <1>1, BatchInvariant, PTL

=============================================================================
