------------------------------ MODULE GitBatch ------------------------------
(***************************************************************************)
(* Restricted git batches (modules/git-batches): a batch of one action on  *)
(* several repositories is previewed by a job that only reads, approved by *)
(* the user, and executed by a job that runs one write command per         *)
(* selected repository.  The working copies belong to the user, who goes   *)
(* on working in them; the remotes belong to everybody.                    *)
(*                                                                         *)
(* One batch.  Items are numbered by their ordinal; item k is repository   *)
(* k.  A snapshot hash stands for the snapshot: equal hashes, equal facts. *)
(***************************************************************************)
EXTENDS Integers, FiniteSets

CONSTANTS
  NumItems,      \* repositories of the batch
  Actions,       \* the git actions that may be requested
  Worlds,        \* the working copies the repositories may start as
  None,          \* no commit, no snapshot
  MaxAttempts,   \* maxAttempts of the preview job
  MaxEdits,      \* bound: changes made outside the service
  MaxTroubles    \* bound: crashes, and commands, reads and writes of rows that fail

Items == 1..NumItems

AllActions ==
  {"fetch_prune", "pull_ff_only", "create_branch", "checkout", "push_set_upstream",
   "push", "stash_create", "stash_apply", "stage_paths", "commit"}

Commits == {"base", "ours", "theirs"}
CommitOrNone == Commits \union {None}

\* A repository: the local branches main and topic, what is checked out, the
\* upstream of main, the tracking branch and the live remote branch of main,
\* the content of the index, and whether files are modified or in conflict.
\* "ours" stands for local commits on top of "base", "theirs" for foreign ones.
Repository ==
  [main: Commits, topic: CommitOrNone, on: {"main", "topic", "detached"},
   upstream: BOOLEAN, tracking: CommitOrNone, remote: CommitOrNone,
   staged: 0..2, dirty: BOOLEAN, conflict: BOOLEAN,
   same: BOOLEAN,       \* the path still holds the repository that was confirmed
   listed: BOOLEAN]     \* whitelistStatus is confirmed

ASSUME GitBatchAssumption ==
  /\ NumItems \in Nat \ {0}
  /\ Actions # {} /\ Actions \subseteq AllActions
  /\ None \notin Commits
  /\ Worlds \subseteq [Items -> Repository]
  /\ MaxAttempts \in Nat /\ MaxEdits \in Nat /\ MaxTroubles \in Nat

VARIABLES
  batch,     \* the git_batch row
  item,      \* item[k]: the git_batch_item row
  pjob,      \* the git.batch.preview job: [status, cancel, attempts]
  ejob,      \* the git.batch.execute job
  pv,        \* the preview handler in memory
  ex,        \* the execution handler in memory
  request,   \* approve and cancel, each between its read and its transaction
  up,        \* the service runs
  repo,      \* repo[k]: the working copy and its remote
  seen,      \* history: what happened to each repository, and faults
  budget     \* what the environment may still do, and what death and cancel left

jobVars == <<pjob, ejob>>
vars == <<batch, item, pjob, ejob, pv, ex, request, up, repo, seen, budget>>

----------------------------------------------------------------------------
(* The plan of an action (GitBatchEngineService.planAction) *)

IsAncestor(a, b) == a # None /\ (a = b \/ (a = "base" /\ b # None))
Head(r) == IF r.on = "topic" THEN r.topic ELSE r.main
Changed(r) == r.dirty \/ r.staged # 0
Tracked(r) == r.on = "main" /\ r.upstream

Decision(blocked, satisfied) == [blocked |-> blocked, satisfied |-> satisfied]

\* Pull only fast-forwards, on a clean working copy, towards a remote whose
\* live head equals the tracking branch.
PlanPull(r, reachable) ==
  LET current == reachable /\ r.tracking = r.remote /\ r.remote # None
      contained == current /\ IsAncestor(r.remote, r.main)
  IN  Decision(r.conflict \/ r.on = "detached" \/ Changed(r) \/ ~Tracked(r)
                 \/ ~current \/ (~contained /\ ~IsAncestor(r.main, r.remote)),
               contained)

\* create_branch and checkout switch only clean working copies; a branch that
\* exists elsewhere than at the baseline (origin/main) is never moved.
PlanBranch(a, r) ==
  IF a = "create_branch"
  THEN Decision(r.conflict \/ r.tracking = None \/ Changed(r)
                  \/ (r.topic # None /\ r.topic # r.tracking),
                r.topic = r.tracking /\ r.on = "topic")
  ELSE Decision(r.conflict \/ r.topic = None \/ Changed(r), r.on = "topic")

\* Mutant: the remote is believed from the tracking branch.
PlanPushTracking(a, r, reachable) ==
  Decision(r.conflict \/ (r.tracking = None /\ a = "push")
             \/ (r.tracking # None /\ r.tracking # r.main /\ ~IsAncestor(r.tracking, r.main)),
           r.main = r.tracking)

\* Push moves the remote only forward, and only when the live remote is known
\* to equal the tracking branch.
PlanPush(a, r, reachable) ==
  Decision(r.conflict \/ ~reachable
             \/ (r.remote = None /\ a = "push")
             \/ (r.remote # None /\ r.tracking # r.remote)
             \/ (r.remote # None /\ r.main # r.remote /\ ~IsAncestor(r.remote, r.main)),
           reachable /\ r.main = r.remote)

\* stash, stage and commit look at the index and the files only.
PlanFiles(a, r) ==
  CASE a = "stash_create" -> Decision(r.conflict, ~Changed(r))
    [] a = "stash_apply" -> Decision(r.conflict, FALSE)
    [] a = "stage_paths" -> Decision(~(Changed(r) \/ r.conflict), FALSE)
    [] a = "commit" -> Decision(r.staged = 0 \/ r.conflict, FALSE)

Plan(a, r, reachable) ==
  CASE a = "fetch_prune" -> Decision(r.conflict, FALSE)
    [] a = "pull_ff_only" -> PlanPull(r, reachable)
    [] a \in {"create_branch", "checkout"} -> PlanBranch(a, r)
    [] a \in {"push", "push_set_upstream"} -> PlanPush(a, r, reachable)
    [] OTHER -> PlanFiles(a, r)

\* The facts the action adds to the snapshot.
Facts(a, r, reachable) ==
  CASE a \in {"push", "push_set_upstream"} ->
         <<r.main, IF reachable THEN r.remote ELSE r.tracking>>
    [] a = "pull_ff_only" /\ Tracked(r) -> <<IF reachable THEN r.remote ELSE r.tracking>>
    [] a = "create_branch" -> <<r.tracking, r.topic>>
    [] a = "checkout" -> <<r.topic>>
    [] OTHER -> << >>

\* Mutant: the index is left out of the snapshot.
SnapshotNoIndex(a, r, reachable) ==
  [head |-> Head(r), on |-> r.on, tracked |-> Tracked(r),
   behind |-> IF Tracked(r) THEN r.tracking ELSE None,
   staged |-> r.staged # 0, dirty |-> r.dirty, conflict |-> r.conflict,
   facts |-> Facts(a, r, reachable)]

\* plan(): head, branch, upstream with its distance, status, index and facts.
\* Modified files count, their content does not.
Snapshot(a, r, reachable) ==
  [head |-> Head(r), on |-> r.on, tracked |-> Tracked(r),
   behind |-> IF Tracked(r) THEN r.tracking ELSE None,
   staged |-> r.staged, dirty |-> r.dirty, conflict |-> r.conflict,
   facts |-> Facts(a, r, reachable)]

\* What the detailed design calls the success of an action (04, section 6).
Goal(a, r) ==
  CASE a = "pull_ff_only" -> IsAncestor(r.remote, r.main)
    [] a = "create_branch" -> r.on = "topic" /\ r.topic = r.tracking
    [] a = "checkout" -> r.on = "topic"
    [] a = "push" -> IsAncestor(r.main, r.remote)
    [] a = "push_set_upstream" -> IsAncestor(r.main, r.remote) /\ r.upstream
    [] a = "stash_create" -> ~Changed(r)
    [] OTHER -> TRUE

\* What git makes of a repository when the command succeeds.
Result(a, r) ==
  CASE a = "fetch_prune" -> [r EXCEPT !.tracking = r.remote]
    [] a = "pull_ff_only" -> [r EXCEPT !.tracking = r.remote, !.main = r.remote]
    [] a = "create_branch" ->
         [r EXCEPT !.topic = IF @ = None THEN r.tracking ELSE @, !.on = "topic"]
    [] a = "checkout" -> [r EXCEPT !.on = "topic"]
    [] a \in {"push", "push_set_upstream"} ->
         [r EXCEPT !.remote = r.main, !.tracking = r.main,
                   !.upstream = @ \/ a = "push_set_upstream"]
    [] a = "stash_create" -> [r EXCEPT !.staged = 0, !.dirty = FALSE]
    [] a = "stash_apply" -> [r EXCEPT !.dirty = TRUE]
    [] a = "stage_paths" -> [r EXCEPT !.staged = 2, !.dirty = FALSE]
    [] a = "commit" ->
         IF r.on = "topic" THEN [r EXCEPT !.topic = "ours", !.staged = 0]
                           ELSE [r EXCEPT !.main = "ours", !.staged = 0]

\* Git itself refuses what would not be a fast-forward.
Accepts(a, r) ==
  CASE a = "pull_ff_only" -> r.remote # None /\ IsAncestor(r.main, r.remote) /\ Tracked(r)
    [] a \in {"push", "push_set_upstream"} -> r.remote = None \/ IsAncestor(r.remote, r.main)
    [] a = "checkout" -> r.topic # None
    [] a = "create_branch" -> r.tracking # None
    [] a = "commit" -> r.staged # 0 /\ ~r.conflict
    [] OTHER -> TRUE

----------------------------------------------------------------------------
(* Rows, handlers and history *)

FactLists == {<< >>} \union [1..1 -> CommitOrNone] \union [1..2 -> CommitOrNone]
Snapshots ==
  [head: CommitOrNone, on: {"main", "topic", "detached"}, tracked: BOOLEAN,
   behind: CommitOrNone, staged: 0..2, dirty: BOOLEAN, conflict: BOOLEAN,
   facts: FactLists]

ASSUME NoneAssumption == None \notin Repository /\ None \notin Snapshots

Ended == {"completed", "partial_failed", "failed", "needs_review"}
BatchStatus == {"none", "previewing", "preview_failed", "previewed", "expired",
                "cancelled", "approved", "running"} \union Ended
ItemStatus == {"queued", "previewing", "previewed", "blocked", "running"}
Results == {"succeeded", "already_satisfied", "skipped_by_user", "stale_preview",
            "blocked", "failed", "needs_review"}
Success == {"succeeded", "already_satisfied"}
Adverse == {"failed", "stale_preview", "blocked"}
JobStatus == {"none", "queued", "running", "succeeded", "cancelled", "unknown", "dead_letter"}

NoBatch == [status |-> "none", action |-> CHOOSE a \in Actions : TRUE, version |-> 0,
            started |-> FALSE, expired |-> FALSE]
NoItem == [status |-> "queued", snap |-> None, executable |-> FALSE, selected |-> FALSE,
           result |-> "none"]
NoJob == [status |-> "none", cancel |-> FALSE, attempts |-> 0]
IdlePreview == [pc |-> "idle", k |-> 0, listed |-> {}, taken |-> FALSE]
IdleExecution == [pc |-> "idle", k |-> 0, listed |-> {}, result |-> "none"]
NoApproval == [version |-> 0, chosen |-> {}]
NoRequest == [approve |-> NoApproval, cancel |-> FALSE]
Unseen == [looked |-> None, ran |-> None, commands |-> 0, changed |-> FALSE,
           met |-> TRUE, raced |-> FALSE, cut |-> FALSE]

BatchRow == [status: BatchStatus, action: Actions, version: Nat,
             started: BOOLEAN, expired: BOOLEAN]
ItemRow == [status: ItemStatus \union Results, snap: Snapshots \union {None},
            executable: BOOLEAN, selected: BOOLEAN, result: Results \union {"none"}]
JobRow == [status: JobStatus, cancel: BOOLEAN, attempts: Nat]
PreviewState == [pc: {"idle", "item", "plan", "finish", "return", "thrown"}, k: 0..NumItems + 1,
                 listed: SUBSET Items, taken: BOOLEAN]
ExecutionState ==
  [pc: {"idle", "start", "item", "check", "write", "finish", "final", "return", "thrown", "mark"},
   k: 0..NumItems + 1, listed: SUBSET Items, result: Results \union {"none"}]
Requests == [approve: [version: Nat, chosen: SUBSET Items], cancel: BOOLEAN]
History == [looked: Repository \union {None}, ran: Repository \union {None},
            commands: Nat, changed: BOOLEAN, met: BOOLEAN, raced: BOOLEAN, cut: BOOLEAN]
Budget == [edits: Nat, troubles: Nat, unmarked: BOOLEAN, cancel: {"none", "early", "late"}]

TypeOK ==
  /\ batch \in BatchRow /\ item \in [Items -> ItemRow]
  /\ pjob \in JobRow /\ ejob \in JobRow
  /\ pv \in PreviewState /\ ex \in ExecutionState
  /\ request \in Requests /\ up \in BOOLEAN
  /\ repo \in [Items -> Repository] /\ seen \in [Items -> History]
  /\ budget \in Budget

Init ==
  /\ batch = NoBatch
  /\ item = [k \in Items |-> NoItem]
  /\ pjob = NoJob /\ ejob = NoJob
  /\ pv = IdlePreview /\ ex = IdleExecution
  /\ request = NoRequest
  /\ up = TRUE
  /\ repo \in Worlds
  /\ seen = [k \in Items |-> Unseen]
  /\ budget = [edits |-> MaxEdits, troubles |-> MaxTroubles,
               unmarked |-> FALSE, cancel |-> "none"]

\* A network or disk failure that the environment may still cause.
Fault == budget.troubles > 0 /\ budget' = [budget EXCEPT !.troubles = @ - 1]

Listed == {k \in Items : repo[k].listed}

----------------------------------------------------------------------------
(* GitBatchService *)

\* createPreview: only repositories of the white list; batch, items and job in
\* one transaction.
CreatePreview(a) ==
  /\ up /\ batch.status = "none" /\ Listed = Items
  /\ batch' = [batch EXCEPT !.status = "previewing", !.action = a, !.version = 1]
  /\ pjob' = [pjob EXCEPT !.status = "queued"]
  /\ UNCHANGED <<item, ejob, pv, ex, request, up, repo, seen, budget>>

\* Ten minutes have passed since the preview.
Time ==
  /\ batch.status = "previewed" /\ ~batch.expired
  /\ batch' = [batch EXCEPT !.expired = TRUE]
  /\ UNCHANGED <<item, jobVars, pv, ex, request, up, repo, seen, budget>>

\* get and approve find the preview expired; the update is conditional.
Expire ==
  /\ up /\ batch.status = "previewed" /\ batch.expired
  /\ batch' = [batch EXCEPT !.status = "expired", !.version = @ + 1]
  /\ UNCHANGED <<item, jobVars, pv, ex, request, up, repo, seen, budget>>

\* approve up to its transaction: state, expiry, selection.
ApproveRead(chosen) ==
  /\ up /\ request.approve = NoApproval
  /\ batch.status = "previewed" /\ ~batch.expired
  /\ chosen # {} /\ \A k \in chosen : item[k].executable
  /\ request' = [request EXCEPT !.approve = [version |-> batch.version, chosen |-> chosen]]
  /\ UNCHANGED <<batch, item, jobVars, pv, ex, up, repo, seen, budget>>

Selected(row, chosen) ==
  IF chosen THEN [row EXCEPT !.selected = TRUE, !.status = "queued"]
  ELSE [row EXCEPT !.selected = FALSE, !.status = "skipped_by_user",
                   !.result = "skipped_by_user"]

\* Mutant: the transaction does not ask for status and version again.
ApproveWriteUnguarded ==
  /\ up /\ request.approve # NoApproval
  /\ request' = [request EXCEPT !.approve = NoApproval]
  /\ batch' = [batch EXCEPT !.status = "approved", !.version = @ + 1]
  /\ item' = [k \in Items |-> Selected(item[k], k \in request.approve.chosen)]
  /\ ejob' = [NoJob EXCEPT !.status = "queued"]
  /\ UNCHANGED <<pjob, pv, ex, up, repo, seen, budget>>

\* The transaction of approve, which claims the batch by status and version.
ApproveWrite ==
  /\ up /\ request.approve # NoApproval
  /\ request' = [request EXCEPT !.approve = NoApproval]
  /\ IF batch.status = "previewed" /\ batch.version = request.approve.version
     THEN /\ batch' = [batch EXCEPT !.status = "approved", !.version = @ + 1]
          /\ item' = [k \in Items |-> Selected(item[k], k \in request.approve.chosen)]
          /\ ejob' = [NoJob EXCEPT !.status = "queued"]
     ELSE UNCHANGED <<batch, item, ejob>>
  /\ UNCHANGED <<pjob, pv, ex, up, repo, seen, budget>>

\* cancel up to its transaction: refused once the execution has started.
CancelRead ==
  /\ up /\ ~request.cancel
  /\ ~batch.started
  /\ batch.status \in {"previewing", "preview_failed", "previewed", "approved"}
  /\ request' = [request EXCEPT !.cancel = TRUE]
  /\ UNCHANGED <<batch, item, jobVars, pv, ex, up, repo, seen, budget>>

CancelledJob(j) ==
  IF j.status = "queued" THEN [j EXCEPT !.status = "cancelled", !.cancel = TRUE] ELSE j

\* The transaction of cancel: by id, whatever the batch has become.  A running
\* preview is asked to stop; a running execution is not.  (The general endpoint
\* for operations refuses the jobs of a batch.)
CancelWrite ==
  /\ up /\ request.cancel /\ request' = [request EXCEPT !.cancel = FALSE]
  /\ batch' = [batch EXCEPT !.status = "cancelled", !.version = @ + 1]
  /\ pjob' = IF pjob.status = "running" THEN [pjob EXCEPT !.cancel = TRUE]
             ELSE CancelledJob(pjob)
  /\ ejob' = CancelledJob(ejob)
  /\ budget' = [budget EXCEPT !.cancel = IF batch.started THEN "late" ELSE "early"]
  /\ UNCHANGED <<item, pv, ex, up, repo, seen>>

----------------------------------------------------------------------------
(* GitBatchHandlers.preview *)

\* The runner claims the job; the handler loads batch, items and repositories.
PreviewStart ==
  /\ up /\ pjob.status = "queued" /\ ~pjob.cancel
  /\ pjob' = [pjob EXCEPT !.status = "running", !.attempts = @ + 1]
  /\ pv' = IF batch.status \in {"previewing", "preview_failed"}
           THEN [pc |-> "item", k |-> 1, listed |-> Listed, taken |-> FALSE]
           ELSE [IdlePreview EXCEPT !.pc = "return"]
  /\ UNCHANGED <<batch, item, ejob, ex, request, up, repo, seen, budget>>

\* The head of the loop: a requested cancellation ends it, the next item is
\* moved to previewing.
PreviewItem ==
  /\ up /\ pv.pc = "item"
  /\ IF pv.k > NumItems \/ pjob.cancel
     THEN pv' = [pv EXCEPT !.pc = "finish"] /\ UNCHANGED item
     ELSE /\ item' = [item EXCEPT ![pv.k].status = "previewing"]
          /\ pv' = [pv EXCEPT !.pc = "plan"]
  /\ UNCHANGED <<batch, jobVars, ex, request, up, repo, seen, budget>>

Previewed(row, snap, executable) ==
  [row EXCEPT !.status = IF executable THEN "previewed" ELSE "blocked",
              !.snap = snap, !.executable = executable]

\* Mutant: only the status is written.
UnplannedStatusOnly(row) == [row EXCEPT !.status = "blocked"]

Unplanned(row) == [row EXCEPT !.status = "blocked", !.executable = FALSE]

\* The engine reads the repository and its remote; if that throws, the item is
\* blocked.
PreviewPlan ==
  LET k == pv.k  a == batch.action IN
  /\ up /\ pv.pc = "plan"
  /\ \/ /\ k \in pv.listed /\ repo[k].same
        /\ \E reachable \in BOOLEAN :
             /\ item' = [item EXCEPT ![k] = Previewed(@, Snapshot(a, repo[k], reachable),
                                                      ~Plan(a, repo[k], reachable).blocked)]
             /\ IF reachable THEN UNCHANGED budget ELSE Fault
        /\ seen' = [seen EXCEPT ![k].looked = repo[k]]
        /\ pv' = [pv EXCEPT !.pc = "item", !.k = k + 1, !.taken = TRUE]
     \/ /\ IF k \in pv.listed /\ repo[k].same THEN Fault ELSE UNCHANGED budget
        /\ item' = [item EXCEPT ![k] = Unplanned(@)]
        /\ pv' = [pv EXCEPT !.pc = "item", !.k = k + 1]
        /\ UNCHANGED seen
  /\ UNCHANGED <<batch, jobVars, ex, request, up, repo>>

\* The batch is read again and published, unless it has left previewing.
PreviewFinish ==
  /\ up /\ pv.pc = "finish"
  /\ batch' = IF batch.status \in {"previewing", "preview_failed"}
              THEN [batch EXCEPT !.status = IF pv.taken THEN "previewed" ELSE "preview_failed",
                                 !.version = @ + 1]
              ELSE batch
  /\ pv' = [pv EXCEPT !.pc = "return"]
  /\ UNCHANGED <<item, jobVars, ex, request, up, repo, seen, budget>>

PreviewReturn ==
  /\ up /\ pv.pc = "return"
  /\ pjob' = [pjob EXCEPT !.status = IF pjob.cancel THEN "cancelled" ELSE "succeeded"]
  /\ pv' = IdlePreview
  /\ UNCHANGED <<batch, item, ejob, ex, request, up, repo, seen, budget>>

\* A statement outside the inner catch block is rejected: a read, the move to
\* previewing, the row of a blocked item, the progress, the publication, the end.
PreviewThrows ==
  /\ up /\ pv.pc \in {"item", "plan", "finish", "return"} /\ Fault
  /\ pv' = [IdlePreview EXCEPT !.pc = "thrown"]
  /\ UNCHANGED <<batch, item, jobVars, ex, request, up, repo, seen>>

\* The runner replays the preview until its attempts are used up; nothing tells the
\* batch of its dead letter (the handler has no onTerminalFailure).
PreviewFails ==
  /\ up /\ pv.pc = "thrown"
  /\ pjob' = [pjob EXCEPT !.status = IF pjob.attempts < MaxAttempts THEN "queued" ELSE "dead_letter"]
  /\ pv' = IdlePreview
  /\ UNCHANGED <<batch, item, ejob, ex, request, up, repo, seen, budget>>

----------------------------------------------------------------------------
(* GitBatchHandlers.execute *)

\* markManualReviewTarget: a batch that runs is put under review.
Reviewed == IF batch.status = "running"
            THEN [batch EXCEPT !.status = "needs_review", !.version = @ + 1] ELSE batch

ExecuteStart ==
  /\ up /\ ejob.status = "queued" /\ ~ejob.cancel
  /\ ejob' = [ejob EXCEPT !.status = "running"]
  /\ ex' = [IdleExecution EXCEPT !.pc = "start"]
  /\ UNCHANGED <<batch, item, pjob, pv, request, up, repo, seen, budget>>

\* The claim by status approved and executionStartedAt null, then the load of
\* the selected items with their repositories.  A claim that fails on a batch
\* that has not ended throws.
ExecuteClaim ==
  /\ up /\ ex.pc = "start"
  /\ IF batch.status = "approved" /\ ~batch.started
     THEN /\ batch' = [batch EXCEPT !.status = "running", !.started = TRUE, !.version = @ + 1]
          /\ ex' = [pc |-> "item", k |-> 1, listed |-> Listed, result |-> "none"]
     ELSE /\ ex' = [ex EXCEPT !.pc = IF batch.status \in Ended THEN "return" ELSE "thrown"]
          /\ UNCHANGED batch
  /\ UNCHANGED <<item, jobVars, pv, request, up, repo, seen, budget>>

\* The next selected item: its lock is free, since the executions of all
\* batches follow one another; setRunning.
ExecuteItem ==
  LET left == {k \in Items : k >= ex.k /\ item[k].selected} IN
  /\ up /\ ex.pc = "item"
  /\ \/ /\ left = {} /\ ex' = [ex EXCEPT !.pc = "final"] /\ UNCHANGED item
     \/ \E next \in left :
          /\ \A j \in left : next <= j
          /\ item' = [item EXCEPT ![next].status = "running"]
          /\ ex' = [ex EXCEPT !.pc = "check", !.k = next]
  /\ UNCHANGED <<batch, jobVars, pv, request, up, repo, seen, budget>>

\* What GitBatchEngineService.execute decides before it writes.
Verdict(a, r, snap, reachable) ==
  CASE Snapshot(a, r, reachable) # snap -> "stale_preview"
    [] Snapshot(a, r, reachable) = snap /\ Plan(a, r, reachable).blocked -> "blocked"
    [] Snapshot(a, r, reachable) = snap /\ ~Plan(a, r, reachable).blocked
         /\ Plan(a, r, reachable).satisfied -> "already_satisfied"
    [] OTHER -> "none"

\* The check before the write: identity and white list (the latter as loaded
\* when the execution began), then the snapshot and the plan.  A read that
\* fails fails the item.
ExecuteCheck ==
  LET k == ex.k  a == batch.action
      decide(v) == ex' = [ex EXCEPT !.pc = IF v = "none" THEN "write" ELSE "finish",
                                    !.result = v]
  IN
  /\ up /\ ex.pc = "check"
  /\ \/ /\ ~(k \in ex.listed /\ repo[k].same)
        /\ decide("stale_preview") /\ UNCHANGED <<seen, budget>>
     \/ k \in ex.listed /\ repo[k].same /\ decide("failed") /\ Fault /\ UNCHANGED seen
     \/ /\ k \in ex.listed /\ repo[k].same
        /\ \E reachable \in BOOLEAN :
             /\ IF reachable THEN UNCHANGED budget ELSE Fault
             /\ decide(Verdict(a, repo[k], item[k].snap, reachable))
             /\ seen' = [seen EXCEPT ![k].met =
                  Verdict(a, repo[k], item[k].snap, reachable) = "already_satisfied"
                    => Goal(a, repo[k])]
  /\ UNCHANGED <<batch, item, jobVars, pv, request, up, repo>>

\* The command runs on whatever the repository has become.
Commanded(k, effect) ==
  /\ repo' = IF effect THEN [repo EXCEPT ![k] = Result(batch.action, @)] ELSE repo
  /\ seen' = [seen EXCEPT ![k].commands = @ + 1, ![k].ran = repo[k], ![k].changed = effect]

Cut(k, effect) ==
  /\ repo' = IF effect THEN [repo EXCEPT ![k] = Result(batch.action, @)] ELSE repo
  /\ seen' = [seen EXCEPT ![k].commands = @ + 1, ![k].ran = repo[k], ![k].changed = effect,
                          ![k].cut = TRUE]

\* Mutant: a timeout is taken for a failure.
ExecuteWriteTimeoutFails ==
  LET k == ex.k IN
  /\ up /\ ex.pc = "write"
  /\ \E effect \in BOOLEAN :
       /\ effect => Accepts(batch.action, repo[k])
       /\ Commanded(k, effect)
       /\ ex' = [ex EXCEPT !.pc = "finish", !.result = "failed"]
  /\ UNCHANGED <<batch, item, jobVars, pv, request, up, budget>>

\* runWrite and the status after it.  Git may refuse for reasons of its own; a
\* timeout leaves a doubt; output over the limit, a killed process and a
\* failing status read all end in "failed".
ExecuteWrite ==
  LET k == ex.k  a == batch.action
      ends(v) == ex' = [ex EXCEPT !.pc = "finish", !.result = v]
  IN
  /\ up /\ ex.pc = "write"
  /\ \/ Accepts(a, repo[k]) /\ Commanded(k, TRUE) /\ ends("succeeded") /\ UNCHANGED budget
     \/ /\ Commanded(k, FALSE) /\ UNCHANGED budget
        /\ ends("failed") \/ (a = "stash_apply" /\ ends("needs_review"))
     \/ \E effect \in BOOLEAN :
          /\ effect => Accepts(a, repo[k])
          /\ Fault
          /\ \/ Commanded(k, effect) /\ ends("needs_review")
             \/ Cut(k, effect) /\ ends("failed")
  /\ UNCHANGED <<batch, item, jobVars, pv, request, up>>

\* Mutant: the result is reset before it is written.
ExecuteFinishSwapped ==
  /\ up /\ ex.pc = "finish"
  /\ ex' = [ex EXCEPT !.pc = "item", !.k = @ + 1, !.result = "none"]
  /\ item' = [item EXCEPT ![ex.k].status = ex'.result, ![ex.k].result = ex'.result]
  /\ UNCHANGED <<batch, jobVars, pv, request, up, repo, seen, budget>>

\* finishItem
ExecuteFinish ==
  /\ up /\ ex.pc = "finish"
  /\ item' = [item EXCEPT ![ex.k].status = ex.result, ![ex.k].result = ex.result]
  /\ ex' = [ex EXCEPT !.pc = "item", !.k = @ + 1, !.result = "none"]
  /\ UNCHANGED <<batch, jobVars, pv, request, up, repo, seen, budget>>

\* Mutant: doubt does not outrank failure.
FinalStatusNoDoubt(results) ==
  CASE results \intersect Adverse # {} /\ results \intersect Success # {} -> "partial_failed"
    [] results \intersect Adverse # {} /\ results \intersect Success = {} -> "failed"
    [] OTHER -> "completed"

FinalStatus(results) ==
  CASE "needs_review" \in results -> "needs_review"
    [] "needs_review" \notin results /\ results \intersect Adverse # {} ->
         IF results \intersect Success # {} THEN "partial_failed" ELSE "failed"
    [] OTHER -> "completed"

\* The summary, written by id.
ExecuteFinal ==
  /\ up /\ ex.pc = "final"
  /\ batch' = [batch EXCEPT !.status = FinalStatus({item[k].result : k \in Items}),
                            !.version = @ + 1]
  /\ ex' = [ex EXCEPT !.pc = "return"]
  /\ UNCHANGED <<item, jobVars, pv, request, up, repo, seen, budget>>

ExecuteReturn ==
  /\ up /\ ex.pc = "return"
  /\ ejob' = [ejob EXCEPT !.status = IF ejob.cancel THEN "cancelled" ELSE "succeeded"]
  /\ ex' = IdleExecution
  /\ UNCHANGED <<batch, item, pjob, pv, request, up, repo, seen, budget>>

\* A read or a write of the rows is rejected, the two of finishItem included.
ExecuteThrows ==
  /\ up /\ ex.pc \in {"start", "item", "finish", "final", "return"} /\ Fault
  /\ ex' = [IdleExecution EXCEPT !.pc = "thrown"]
  /\ UNCHANGED <<batch, item, jobVars, pv, request, up, repo, seen>>

\* The runner writes the job of a handler that threw, and then marks the batch.
ExecuteFails ==
  /\ up /\ ex.pc = "thrown"
  /\ ejob' = [ejob EXCEPT !.status = "unknown"]
  /\ ex' = [ex EXCEPT !.pc = "mark"]
  /\ UNCHANGED <<batch, item, pjob, pv, request, up, repo, seen, budget>>

\* Mutant: the batch is not marked.
ExecuteNoMark ==
  /\ ex.pc = "mark"
  /\ ex' = IdleExecution
  /\ UNCHANGED <<batch, item, jobVars, pv, request, up, repo, seen, budget>>

\* The mark, after the execution or at the boot.
ExecuteMark ==
  /\ ex.pc = "mark"
  /\ batch' = Reviewed
  /\ ex' = IdleExecution
  /\ UNCHANGED <<item, jobVars, pv, request, up, repo, seen, budget>>

----------------------------------------------------------------------------
(* Crash and recovery *)

\* A command in flight may or may not have had its effect; the mark of a job that
\* has already been written does not follow.
Crash ==
  /\ up \/ ex.pc = "mark"
  /\ budget.troubles > 0
  /\ up' = FALSE /\ pv' = IdlePreview /\ ex' = IdleExecution /\ request' = NoRequest
  /\ budget' = [budget EXCEPT !.troubles = @ - 1, !.unmarked = @ \/ ex.pc = "mark"]
  /\ \/ UNCHANGED <<repo, seen>>
     \/ /\ ex.pc = "write"
        /\ \E effect \in BOOLEAN :
             (effect => Accepts(batch.action, repo[ex.k])) /\ Commanded(ex.k, effect)
  /\ UNCHANGED <<batch, item, jobVars>>

\* onApplicationBootstrap takes the jobs that were running one by one: the preview is
\* safe_replay, the execution manual_review.
RecoverPreview ==
  /\ ~up /\ ex.pc = "idle" /\ pjob.status = "running"
  /\ pjob' = [pjob EXCEPT !.status = "queued"]
  /\ UNCHANGED <<batch, item, ejob, pv, ex, request, up, repo, seen, budget>>

\* Mutant: the execution is recovered like the preview.
RecoverReplay ==
  /\ ~up /\ ex.pc = "idle" /\ ejob.status = "running"
  /\ ejob' = [ejob EXCEPT !.status = "queued"]
  /\ batch' = IF batch.status = "running"
              THEN [batch EXCEPT !.status = "approved", !.started = FALSE] ELSE batch
  /\ UNCHANGED <<item, pjob, pv, ex, request, up, repo, seen, budget>>

RecoverExecution ==
  /\ ~up /\ ex.pc = "idle" /\ ejob.status = "running"
  /\ ejob' = [ejob EXCEPT !.status = "unknown"]
  /\ ex' = [IdleExecution EXCEPT !.pc = "mark"]
  /\ UNCHANGED <<batch, item, pjob, pv, request, up, repo, seen, budget>>

Restart ==
  /\ ~up /\ ex.pc = "idle" /\ "running" \notin {pjob.status, ejob.status}
  /\ up' = TRUE
  /\ UNCHANGED <<batch, item, jobVars, pv, ex, request, repo, seen, budget>>

----------------------------------------------------------------------------
(* The user at the command line, other people, and DELETE or disable of a
   repository in the service *)

Edits(r) ==
  {[r EXCEPT !.staged = 2], [r EXCEPT !.main = "ours", !.staged = 0],
   [r EXCEPT !.remote = "theirs"], [r EXCEPT !.tracking = r.remote],
   [r EXCEPT !.same = FALSE], [r EXCEPT !.listed = FALSE]}

Edit(k) ==
  /\ budget.edits > 0 /\ budget' = [budget EXCEPT !.edits = @ - 1]
  /\ \E r \in Edits(repo[k]) \ {repo[k]} : repo' = [repo EXCEPT ![k] = r]
  /\ seen' = [seen EXCEPT ![k].raced = @ \/ (ex.pc = "write" /\ ex.k = k)]
  /\ UNCHANGED <<batch, item, jobVars, pv, ex, request, up>>

----------------------------------------------------------------------------
Preview ==
  \/ PreviewStart \/ PreviewItem \/ PreviewPlan \/ PreviewFinish \/ PreviewReturn
  \/ PreviewFails
Execute ==
  \/ ExecuteStart \/ ExecuteClaim \/ ExecuteItem \/ ExecuteCheck
  \/ ExecuteWrite \/ ExecuteFinish \/ ExecuteFinal \/ ExecuteReturn
  \/ ExecuteFails \/ ExecuteMark
Boot == RecoverPreview \/ RecoverExecution \/ Restart
Faults == PreviewThrows \/ ExecuteThrows \/ Crash
User ==
  \/ \E a \in Actions : CreatePreview(a)
  \/ \E chosen \in SUBSET Items : ApproveRead(chosen)
  \/ ApproveWrite \/ CancelRead \/ CancelWrite \/ Expire

Next == Preview \/ Execute \/ User \/ Time \/ Faults \/ Boot \/ \E k \in Items : Edit(k)

Spec == Init /\ [][Next]_vars

\* The runner polls, every await of the handlers ends (git commands carry
\* timeouts), a request that was begun ends, and a service that is down is
\* started again.
FairSpec ==
  /\ Spec /\ WF_vars(Preview) /\ WF_vars(Execute) /\ WF_vars(Boot)
  /\ WF_vars(ApproveWrite) /\ WF_vars(CancelWrite)

----------------------------------------------------------------------------
(* Properties *)

\* What the user looked at when approving: the commit, branch and index the
\* command acts on and, for the remote actions, where the remote branch is.
AsReviewed(a, r, s) ==
  /\ Head(r) = Head(s) /\ r.on = s.on /\ r.staged = s.staged /\ r.conflict = s.conflict
  /\ a \in {"push", "push_set_upstream", "pull_ff_only"} =>
       r.remote = s.remote /\ r.main = s.main

\* A write command runs at most once per item over crashes, recoveries and repeated
\* approvals (git-batch.handlers.ts:31), and only on a selected item whose
\* repository still is what the preview showed, except for a change that falls
\* between the last check and the command itself (git-batch-engine.service.ts:77-111).
WrittenAsApproved ==
  \A k \in Items : seen[k].commands > 0 =>
    /\ seen[k].commands = 1
    /\ item[k].selected /\ item[k].executable
    /\ seen[k].looked # None
    /\ seen[k].raced \/ AsReviewed(batch.action, seen[k].looked, seen[k].ran)

\* A cancel that was written before the execution claimed the batch is final:
\* no approval, execution or preview in flight brings the batch back, and
\* nothing is ever written (git-batch.service.ts:189-204, :272).
CancelHonoured ==
  budget.cancel = "early" =>
    batch.status = "cancelled" /\ \A k \in Items : seen[k].commands = 0

\* What a result says of an item: nothing ran for one that was stale, blocked,
\* satisfied or skipped, and a failed one is unchanged unless its command was cut off.
Tells(result, s) ==
  /\ result \in {"stale_preview", "blocked", "already_satisfied", "skipped_by_user"}
       => s.commands = 0
  /\ result = "failed" /\ ~s.cut => ~s.changed
  /\ result = "succeeded" => s.changed

\* A repository that was changed without a success on record, by a crash or a
\* timeout, leaves its batch running or under review (unless cancelled late).
DoubtIsReviewed(k) ==
  seen[k].changed /\ item[k].result # "succeeded" /\ ~seen[k].cut /\ budget.cancel # "late"
    => batch.status \in {"running", "needs_review"}

\* The results tell what happened and what is in doubt is reviewed; already satisfied
\* means that the goal of the action holds, setting an upstream is the exception
\* (git-batch-engine.service.ts:77-151, :99-108).
ResultTells ==
  /\ \A k \in Items : Tells(item[k].result, seen[k]) /\ DoubtIsReviewed(k)
  /\ batch.action # "push_set_upstream" => \A k \in Items : seen[k].met

\* What a preview offers for approval was planned to its end, whatever was
\* replayed, cancelled or failed half way (git-batch.handlers.ts:130).
PreviewWhole ==
  batch.status = "previewed" =>
    \A k \in Items : item[k].executable => /\ item[k].status = "previewed"
                                          /\ item[k].snap # None

\* What has begun ends, over any number of deaths: a preview is published or cancelled
\* unless its job has used up its attempts, an execution reaches a final status unless it
\* was cancelled late or a process died between the update of its job and the mark
\* (job-runner.service.ts:33-51, 152-179), and an approved batch is executed unless its
\* job ended before it claimed the batch (git-batch.handlers.ts:168, job-runner.service.ts:210).
BatchSettles ==
  /\ batch.status = "previewing" ~> batch.status # "previewing" \/ pjob.status = "dead_letter"
  /\ batch.status = "running" ~>
       batch.status \in Ended \/ budget.cancel = "late" \/ budget.unmarked
  /\ batch.status = "approved" ~> batch.status # "approved" \/ ejob.status = "unknown"

----------------------------------------------------------------------------
(* What makes the safety properties inductive *)

Previewing == pv.pc \in {"item", "plan", "finish"}
Executing == ex.pc \in {"item", "check", "write", "finish", "final"}

\* The handlers are where their rows say: a preview works before the approval,
\* an execution after the claim, neither while the service is down.
Stages ==
  /\ ~up => pv.pc = "idle" /\ ex.pc \in {"idle", "mark"}
  /\ Previewing => /\ batch.status \in {"previewing", "preview_failed", "cancelled"}
                   /\ ~batch.started
  /\ pjob.cancel => batch.status \notin {"none", "previewing", "preview_failed", "previewed"}
  /\ Executing => batch.started /\ (batch.status = "running" \/ budget.cancel = "late")
  /\ budget.cancel = "early" => batch.status = "cancelled" /\ ~batch.started
  /\ pv.pc = "item" => pv.k >= 1
  /\ pv.pc = "plan" => pv.k \in Items
  /\ ex.pc \in {"check", "write", "finish"} => ex.k \in Items /\ item[ex.k].selected

\* Nothing is selected before the approval and nothing is run before the claim.
Unstarted ==
  /\ batch.status = "none" => batch.version = 0 /\ \A k \in Items : ~item[k].executable
  /\ batch.status \in {"none", "previewing", "preview_failed", "previewed"} \/ Previewing =>
       ~batch.started /\ \A k \in Items : ~item[k].selected /\ item[k].result = "none"
  /\ ~batch.started =>
       \A k \in Items : /\ seen[k].commands = 0 /\ seen[k].met
                        /\ item[k].result \in {"none", "skipped_by_user"}

\* An executable item was planned as it was looked at and found unblocked.
Planned(k) ==
  item[k].executable =>
    /\ seen[k].looked # None
    /\ \E reachable \in BOOLEAN :
         /\ item[k].snap = Snapshot(batch.action, seen[k].looked, reachable)
         /\ ~Plan(batch.action, seen[k].looked, reachable).blocked

\* An approval in flight that will still find its version names executable items.
Approvable ==
  request.approve # NoApproval =>
    /\ request.approve.version <= batch.version
    /\ request.approve.version = batch.version /\ batch.status = "previewed" =>
         \A k \in request.approve.chosen : item[k].executable

\* The items before the head of the preview's loop are whole.
Whole(k) == item[k].executable => item[k].status = "previewed"
Scanned ==
  /\ pv.pc \in {"item", "plan"} => \A k \in Items : k < pv.k => Whole(k)
  /\ pv.pc = "finish" => pjob.cancel \/ \A k \in Items : Whole(k)
  /\ batch.status = "previewed" => \A k \in Items : Whole(k)

\* A selected item is executable and not skipped; a change comes from a command.
Chosen(k) ==
  /\ item[k].selected => item[k].executable /\ item[k].result # "skipped_by_user"
  /\ seen[k].changed => seen[k].commands > 0

\* The items from the head of the execution's loop are untouched, those before
\* it are settled, and the one it is at is about to be recorded truly.
Untouched(k) == seen[k].commands = 0 /\ item[k].result \in {"none", "skipped_by_user"}
Settled(k) == seen[k].changed => item[k].result # "none"
Walked ==
  /\ ex.pc \in {"item", "check", "write"} =>
       \A k \in Items : IF k >= ex.k THEN Untouched(k) ELSE Settled(k)
  /\ ex.pc = "write" => \/ seen[ex.k].raced
                        \/ AsReviewed(batch.action, seen[ex.k].looked, repo[ex.k])
  /\ ex.pc = "finish" =>
       /\ \A k \in Items : /\ k > ex.k => Untouched(k)
                           /\ k < ex.k => Settled(k)
       /\ item[ex.k].result = "none"
       /\ ex.result \notin {"none", "skipped_by_user"} /\ Tells(ex.result, seen[ex.k])
  /\ ex.pc = "final" => \A k \in Items : Settled(k)

IInv ==
  /\ TypeOK /\ Stages /\ Unstarted /\ Approvable /\ Scanned /\ Walked
  /\ \A k \in Items : Planned(k) /\ Chosen(k)
  /\ WrittenAsApproved /\ ResultTells
=============================================================================
