----------------------------- MODULE JobRunner -----------------------------
(***************************************************************************)
(* The persistent job queue of the control service (modules/jobs): the     *)
(* job table with its partial unique index, the runner that polls, claims, *)
(* executes and settles jobs, the recovery it performs at bootstrap, the   *)
(* cancel endpoint, and the instance lease that is meant to keep a second  *)
(* process from scheduling.                                                *)
(*                                                                         *)
(* Every await of the code that separates a read from the write that uses  *)
(* it is a step boundary here.  Time advances in ticks; leaseUntil,        *)
(* expiresAt and scheduledAt are kept as the number of ticks left.         *)
(***************************************************************************)
EXTENDS Integers, FiniteSets

CONSTANTS
  Jobs,          \* ids of the job rows that may be created
  Procs,         \* process slots; a restarted slot is a new executionOwner
  Lanes,         \* bound: executions of one job that one process may overlap
  Types,         \* job types, all registered in onModuleInit of their handlers
  Recovery,      \* Recovery[t] \in {"safe_replay", "manual_review"}
  Concurrency,   \* Concurrency[t]: handler.concurrency
  Requests,      \* what producers enqueue: records [type, key]
  GitBatch,      \* the git.batch.* types, which the cancel endpoint refuses
  NoKey, NoProc, NoJob,
  MaxGlobal,     \* MAX_GLOBAL_CONCURRENCY
  MaxAttempts,   \* job.maxAttempts
  RetryDelay,    \* ticks of the backoff min(60 s, 2^attempt s)
  JobLease,      \* JOB_LEASE_MILLISECONDS in ticks
  InstLease,     \* LEASE_MILLISECONDS of the instance lease in ticks
  Beat,          \* heartbeat interval of execute, in ticks
  Renew,         \* interval of InstanceLeaseService.renew, in ticks
  MaxCrashes, MaxStops, MaxStalls, MaxCancels   \* bounds of the environment

ASSUME JobRunnerAssumption ==
  /\ NoProc \notin Procs /\ NoJob \notin Jobs
  /\ IsFiniteSet(Jobs) /\ IsFiniteSet(Procs)
  /\ Recovery \in [Types -> {"safe_replay", "manual_review"}]
  /\ Concurrency \in [Types -> Nat \ {0}]
  /\ Requests # {} /\ \A r \in Requests : r.type \in Types
  /\ MaxGlobal \in Nat \ {0} /\ MaxAttempts \in Nat \ {0}
  /\ RetryDelay \in Nat
  /\ Beat \in Nat \ {0} /\ Renew \in Nat \ {0}
  /\ JobLease \in Nat /\ InstLease \in Nat
  /\ Beat < JobLease /\ Renew < InstLease
  \* an instance lease that can no longer be renewed outlives the job leases
  /\ JobLease <= InstLease - Renew
  /\ {MaxCrashes, MaxStops, MaxStalls, MaxCancels} \subseteq Nat

VARIABLES
  job,       \* job[j]: the row of the job table
  lease,     \* the instance_lease row: [owner, left], owner = NoProc if absent
  mode,      \* mode[p]: "down", "booting", "exiting", "up" or "stalled"
  held,      \* held[p]: InstanceLeaseService.held
  boot,      \* boot[p]: bootstrap recovery [todo, mark]
  poll,      \* poll[p]: the poll loop [busy, cand, pick, seen]
  count,     \* count[p][t]: runningByType
  running,   \* running[p]: the keys of the running map
  exec,      \* exec[p][j][g]: where the g-th execute(j) of process p is
  cancel,    \* cancel[p]: requestCancel between its read and its write
  target,    \* target[j]: the domain aggregate behind payloadRef
  budget     \* what the environment may still do

dbVars == <<job, lease, target>>
execVars == <<count, running, exec>>
procVars == <<mode, held, boot, poll, count, running, exec, cancel>>
vars == <<job, lease, mode, held, boot, poll, count, running, exec, cancel,
          target, budget>>

----------------------------------------------------------------------------
(* Rows and process-local records *)

Active == {"queued", "running"}
Finished == {"succeeded", "failed", "cancelled", "dead_letter"}
Status == {"absent", "unknown"} \union Active \union Finished

\* The writes execute() may have decided on and not yet made.
Outcomes == {"succeeded", "cancelled", "queued", "failed", "dead_letter", "unknown"}
ExecPc == {"none", "claimed", "run", "mark", "callback"} \union Outcomes

Keys == {r.key : r \in Requests}

Row == [status: Status, type: Types, key: Keys, cancel: BOOLEAN, attempts: Nat,
        delay: Nat, owner: Procs \union {NoProc}, left: Int]

LeaseRow == [owner: Procs \union {NoProc}, left: Int]
BootState == [todo: SUBSET Jobs, mark: Jobs \union {NoJob}]
PollState == [busy: BOOLEAN, cand: SUBSET Jobs, pick: Jobs \union {NoJob}, seen: Nat]
CancelState == [job: Jobs \union {NoJob}, step: {"idle", "queued", "other", "callback"}]
Budget == [crashes: Nat, stops: Nat, stalls: Nat, cancels: Nat]

Mode == {"down", "booting", "exiting", "up", "stalled"}
TargetState == {"pending", "running", "done", "review", "released"}

TypeOK ==
  /\ job \in [Jobs -> Row]
  /\ lease \in LeaseRow
  /\ mode \in [Procs -> Mode]
  /\ held \in [Procs -> BOOLEAN]
  /\ boot \in [Procs -> BootState]
  /\ poll \in [Procs -> PollState]
  /\ count \in [Procs -> [Types -> Nat]]
  /\ running \in [Procs -> SUBSET Jobs]
  /\ exec \in [Procs -> [Jobs -> [Lanes -> ExecPc]]]
  /\ cancel \in [Procs -> CancelState]
  /\ target \in [Jobs -> TargetState]
  /\ budget \in Budget

IdleBoot == [todo |-> {}, mark |-> NoJob]
IdlePoll == [busy |-> FALSE, cand |-> {}, pick |-> NoJob, seen |-> 0]
NoCancel == [job |-> NoJob, step |-> "idle"]
NoLease == [owner |-> NoProc, left |-> 0]

----------------------------------------------------------------------------
(* Predicates of the code's where clauses and conditions *)

\* The event loop of p runs.
Awake(p) == mode[p] \in {"booting", "up"}

\* The executions in flight: of process p, and of job j.
Executing(p) == {e \in Jobs \X Lanes : exec[p][e[1]][e[2]] # "none"}
Executions(j) == {e \in Procs \X Lanes : exec[e[1]][j][e[2]] # "none"}

ManualReview(j) == Recovery[job[j].type] = "manual_review"

\* Mutant: only unowned rows are recovered.
JobExpiredUnowned(j) ==
  job[j].status = "running" /\ job[j].left < 0 /\ job[j].owner = NoProc

\* where: status running, leaseUntil < now
JobExpired(j) == job[j].status = "running" /\ job[j].left < 0

\* where: status queued, scheduledAt <= now, cancelRequested false
Due(j) == job[j].status = "queued" /\ job[j].delay = 0 /\ ~job[j].cancel

\* where of the claiming updateMany
Claimable(j) == job[j].status = "queued" /\ ~job[j].cancel

\* Mutant: the index covers queued rows only.
KeyTakenQueued(k, except) ==
  /\ k # NoKey
  /\ \E i \in Jobs \ {except} : job[i].status = "queued" /\ job[i].key = k

\* The partial unique index job_active_dedupe_key_unique.
KeyTaken(k, except) ==
  /\ k # NoKey
  /\ \E i \in Jobs \ {except} : job[i].status \in Active /\ job[i].key = k

\* Mutant: renewedAt is compared where expiresAt should be.
LeaseFreeIfNotFresh == lease.owner = NoProc \/ lease.left < InstLease

\* acquire(): the row is absent, or it has expired and is reclaimed.
LeaseFree == lease.owner = NoProc \/ lease.left < 0

\* Mutant: recovery mode ignored.
FailureStatusReplayAll(j, retryable) ==
  IF retryable /\ job[j].attempts < MaxAttempts THEN "queued" ELSE "failed"
\* The status the catch block of execute writes for a failed attempt.
FailureStatus(j, retryable) ==
  CASE ManualReview(j) -> "unknown"
    [] ~ManualReview(j) /\ ~retryable -> "failed"
    [] ~ManualReview(j) /\ retryable /\ job[j].attempts >= MaxAttempts -> "dead_letter"
    [] OTHER -> "queued"

\* Every write that ends an attempt clears leaseOwner and leaseUntil.
Released(row, status) == [row EXCEPT !.status = status, !.owner = NoProc, !.left = 0]

----------------------------------------------------------------------------
(* Initial state: an empty table and no process *)

BlankRow ==
  LET r == CHOOSE r \in Requests : TRUE
  IN  [status |-> "absent", type |-> r.type, key |-> r.key, cancel |-> FALSE,
       attempts |-> 0, delay |-> 0, owner |-> NoProc, left |-> 0]

Init ==
  /\ job = [j \in Jobs |-> BlankRow]
  /\ lease = NoLease
  /\ mode = [p \in Procs |-> "down"]
  /\ held = [p \in Procs |-> FALSE]
  /\ boot = [p \in Procs |-> IdleBoot]
  /\ poll = [p \in Procs |-> IdlePoll]
  /\ count = [p \in Procs |-> [t \in Types |-> 0]]
  /\ running = [p \in Procs |-> {}]
  /\ exec = [p \in Procs |-> [j \in Jobs |-> [g \in Lanes |-> "none"]]]
  /\ cancel = [p \in Procs |-> NoCancel]
  /\ target = [j \in Jobs |-> "pending"]
  /\ budget = [crashes |-> MaxCrashes, stops |-> MaxStops,
               stalls |-> MaxStalls, cancels |-> MaxCancels]

----------------------------------------------------------------------------
(* JobQueueService *)

QueuedRow(r) == [BlankRow EXCEPT !.status = "queued", !.type = r.type, !.key = r.key]

\* enqueue: an active row with the same key is returned instead of a new one;
\* losing the race for the unique index ends the same way.
Enqueue(p, j, r) ==
  /\ mode[p] = "up"
  /\ job[j].status = "absent"
  /\ ~KeyTaken(r.key, j)
  /\ job' = [job EXCEPT ![j] = QueuedRow(r)]
  /\ UNCHANGED <<lease, target, procVars, budget>>

\* requestCancel, its read and its refusals.
CancelRead(p, j) ==
  /\ mode[p] = "up" /\ cancel[p] = NoCancel
  /\ budget.cancels > 0
  /\ job[j].status \in Active \union {"unknown"}
  /\ job[j].type \notin GitBatch
  /\ cancel' = [cancel EXCEPT ![p] =
       [job |-> j, step |-> IF job[j].status = "queued" THEN "queued" ELSE "other"]]
  /\ budget' = [budget EXCEPT !.cancels = @ - 1]
  /\ UNCHANGED <<dbVars, mode, held, boot, poll, execVars>>

CancelledRow(row) == [row EXCEPT !.status = "cancelled", !.cancel = TRUE]

\* The unconditional update that follows, on whatever the row has become.
CancelWrite(p) ==
  LET j == cancel[p].job IN
  /\ mode[p] = "up"
  /\ \/ /\ cancel[p].step = "queued"
        /\ job' = [job EXCEPT ![j] = CancelledRow(@)]
        /\ cancel' = [cancel EXCEPT ![p].step = "callback"]
     \/ /\ cancel[p].step = "other"
        /\ job' = [job EXCEPT ![j].cancel = TRUE]
        /\ cancel' = [cancel EXCEPT ![p] = NoCancel]
  /\ UNCHANGED <<lease, target, mode, held, boot, poll, execVars, budget>>

\* onQueuedCancellation, for the handlers that have one.
QueuedCancellation(p) ==
  LET j == cancel[p].job IN
  /\ mode[p] = "up" /\ cancel[p].step = "callback"
  /\ cancel' = [cancel EXCEPT ![p] = NoCancel]
  /\ \/ target' = [target EXCEPT ![j] = IF @ \in {"pending", "running"}
                                          THEN "released" ELSE @]
     \/ UNCHANGED target
  /\ UNCHANGED <<job, lease, mode, held, boot, poll, execVars, budget>>

----------------------------------------------------------------------------
(* InstanceLeaseService and the process life cycle *)

\* All volatile state of p is gone; the rows stay as they are.
Die(p) ==
  /\ mode' = [mode EXCEPT ![p] = "down"]
  /\ held' = [held EXCEPT ![p] = FALSE]
  /\ boot' = [boot EXCEPT ![p] = IdleBoot]
  /\ poll' = [poll EXCEPT ![p] = IdlePoll]
  /\ count' = [count EXCEPT ![p] = [t \in Types |-> 0]]
  /\ running' = [running EXCEPT ![p] = {}]
  /\ exec' = [exec EXCEPT ![p] = [j \in Jobs |-> [g \in Lanes |-> "none"]]]
  /\ cancel' = [cancel EXCEPT ![p] = NoCancel]

\* The two bootstrap hooks of the jobs module start together: the runner lists
\* the expired rows while the lease service acquires.  If that fails, the
\* process ends, but the recovery loop may still run for a while.
Boot(p) ==
  /\ mode[p] = "down"
  /\ boot' = [boot EXCEPT ![p].todo = {j \in Jobs : JobExpired(j)}]
  /\ \/ /\ LeaseFree
        /\ lease' = [owner |-> p, left |-> InstLease]
        /\ held' = [held EXCEPT ![p] = TRUE]
        /\ mode' = [mode EXCEPT ![p] = "booting"]
     \/ /\ ~LeaseFree
        /\ mode' = [mode EXCEPT ![p] = "exiting"]
        /\ UNCHANGED <<lease, held>>
  /\ UNCHANGED <<job, target, poll, execVars, cancel, budget>>

\* One round of the recovery loop: an unconditional update of a listed row.  If
\* it hits the unique index, the bootstrap is rejected and the process ends.
RecoverReplay(p, j) ==
  /\ mode[p] \in {"booting", "exiting"}
  /\ boot[p].mark = NoJob /\ j \in boot[p].todo /\ ~ManualReview(j)
  /\ \/ /\ ~KeyTaken(job[j].key, j)
        /\ job' = [job EXCEPT ![j] = Released(@, "queued")]
        /\ boot' = [boot EXCEPT ![p].todo = @ \ {j}]
        /\ UNCHANGED <<mode, held, poll, execVars, cancel>>
     \/ KeyTaken(job[j].key, j) /\ Die(p) /\ UNCHANGED job
  /\ UNCHANGED <<lease, target, budget>>

RecoverReview(p, j) ==
  /\ mode[p] \in {"booting", "exiting"}
  /\ boot[p].mark = NoJob /\ j \in boot[p].todo /\ ManualReview(j)
  /\ job' = [job EXCEPT ![j] = Released(@, "unknown")]
  /\ boot' = [boot EXCEPT ![p] = [todo |-> @.todo \ {j}, mark |-> j]]
  /\ UNCHANGED <<lease, target, mode, held, poll, execVars, cancel, budget>>

\* markManualReviewTarget moves an aggregate that is still running to review.
Reviewed(t) == IF t = "running" THEN "review" ELSE t

RecoverMark(p) ==
  /\ mode[p] \in {"booting", "exiting"} /\ boot[p].mark # NoJob
  /\ target' = [target EXCEPT ![boot[p].mark] = Reviewed(@)]
  /\ boot' = [boot EXCEPT ![p].mark = NoJob]
  /\ UNCHANGED <<job, lease, mode, held, poll, execVars, cancel, budget>>

BootDone(p) ==
  /\ mode[p] = "booting" /\ boot[p] = IdleBoot
  /\ mode' = [mode EXCEPT ![p] = "up"]
  /\ UNCHANGED <<dbVars, held, boot, poll, execVars, cancel, budget>>

BootFails(p) == mode[p] = "exiting" /\ Die(p) /\ UNCHANGED <<dbVars, budget>>

Crash(p) ==
  /\ mode[p] \notin {"down", "exiting"} /\ budget.crashes > 0
  /\ Die(p)
  /\ budget' = [budget EXCEPT !.crashes = @ - 1]
  /\ UNCHANGED dbVars

\* onApplicationShutdown deletes the lease; running handlers are not awaited.
Stop(p) ==
  /\ mode[p] = "up" /\ budget.stops > 0
  /\ lease' = IF held[p] /\ lease.owner = p THEN NoLease ELSE lease
  /\ Die(p)
  /\ budget' = [budget EXCEPT !.stops = @ - 1]
  /\ UNCHANGED <<job, target>>

\* The event loop of p is blocked (or the machine suspends the process).
Stall(p) ==
  /\ mode[p] = "up" /\ budget.stalls > 0
  /\ mode' = [mode EXCEPT ![p] = "stalled"]
  /\ budget' = [budget EXCEPT !.stalls = @ - 1]
  /\ UNCHANGED <<dbVars, held, boot, poll, execVars, cancel>>

Wake(p) ==
  /\ mode[p] = "stalled"
  /\ mode' = [mode EXCEPT ![p] = "up"]
  /\ UNCHANGED <<dbVars, held, boot, poll, execVars, cancel, budget>>

\* Mutant: the timer renews only a lease that has already expired.
RenewDueLate(p) == held[p] /\ (lease.owner = p => lease.left < 0)

RenewDue(p) == held[p] /\ (lease.owner = p => lease.left <= InstLease - Renew)

RenewLease(p) ==
  /\ Awake(p) /\ RenewDue(p)
  /\ \/ /\ lease.owner = p
        /\ lease' = [lease EXCEPT !.left = InstLease]
        /\ UNCHANGED held
     \/ /\ lease.owner # p
        /\ held' = [held EXCEPT ![p] = FALSE]
        /\ UNCHANGED lease
  /\ UNCHANGED <<job, target, mode, boot, poll, execVars, cancel, budget>>

----------------------------------------------------------------------------
(* JobRunnerService.poll *)

\* The candidates are read once; the order among them is left open.
PollStart(p) ==
  /\ Awake(p) /\ held[p] /\ ~poll[p].busy
  /\ Cardinality(running[p]) < MaxGlobal
  /\ LET due == {j \in Jobs : Due(j)} IN
     /\ due # {}
     /\ poll' = [poll EXCEPT ![p] = [IdlePoll EXCEPT !.busy = TRUE, !.cand = due]]
  /\ UNCHANGED <<dbVars, mode, held, boot, execVars, cancel, budget>>

Dropped(loop, j) == [loop EXCEPT !.cand = @ \ {j}]
Picked(loop, j, seen) == [Dropped(loop, j) EXCEPT !.pick = j, !.seen = seen]
Unpicked(loop) == [loop EXCEPT !.pick = NoJob, !.seen = 0]

\* typeCount is read before the claiming update is awaited.
PollPick(p, j) ==
  LET t == job[j].type IN
  /\ Awake(p) /\ poll[p].busy /\ poll[p].pick = NoJob /\ j \in poll[p].cand
  /\ Cardinality(running[p]) < MaxGlobal
  /\ \/ /\ count[p][t] < Concurrency[t]
        /\ poll' = [poll EXCEPT ![p] = Picked(@, j, count[p][t])]
     \/ /\ count[p][t] >= Concurrency[t]
        /\ poll' = [poll EXCEPT ![p] = Dropped(@, j)]
  /\ UNCHANGED <<dbVars, mode, held, boot, execVars, cancel, budget>>

\* Mutant: attempts are counted down.
ClaimedCountingDown(row, p) ==
  [row EXCEPT !.status = "running", !.owner = p, !.left = JobLease, !.attempts = @ - 1]

Claimed(row, p) ==
  [row EXCEPT !.status = "running", !.owner = p, !.left = JobLease, !.attempts = @ + 1]

\* The claiming updateMany and, if it hit, the start of execute.
PollClaim(p) ==
  LET j == poll[p].pick IN
  /\ Awake(p) /\ j # NoJob
  /\ poll' = [poll EXCEPT ![p] = Unpicked(@)]
  /\ \/ /\ Claimable(j)
        /\ job' = [job EXCEPT ![j] = Claimed(@, p)]
        /\ \E g \in Lanes : /\ exec[p][j][g] = "none"
                            /\ exec' = [exec EXCEPT ![p][j][g] = "claimed"]
        /\ running' = [running EXCEPT ![p] = @ \union {j}]
        /\ count' = [count EXCEPT ![p][job[j].type] = poll[p].seen + 1]
     \/ ~Claimable(j) /\ UNCHANGED <<job, execVars>>
  /\ UNCHANGED <<lease, target, mode, held, boot, cancel, budget>>

\* Mutant: the finally that clears polling is missing.
PollEndStillPolling(p) ==
  /\ Awake(p) /\ poll[p].busy /\ poll[p].pick = NoJob
  /\ poll[p].cand = {} \/ Cardinality(running[p]) >= MaxGlobal
  /\ poll' = [poll EXCEPT ![p].cand = {}]
  /\ UNCHANGED <<dbVars, mode, held, boot, execVars, cancel, budget>>

PollEnd(p) ==
  /\ Awake(p) /\ poll[p].busy /\ poll[p].pick = NoJob
  /\ poll[p].cand = {} \/ Cardinality(running[p]) >= MaxGlobal
  /\ poll' = [poll EXCEPT ![p] = IdlePoll]
  /\ UNCHANGED <<dbVars, mode, held, boot, execVars, cancel, budget>>

----------------------------------------------------------------------------
(* JobRunnerService.execute *)

\* Execution g of job j goes on to s.
Advance(p, j, g, s) ==
  exec' = [exec EXCEPT ![p][j][g] = s] /\ UNCHANGED <<count, running>>

\* Mutant: the finally that returns the slot is missing.
DecrementedNot(n) == n

Decremented(n) == IF n > 0 THEN n - 1 ELSE 0

\* The finally of poll: the slot is free and the type count is decremented.
Finish(p, j, g) ==
  /\ exec' = [exec EXCEPT ![p][j][g] = "none"]
  /\ running' = [running EXCEPT ![p] = @ \ {j}]
  /\ count' = [count EXCEPT ![p][job[j].type] = Decremented(@)]

\* The interval of execute extends the lease of a row that p still owns.
HeartbeatDue(p, j, g) ==
  /\ exec[p][j][g] # "none" /\ job[j].status = "running" /\ job[j].owner = p
  /\ job[j].left <= JobLease - Beat

Heartbeat(p, j, g) ==
  /\ Awake(p) /\ HeartbeatDue(p, j, g)
  /\ job' = [job EXCEPT ![j].left = JobLease]
  /\ UNCHANGED <<lease, target, procVars, budget>>

\* The handler moves its aggregate to running before it acts.
HandlerStarts(p, j, g) ==
  /\ Awake(p) /\ exec[p][j][g] = "claimed"
  /\ Advance(p, j, g, "run")
  /\ target' = [target EXCEPT ![j] = IF @ = "pending" THEN "running" ELSE @]
  /\ UNCHANGED <<job, lease, mode, held, boot, poll, cancel, budget>>

\* The handler returned and the row was read again: the outcome is decided.
HandlerReturns(p, j, g) ==
  /\ Awake(p) /\ exec[p][j][g] = "run"
  /\ Advance(p, j, g, IF job[j].cancel THEN "cancelled" ELSE "succeeded")
  /\ target' = [target EXCEPT ![j] = IF @ = "running" THEN "done" ELSE @]
  /\ UNCHANGED <<job, lease, mode, held, boot, poll, cancel, budget>>

\* The handler threw; an outbound handler may have recorded the doubt itself.
HandlerThrows(p, j, g, retryable) ==
  /\ Awake(p) /\ exec[p][j][g] \in {"claimed", "run"}
  /\ Advance(p, j, g, FailureStatus(j, retryable))
  /\ \/ UNCHANGED target
     \/ ManualReview(j) /\ target' = [target EXCEPT ![j] = Reviewed(@)]
  /\ UNCHANGED <<job, lease, mode, held, boot, poll, cancel, budget>>

\* Mutants: the callback also runs after a requeue; the target is not marked.
AfterOutcomeRequeued(s) ==
  CASE s = "unknown" -> "mark"
    [] s \in {"failed", "dead_letter", "queued"} -> "callback"
    [] OTHER -> "none"
AfterOutcomeUnmarked(s) == IF s \in {"failed", "dead_letter"} THEN "callback" ELSE "none"

\* What follows the update of an attempt that ended with status s.
AfterOutcome(s) ==
  CASE s = "unknown" -> "mark"
    [] s \in {"failed", "dead_letter"} -> "callback"
    [] OTHER -> "none"

Settled(row, s) ==
  [Released(row, s) EXCEPT !.delay = IF s = "queued" THEN RetryDelay ELSE @]

\* The update by id that ends the attempt, whatever the row has become.
WriteOutcome(p, j, g) ==
  LET s == exec[p][j][g] IN
  /\ Awake(p) /\ s \in Outcomes
  /\ s = "queued" => ~KeyTaken(job[j].key, j)
  /\ job' = [job EXCEPT ![j] = Settled(@, s)]
  /\ IF AfterOutcome(s) = "none" THEN Finish(p, j, g) ELSE Advance(p, j, g, AfterOutcome(s))
  /\ UNCHANGED <<lease, target, mode, held, boot, poll, cancel, budget>>

\* The requeue hits the unique index: nothing catches the rejection of
\* execute(), and the runtime ends the process.
RequeueRejected(p, j, g) ==
  /\ Awake(p) /\ exec[p][j][g] = "queued" /\ KeyTaken(job[j].key, j)
  /\ Die(p)
  /\ UNCHANGED <<dbVars, budget>>

MarkTarget(p, j, g) ==
  /\ Awake(p) /\ exec[p][j][g] = "mark"
  /\ target' = [target EXCEPT ![j] = Reviewed(@)]
  /\ Finish(p, j, g)
  /\ UNCHANGED <<job, lease, mode, held, boot, poll, cancel, budget>>

\* onTerminalFailure; its own failure is logged and dropped.
TerminalFailure(p, j, g) ==
  /\ Awake(p) /\ exec[p][j][g] = "callback"
  /\ \/ target' = [target EXCEPT ![j] = IF @ \in {"pending", "running"}
                                          THEN "released" ELSE @]
     \/ UNCHANGED target
  /\ Finish(p, j, g)
  /\ UNCHANGED <<job, lease, mode, held, boot, poll, cancel, budget>>

----------------------------------------------------------------------------
(* Time *)

\* Timers of a process whose event loop runs fire before the next tick.
TimersFired ==
  \A p \in Procs : Awake(p) =>
    /\ \A j \in Jobs, g \in Lanes : ~HeartbeatDue(p, j, g)
    /\ lease.owner = p => ~RenewDue(p)

CountDown(n) == IF n > 0 THEN n - 1 ELSE 0
LeaseDown(n) == IF n >= 0 THEN n - 1 ELSE n

Elapsed(row) ==
  [row EXCEPT !.delay = IF row.status = "queued" THEN CountDown(@) ELSE @,
              !.left = IF row.status = "running" THEN LeaseDown(@) ELSE @]

Tick ==
  /\ TimersFired
  /\ job' = [j \in Jobs |-> Elapsed(job[j])]
  /\ lease' = IF lease.owner = NoProc THEN lease
              ELSE [lease EXCEPT !.left = LeaseDown(@)]
  /\ UNCHANGED <<target, procVars, budget>>

----------------------------------------------------------------------------
(* The specification *)

Bootstrap(p) ==
  \/ Boot(p) \/ BootDone(p) \/ BootFails(p) \/ RecoverMark(p)
  \/ \E j \in Jobs : RecoverReplay(p, j) \/ RecoverReview(p, j)

Polling(p) ==
  PollStart(p) \/ (\E j \in Jobs : PollPick(p, j)) \/ PollClaim(p) \/ PollEnd(p)

Execution(p, j, g) ==
  \/ HandlerStarts(p, j, g) \/ HandlerReturns(p, j, g)
  \/ \E retryable \in BOOLEAN : HandlerThrows(p, j, g, retryable)
  \/ WriteOutcome(p, j, g) \/ RequeueRejected(p, j, g)
  \/ MarkTarget(p, j, g) \/ TerminalFailure(p, j, g)

Requesting(p) ==
  \/ \E j \in Jobs, r \in Requests : Enqueue(p, j, r)
  \/ \E j \in Jobs : CancelRead(p, j)

Cancelling(p) == CancelWrite(p) \/ QueuedCancellation(p)

Environment(p) == Crash(p) \/ Stop(p) \/ Stall(p)

Next ==
  \/ Tick
  \/ \E p \in Procs :
       \/ Bootstrap(p) \/ RenewLease(p) \/ Polling(p)
       \/ Requesting(p) \/ Cancelling(p) \/ Environment(p) \/ Wake(p)
       \/ \E j \in Jobs, g \in Lanes : Heartbeat(p, j, g) \/ Execution(p, j, g)

Spec == Init /\ [][Next]_vars

\* A process that is down is started again, timers fire, and every await of
\* the service ends: handlers bound their external calls with timeouts.
Fairness ==
  /\ WF_vars(Tick)
  /\ \A p \in Procs :
       /\ WF_vars(Bootstrap(p)) /\ WF_vars(RenewLease(p))
       /\ WF_vars(Polling(p)) /\ WF_vars(Cancelling(p)) /\ WF_vars(Wake(p))
       /\ \A j \in Jobs, g \in Lanes : WF_vars(Heartbeat(p, j, g)) /\ WF_vars(Execution(p, j, g))

FairSpec == Spec /\ Fairness

----------------------------------------------------------------------------
(* Properties *)

NoStall == budget.stalls = MaxStalls
NoCancels == budget.cancels = MaxCancels

\* The handler of j runs on p, or its outcome is not yet written.
Working(p, j) == \E g \in Lanes : exec[p][j][g] \notin {"none", "mark", "callback"}

\* While nobody cancels, a business key is worked on by one execution at a time:
\* retries, crashes and recoveries never let the job of a second row with the
\* key start before the handler of the first has ended (migration.sql:197-200).
KeyExclusive ==
  NoCancels =>
    \A i, j \in Jobs :
      i # j /\ job[i].key = job[j].key /\ job[i].key # NoKey =>
        ~(\E p, q \in Procs : Working(p, i) /\ Working(q, j))

\* The handler of a manual_review job (an external write) is started at most
\* once over all crashes, restarts, stalls, recoveries and cancels, and once it
\* has been started the row never waits in the queue again (job-runner.ts:27).
ManualReviewOnce ==
  \A j \in Jobs : ManualReview(j) =>
    /\ job[j].attempts <= 1
    /\ job[j].status = "queued" => job[j].attempts = 0

\* The type count read before an await may be stale when it is written back
\* and then stays too high; still, a type none of whose jobs executes always
\* has a free slot, so the drift can never starve it (job-runner.ts:69-90).
SlotNeverLost ==
  \A p \in Procs, t \in Types :
    (\A e \in Executing(p) : job[e[1]].type # t) => count[p][t] < Concurrency[t]

\* As long as no process stalls, two processes never believe that they hold
\* the instance lease, crashes and restarts included.
SingleHolder ==
  NoStall => \A p, q \in Procs : held[p] /\ held[q] => p = q

\* As long as no process stalls, a job is executed by one process at a time:
\* recovery hands over only rows whose executor is gone.
SingleExecutor ==
  NoStall => \A j \in Jobs : \A d, e \in Executions(j) : d[1] = e[1]

\* A manual_review job in status unknown leaves no aggregate running unless the
\* step that marks it is still pending.
Reviewable(j) ==
  ManualReview(j) /\ job[j].status = "unknown" /\ target[j] = "running"
  => \E p \in Procs : boot[p].mark = j \/ \E g \in Lanes : exec[p][j][g] # "none"

Died(p) == mode[p] # "down" /\ mode'[p] = "down"

\* Only the death of a process, which takes its pending steps with it, ever leaves
\* an external write in doubt that no review shows (job-runner.service.ts:38-44,
\* 176-187): no outcome, recovery, cancel, stall or second service does.
UnknownIsReviewable ==
  [][(\A p \in Procs : ~Died(p)) => \A j \in Jobs : Reviewable(j) => Reviewable(j)']_vars

\* If nobody cancels and every process dies by crashing (its instance lease
\* then outlives its job leases), every job that is queued or running ends.
EveryJobSettles ==
  \A j \in Jobs : job[j].status \in Active ~> job[j].status \notin Active

----------------------------------------------------------------------------
(* Auxiliary invariants used by the proofs *)

\* A row that has not been created was never attempted, and no volatile state
\* refers to it.
AbsentIdle ==
  \A j \in Jobs : job[j].status = "absent" =>
    /\ job[j].attempts = 0
    /\ \A p \in Procs :
         /\ \A g \in Lanes : exec[p][j][g] = "none"
         /\ j \notin poll[p].cand /\ poll[p].pick # j
         /\ cancel[p].job # j /\ j \notin boot[p].todo

\* An execution of a manual_review job never decides to requeue it or to end it as
\* failed, so that what follows an attempt in doubt is always the mark.
Refused == {"queued", "failed", "dead_letter", "callback"}

NoManualRetry ==
  \A p \in Procs, j \in Jobs, g \in Lanes :
    ManualReview(j) => exec[p][j][g] \notin Refused

\* A type count never exceeds the limit, and one that reaches it is backed by an
\* execution of that type.
CountBacked(p, t) ==
  \/ count[p][t] < Concurrency[t]
  \/ /\ count[p][t] = Concurrency[t]
     /\ \E j \in Jobs, g \in Lanes : exec[p][j][g] # "none" /\ job[j].type = t

\* A pick in flight was counted below the limit.
PickBelow(p) == poll[p].pick # NoJob => poll[p].seen < Concurrency[job[poll[p].pick].type]

SlotBacked == \A p \in Procs : PickBelow(p) /\ \A t \in Types : CountBacked(p, t)

\* Whoever holds the lease is awake and owns a lease row that has not expired,
\* and only the holder polls and executes.
HolderOrIdle(p) ==
  /\ mode[p] # "stalled"
  /\ held[p] => mode[p] \in {"booting", "up"} /\ lease.owner = p /\ lease.left >= 0
  /\ poll[p].busy \/ poll[p].pick # NoJob => held[p]
  /\ \A j \in Jobs, g \in Lanes : exec[p][j][g] # "none" => held[p]

\* This is so until a process stalls.
HolderInv ==
  /\ budget.stalls <= MaxStalls
  /\ NoStall => \A p \in Procs : HolderOrIdle(p)

\* What the instance lease is there for: one process at a time.
OneProcess == \A p, q \in Procs : p = q

Idle(p, j) == \A g \in Lanes : exec[p][j][g] = "none"

\* What a process can hold in the phases of its life: a dead one nothing, a booting
\* one no cancel, and only a starting one rows to recover.
LifeInv ==
  \A p \in Procs :
    /\ mode[p] \in {"down", "up", "stalled"} => boot[p] = IdleBoot
    /\ mode[p] \notin {"up", "stalled"} => cancel[p] = NoCancel
    /\ mode[p] \in {"down", "exiting"} => \A j \in Jobs : Idle(p, j)

\* A row that waits is not executed, a row is executed once at a time, and a row
\* listed for recovery is an orphan until it is recovered.
SoleExecution ==
  \A p \in Procs, j \in Jobs :
    /\ job[j].status = "queued" => Idle(p, j)
    /\ \A g, h \in Lanes : exec[p][j][g] # "none" /\ exec[p][j][h] # "none" => g = h
    /\ j \in boot[p].todo => job[j].status = "running" /\ Idle(p, j)

\* A row that was read as queued by a cancel has not become an orphan meanwhile.
CancelSeesLife ==
  \A p \in Procs : cancel[p].step = "queued" =>
    \A j \in Jobs : cancel[p].job = j /\ job[j].status = "running" => ~Idle(p, j)

\* After its last write an execution stands on a row that has ended or is in doubt,
\* and only an external write is ever in doubt.
EndsInv ==
  \A p \in Procs, j \in Jobs :
    /\ \A g \in Lanes :
         /\ exec[p][j][g] = "mark" => job[j].status \in {"unknown", "cancelled"}
         /\ exec[p][j][g] = "callback" => job[j].status \in {"failed", "dead_letter", "cancelled"}
         /\ exec[p][j][g] \in {"unknown", "mark"} => ManualReview(j)
    /\ job[j].status = "unknown" => ManualReview(j)

\* What the partial unique index is there for.
UniqueKeys ==
  \A i, j \in Jobs :
    job[i].status \in Active /\ job[j].status \in Active
      /\ job[i].key = job[j].key /\ job[i].key # NoKey => i = j

\* While nobody cancels, a row whose handler runs says so.
WorkIsRunning ==
  /\ budget.cancels <= MaxCancels
  /\ NoCancels =>
       \A p \in Procs :
         /\ cancel[p] = NoCancel
         /\ \A j \in Jobs : Working(p, j) => job[j].status = "running"

\* The inductive invariant of a machine with one process.
SoleInv ==
  LifeInv /\ SoleExecution /\ CancelSeesLife /\ EndsInv /\ WorkIsRunning
=============================================================================
