-------------------------- MODULE JobRunnerProofs --------------------------
(* Theorems about JobRunner and OneShotJob, for every set of jobs, processes *)
(* and types and every value of the bounds.                                 *)
EXTENDS JobRefinement, TLAPS

USE DEF Active, Finished, Outcomes, Status

\* A producer's request and the row it creates are well formed.
LEMMA BlankRowType == BlankRow \in Row
<1>1. PICK r \in Requests : r = CHOOSE x \in Requests : TRUE
  BY JobRunnerAssumption
<1>2. r.type \in Types /\ r.key \in Keys
  BY <1>1, JobRunnerAssumption DEF Keys
<1> QED BY <1>1, <1>2 DEF BlankRow, Row

\* Updating one field of a row with a value of its type leaves a row.
LEMMA FieldUpdates ==
  ASSUME NEW r \in Row
  PROVE  /\ \A s \in Status : [r EXCEPT !.status = s] \in Row
         /\ \A t \in Types : [r EXCEPT !.type = t] \in Row
         /\ \A k \in Keys : [r EXCEPT !.key = k] \in Row
         /\ \A c \in BOOLEAN : [r EXCEPT !.cancel = c] \in Row
         /\ \A n \in Nat : [r EXCEPT !.attempts = n] \in Row
         /\ \A d \in Nat : [r EXCEPT !.delay = d] \in Row
         /\ \A o \in Procs \union {NoProc} : [r EXCEPT !.owner = o] \in Row
         /\ \A l \in Int : [r EXCEPT !.left = l] \in Row
BY DEF Row

\* The updates of a row keep it a row.
LEMMA ReleasedType ==
  ASSUME NEW r \in Row, NEW s \in Status
  PROVE  Released(r, s) \in Row
<1> DEFINE r1 == [r EXCEPT !.status = s]
           r2 == [r1 EXCEPT !.owner = NoProc]
           r3 == [r2 EXCEPT !.left = 0]
<1>1. r1 \in Row BY FieldUpdates
<1>2. r2 \in Row <2> HIDE DEF r1 <2> QED BY <1>1, FieldUpdates
<1>3. r3 \in Row
  <2> HIDE DEF r2
  <2>1. \A l \in Int : [r2 EXCEPT !.left = l] \in Row BY <1>2, FieldUpdates
  <2>2. 0 \in Int OBVIOUS
  <2> QED BY <2>1, <2>2, Zenon
<1> QED BY <1>3 DEF Released

LEMMA SettledType ==
  ASSUME NEW r \in Row, NEW s \in Status
  PROVE  Settled(r, s) \in Row
<1> DEFINE q == Released(r, s)
           d == IF s = "queued" THEN RetryDelay ELSE q.delay
<1>1. q \in Row BY ReleasedType
<1>2. d \in Nat <2> HIDE DEF q <2> QED BY <1>1, JobRunnerAssumption DEF Row
<1>3. [q EXCEPT !.delay = d] \in Row <2> HIDE DEF q, d <2> QED BY <1>1, <1>2, FieldUpdates
<1> QED BY <1>3 DEF Settled

LEMMA ElapsedType ==
  ASSUME NEW r \in Row
  PROVE  Elapsed(r) \in Row
<1> DEFINE d == IF r.status = "queued" THEN CountDown(r.delay) ELSE r.delay
           q == [r EXCEPT !.delay = d]
           l == IF r.status = "running" THEN LeaseDown(q.left) ELSE q.left
<1>1. d \in Nat BY DEF Row, CountDown
<1>2. q \in Row <2> HIDE DEF d <2> QED BY <1>1, FieldUpdates
<1>3. l \in Int <2> HIDE DEF q <2> QED BY <1>2 DEF Row, LeaseDown
<1>4. [q EXCEPT !.left = l] \in Row <2> HIDE DEF q, l <2> QED BY <1>2, <1>3, FieldUpdates
<1> QED BY <1>4 DEF Elapsed

\* The idle values of the process-local records are well typed.
LEMMA IdleTypes ==
  /\ IdleBoot \in BootState
  /\ IdlePoll \in PollState
  /\ NoCancel \in CancelState
  /\ NoLease \in LeaseRow
BY DEF IdleBoot, IdlePoll, NoCancel, NoLease, BootState, PollState, CancelState, LeaseRow

\* The same for the other records: one field at a time.
LEMMA RecordUpdates ==
  /\ \A b \in BootState, T \in SUBSET Jobs : [b EXCEPT !.todo = T] \in BootState
  /\ \A b \in BootState, m \in Jobs \union {NoJob} : [b EXCEPT !.mark = m] \in BootState
  /\ \A q \in PollState, C \in SUBSET Jobs : [q EXCEPT !.cand = C] \in PollState
  /\ \A q \in PollState, i \in Jobs \union {NoJob} : [q EXCEPT !.pick = i] \in PollState
  /\ \A q \in PollState, n \in Nat : [q EXCEPT !.seen = n] \in PollState
  /\ \A c \in CancelState : [c EXCEPT !.step = "callback"] \in CancelState
  /\ \A l \in LeaseRow, n \in Int : [l EXCEPT !.left = n] \in LeaseRow
BY DEF BootState, PollState, CancelState, LeaseRow

LEMMA BudgetUpdates ==
  ASSUME NEW b \in Budget
  PROVE  /\ b.crashes > 0 => [b EXCEPT !.crashes = @ - 1] \in Budget
         /\ b.stops > 0 => [b EXCEPT !.stops = @ - 1] \in Budget
         /\ b.stalls > 0 => [b EXCEPT !.stalls = @ - 1] \in Budget
         /\ b.cancels > 0 => [b EXCEPT !.cancels = @ - 1] \in Budget
BY DEF Budget

\* A process that dies leaves well-typed volatile state behind.
LEMMA DieType ==
  ASSUME TypeOK, NEW p \in Procs, Die(p), UNCHANGED <<job, target>>,
         lease' \in LeaseRow, budget' \in Budget
  PROVE  TypeOK'
BY IdleTypes DEF TypeOK, Die, ExecPc, Mode

\* The execution points reached by Advance and Finish are well typed.
LEMMA AdvanceType ==
  ASSUME TypeOK, NEW p \in Procs, NEW j \in Jobs, NEW g \in Lanes,
         NEW s \in ExecPc, Advance(p, j, g, s)
  PROVE  /\ exec' \in [Procs -> [Jobs -> [Lanes -> ExecPc]]]
         /\ running' \in [Procs -> SUBSET Jobs]
         /\ count' \in [Procs -> [Types -> Nat]]
BY DEF TypeOK, Advance

LEMMA FinishType ==
  ASSUME TypeOK, NEW p \in Procs, NEW j \in Jobs, NEW g \in Lanes, Finish(p, j, g)
  PROVE  /\ exec' \in [Procs -> [Jobs -> [Lanes -> ExecPc]]]
         /\ running' \in [Procs -> SUBSET Jobs]
         /\ count' \in [Procs -> [Types -> Nat]]
<1>1. job[j].type \in Types
  BY DEF TypeOK, Row
<1>2. \A n \in Nat : Decremented(n) \in Nat
  BY DEF Decremented
<1> QED BY <1>1, <1>2 DEF TypeOK, Finish, ExecPc

LEMMA FailureStatusType ==
  ASSUME NEW j, NEW r PROVE FailureStatus(j, r) \in {"unknown", "failed", "dead_letter", "queued"}
BY DEF FailureStatus

LEMMA AfterOutcomeType ==
  ASSUME NEW s PROVE AfterOutcome(s) \in {"mark", "callback", "none"}
BY DEF AfterOutcome

\* The row a producer inserts, and the row a claim leaves behind.
LEMMA EnqueuedType ==
  ASSUME NEW r \in Requests
  PROVE  QueuedRow(r) \in Row
<1> DEFINE r1 == [BlankRow EXCEPT !.status = "queued"]
           r2 == [r1 EXCEPT !.type = r.type]
<1>1. r1 \in Row BY BlankRowType, FieldUpdates
<1>2. r2 \in Row
  <2> HIDE DEF r1
  <2> QED BY <1>1, FieldUpdates, JobRunnerAssumption
<1>3. [r2 EXCEPT !.key = r.key] \in Row
  <2> HIDE DEF r2
  <2>1. r.key \in Keys BY DEF Keys
  <2> QED BY <1>2, <2>1, FieldUpdates
<1> QED BY <1>3 DEF QueuedRow

LEMMA CancelledType ==
  ASSUME NEW r \in Row
  PROVE  CancelledRow(r) \in Row
<1> DEFINE r1 == [r EXCEPT !.status = "cancelled"]
<1>1. r1 \in Row BY FieldUpdates
<1>2. [r1 EXCEPT !.cancel = TRUE] \in Row <2> HIDE DEF r1 <2> QED BY <1>1, FieldUpdates
<1> QED BY <1>2 DEF CancelledRow

LEMMA ClaimedType ==
  ASSUME NEW r \in Row, NEW p \in Procs
  PROVE  Claimed(r, p) \in Row
<1> DEFINE r1 == [r EXCEPT !.status = "running"]
           r2 == [r1 EXCEPT !.owner = p]
           r3 == [r2 EXCEPT !.left = JobLease]
<1>1. r1 \in Row BY FieldUpdates
<1>2. r2 \in Row <2> HIDE DEF r1 <2> QED BY <1>1, FieldUpdates
<1>3. r3 \in Row
  <2> HIDE DEF r2
  <2>1. \A l \in Int : [r2 EXCEPT !.left = l] \in Row BY <1>2, FieldUpdates
  <2>2. JobLease \in Int BY JobRunnerAssumption
  <2> QED BY <2>1, <2>2, Zenon
<1>4. [r3 EXCEPT !.attempts = @ + 1] \in Row
  <2> HIDE DEF r3
  <2>1. r3.attempts + 1 \in Nat BY <1>3 DEF Row
  <2>2. \A n \in Nat : [r3 EXCEPT !.attempts = n] \in Row BY <1>3, FieldUpdates
  <2> QED BY <2>1, <2>2, Zenon
<1> QED BY <1>4 DEF Claimed

LEMMA DroppedType ==
  ASSUME NEW q \in PollState, NEW j
  PROVE  Dropped(q, j) \in PollState
<1>1. q.cand \ {j} \in SUBSET Jobs BY DEF PollState
<1> QED BY <1>1, RecordUpdates DEF Dropped

LEMMA PickedType ==
  ASSUME NEW q \in PollState, NEW j \in Jobs, NEW n \in Nat
  PROVE  Picked(q, j, n) \in PollState
<1> DEFINE q1 == Dropped(q, j)
           q2 == [q1 EXCEPT !.pick = j]
<1>1. q1 \in PollState BY DroppedType
<1>2. q2 \in PollState <2> HIDE DEF q1 <2> QED BY <1>1, RecordUpdates
<1>3. [q2 EXCEPT !.seen = n] \in PollState
  <2> HIDE DEF q2
  <2> QED BY <1>2, RecordUpdates
<1> QED BY <1>3 DEF Picked

LEMMA UnpickedType ==
  ASSUME NEW q \in PollState
  PROVE  Unpicked(q) \in PollState
<1> DEFINE q1 == [q EXCEPT !.pick = NoJob]
<1>1. q1 \in PollState BY RecordUpdates
<1>2. [q1 EXCEPT !.seen = 0] \in PollState <2> HIDE DEF q1 <2> QED BY <1>1, RecordUpdates
<1> QED BY <1>2 DEF Unpicked

LEMMA TypeOKInit == Init => TypeOK
<1> SUFFICES ASSUME Init PROVE TypeOK
  OBVIOUS
<1>1. budget \in Budget
  BY JobRunnerAssumption DEF Init, Budget
<1> QED
  BY <1>1, BlankRowType, IdleTypes DEF Init, TypeOK, ExecPc, Mode, TargetState

LEMMA TypeOKRequests ==
  ASSUME TypeOK, NEW p \in Procs, Requesting(p) \/ Cancelling(p)
  PROVE  TypeOK'
<1>1. ASSUME NEW j \in Jobs, NEW r \in Requests, Enqueue(p, j, r) PROVE TypeOK'
  <2>1. job' \in [Jobs -> Row] BY <1>1, EnqueuedType DEF TypeOK, Enqueue
  <2> QED BY <1>1, <2>1 DEF TypeOK, Enqueue, procVars
<1>2. ASSUME NEW j \in Jobs, CancelRead(p, j) PROVE TypeOK'
  <2>1. cancel' \in [Procs -> CancelState] BY <1>2 DEF TypeOK, CancelRead, CancelState
  <2>2. budget' \in Budget BY <1>2, BudgetUpdates DEF TypeOK, CancelRead
  <2> QED BY <1>2, <2>1, <2>2 DEF TypeOK, CancelRead, dbVars, execVars
<1>3. ASSUME CancelWrite(p) PROVE TypeOK'
  <2> DEFINE j == cancel[p].job
  <2>1. cancel' \in [Procs -> CancelState]
    <3>1. cancel[p] \in CancelState BY DEF TypeOK
    <3>2. [cancel[p] EXCEPT !.step = "callback"] \in CancelState BY <3>1, RecordUpdates
    <3>3. \/ cancel' = [cancel EXCEPT ![p] = [cancel[p] EXCEPT !.step = "callback"]]
          \/ cancel' = [cancel EXCEPT ![p] = NoCancel]
      BY <1>3 DEF CancelWrite
    <3> QED BY <3>2, <3>3, IdleTypes DEF TypeOK
  <2>2. job' \in [Jobs -> Row]
    <3>1. \A r \in Row : [r EXCEPT !.cancel = TRUE] \in Row
      BY FieldUpdates
    <3>3. CASE cancel[p].step = "queued"
      <4>1. job' = [job EXCEPT ![j] = CancelledRow(job[j])]
        BY <1>3, <3>3 DEF CancelWrite
      <4> QED BY <4>1, CancelledType DEF TypeOK
    <3>4. CASE cancel[p].step # "queued"
      <4>1. job' = [job EXCEPT ![j].cancel = TRUE]
        BY <1>3, <3>4 DEF CancelWrite
      <4> QED BY <4>1, <3>1 DEF TypeOK
    <3> QED BY <3>3, <3>4
  <2> QED BY <1>3, <2>1, <2>2 DEF TypeOK, CancelWrite, execVars
<1>4. ASSUME QueuedCancellation(p) PROVE TypeOK'
  <2>1. target' \in [Jobs -> TargetState]
    BY <1>4 DEF TypeOK, QueuedCancellation, TargetState
  <2> QED BY <1>4, <2>1, IdleTypes DEF TypeOK, QueuedCancellation, execVars
<1> QED BY <1>1, <1>2, <1>3, <1>4 DEF Requesting, Cancelling

LEMMA TypeOKLifeCycle ==
  ASSUME TypeOK, NEW p \in Procs,
         Bootstrap(p) \/ Environment(p) \/ Wake(p) \/ RenewLease(p)
  PROVE  TypeOK'
<1>0. \A l \in LeaseRow : [l EXCEPT !.left = InstLease] \in LeaseRow
  BY JobRunnerAssumption DEF LeaseRow
<1>1. ASSUME Boot(p) PROVE TypeOK'
  <2>1. lease' \in LeaseRow
    BY <1>1, JobRunnerAssumption DEF TypeOK, Boot, LeaseRow
  <2>2. boot' \in [Procs -> BootState]
    <3>1. {j \in Jobs : JobExpired(j)} \in SUBSET Jobs
      OBVIOUS
    <3> QED BY <1>1, <3>1, RecordUpdates DEF TypeOK, Boot
  <2>3. mode' \in [Procs -> Mode] /\ held' \in [Procs -> BOOLEAN]
    BY <1>1 DEF TypeOK, Boot, Mode
  <2> QED BY <1>1, <2>1, <2>2, <2>3 DEF TypeOK, Boot, execVars
<1>2. ASSUME NEW j \in Jobs, RecoverReplay(p, j) PROVE TypeOK'
  <2>1. CASE Die(p) /\ UNCHANGED <<job, lease, target, budget>>
    BY <2>1, DieType DEF TypeOK
  <2>2. CASE ~(Die(p) /\ UNCHANGED <<job, lease, target, budget>>)
    <3>1. /\ job' = [job EXCEPT ![j] = Released(job[j], "queued")]
          /\ boot' = [boot EXCEPT ![p] = [boot[p] EXCEPT !.todo = @ \ {j}]]
          /\ UNCHANGED <<mode, held, poll, execVars, cancel, lease, target, budget>>
      BY <1>2, <2>2 DEF RecoverReplay
    <3>2. Released(job[j], "queued") \in Row BY ReleasedType DEF TypeOK
    <3>3. [boot[p] EXCEPT !.todo = @ \ {j}] \in BootState
      <4>1. boot[p] \in BootState BY DEF TypeOK
      <4>2. boot[p].todo \ {j} \in SUBSET Jobs BY <4>1 DEF BootState
      <4> QED BY <4>1, <4>2, RecordUpdates
    <3> QED BY <3>1, <3>2, <3>3 DEF TypeOK, execVars
  <2> QED BY <2>1, <2>2
<1>3. ASSUME NEW j \in Jobs, RecoverReview(p, j) PROVE TypeOK'
  <2>1. job' \in [Jobs -> Row]
    BY <1>3, ReleasedType DEF TypeOK, RecoverReview
  <2>2. boot' \in [Procs -> BootState]
    BY <1>3 DEF TypeOK, RecoverReview, BootState
  <2> QED BY <1>3, <2>1, <2>2 DEF TypeOK, RecoverReview, execVars
<1>4. ASSUME RecoverMark(p) PROVE TypeOK'
  <2>1. target' \in [Jobs -> TargetState]
    BY <1>4 DEF TypeOK, RecoverMark, Reviewed, TargetState
  <2>2. boot' \in [Procs -> BootState]
    BY <1>4, RecordUpdates DEF TypeOK, RecoverMark
  <2> QED BY <1>4, <2>1, <2>2 DEF TypeOK, RecoverMark, execVars
<1>5. ASSUME BootDone(p) PROVE TypeOK'
  BY <1>5 DEF TypeOK, BootDone, dbVars, execVars, Mode
<1>6. ASSUME BootFails(p) PROVE TypeOK'
  BY <1>6, DieType DEF TypeOK, BootFails, dbVars
<1>7. ASSUME Crash(p) PROVE TypeOK'
  <2>1. budget' \in Budget BY <1>7, BudgetUpdates DEF TypeOK, Crash
  <2> QED BY <1>7, <2>1, DieType DEF TypeOK, Crash, dbVars
<1>8. ASSUME Stop(p) PROVE TypeOK'
  <2>1. budget' \in Budget BY <1>8, BudgetUpdates DEF TypeOK, Stop
  <2> QED BY <1>8, <2>1, DieType, IdleTypes DEF TypeOK, Stop
<1>9. ASSUME Stall(p) \/ Wake(p) PROVE TypeOK'
  <2>1. budget' \in Budget BY <1>9, BudgetUpdates DEF TypeOK, Stall, Wake
  <2> QED BY <1>9, <2>1 DEF TypeOK, Stall, Wake, dbVars, execVars, Mode
<1>10. ASSUME RenewLease(p) PROVE TypeOK'
  BY <1>10, <1>0 DEF TypeOK, RenewLease, execVars
<1> QED
  BY <1>1, <1>2, <1>3, <1>4, <1>5, <1>6, <1>7, <1>8, <1>9, <1>10
  DEF Bootstrap, Environment

LEMMA TypeOKPolling ==
  ASSUME TypeOK, NEW p \in Procs, Polling(p)
  PROVE  TypeOK'
<1>1. ASSUME PollStart(p) PROVE TypeOK'
  <2>1. poll' \in [Procs -> PollState]
    BY <1>1 DEF TypeOK, PollStart, IdlePoll, PollState
  <2> QED BY <1>1, <2>1 DEF TypeOK, PollStart, dbVars, execVars
<1>2. ASSUME NEW j \in Jobs, PollPick(p, j) PROVE TypeOK'
  <2>1. count[p][job[j].type] \in Nat BY DEF TypeOK, Row
  <2>2. poll' \in [Procs -> PollState]
    <3>1. poll[p] \in PollState BY DEF TypeOK
    <3>2. Picked(poll[p], j, count[p][job[j].type]) \in PollState BY <2>1, <3>1, PickedType
    <3>3. Dropped(poll[p], j) \in PollState BY <3>1, DroppedType
    <3> QED BY <1>2, <3>2, <3>3 DEF TypeOK, PollPick
  <2> QED BY <1>2, <2>2 DEF TypeOK, PollPick, dbVars, execVars
<1>3. ASSUME PollClaim(p) PROVE TypeOK'
  <2> DEFINE j == poll[p].pick
  <2>1. j \in Jobs /\ poll[p].seen \in Nat
    BY <1>3 DEF TypeOK, PollClaim, PollState
  <2>2. poll' \in [Procs -> PollState]
    BY <1>3, UnpickedType DEF TypeOK, PollClaim
  <2>3. CASE Claimable(j)
    <3> DEFINE row == Claimed(job[j], p)
               t == job[j].type
               n == poll[p].seen + 1
    <3>1. /\ job' = [job EXCEPT ![j] = row]
          /\ \E g \in Lanes : exec' = [exec EXCEPT ![p][j][g] = "claimed"]
          /\ running' = [running EXCEPT ![p] = @ \union {j}]
          /\ count' = [count EXCEPT ![p][t] = n]
      BY <1>3, <2>3 DEF PollClaim
    <3>2. row \in Row /\ n \in Nat
      <4>1. job[j] \in Row BY <2>1 DEF TypeOK
      <4>2. row \in Row BY <4>1, ClaimedType
      <4>3. n \in Nat BY <2>1
      <4> QED BY <4>2, <4>3
    <3> HIDE DEF j, row, n, t
    <3>3. job' \in [Jobs -> Row] BY <3>1, <3>2 DEF TypeOK
    <3>4. exec' \in [Procs -> [Jobs -> [Lanes -> ExecPc]]]
      <4>1. PICK g \in Lanes : exec' = [exec EXCEPT ![p][j][g] = "claimed"]
        BY <3>1
      <4>2. "claimed" \in ExecPc BY DEF ExecPc
      <4> HIDE DEF ExecPc
      <4> QED BY <2>1, <4>1, <4>2 DEF TypeOK
    <3>5. running' \in [Procs -> SUBSET Jobs] BY <2>1, <3>1 DEF TypeOK
    <3>6. count' \in [Procs -> [Types -> Nat]] BY <3>1, <3>2 DEF TypeOK
    <3> QED BY <1>3, <2>2, <3>3, <3>4, <3>5, <3>6 DEF TypeOK, PollClaim
  <2>4. CASE ~Claimable(j)
    BY <1>3, <2>2, <2>4 DEF TypeOK, PollClaim, execVars
  <2> QED BY <2>3, <2>4
<1>4. ASSUME PollEnd(p) PROVE TypeOK'
  BY <1>4, IdleTypes DEF TypeOK, PollEnd, dbVars, execVars
<1> QED BY <1>1, <1>2, <1>3, <1>4 DEF Polling

LEMMA TypeOKExecution ==
  ASSUME TypeOK, NEW p \in Procs, NEW j \in Jobs, NEW g \in Lanes,
         Heartbeat(p, j, g) \/ Execution(p, j, g)
  PROVE  TypeOK'
<1>1. ASSUME Heartbeat(p, j, g) PROVE TypeOK'
  <2>1. JobLease \in Int BY JobRunnerAssumption
  <2>2. \A l \in Int : [job[j] EXCEPT !.left = l] \in Row BY FieldUpdates DEF TypeOK
  <2>3. [job[j] EXCEPT !.left = JobLease] \in Row BY <2>1, <2>2, Zenon
  <2> QED BY <1>1, <2>3 DEF TypeOK, Heartbeat, procVars
<1>2. ASSUME HandlerStarts(p, j, g) PROVE TypeOK'
  <2>1. target' \in [Jobs -> TargetState]
    BY <1>2 DEF TypeOK, HandlerStarts, TargetState
  <2> QED BY <1>2, <2>1, AdvanceType DEF TypeOK, HandlerStarts, ExecPc
<1>3. ASSUME HandlerReturns(p, j, g) PROVE TypeOK'
  <2>1. target' \in [Jobs -> TargetState]
    BY <1>3 DEF TypeOK, HandlerReturns, TargetState
  <2> QED BY <1>3, <2>1, AdvanceType DEF TypeOK, HandlerReturns, ExecPc
<1>4. ASSUME NEW r \in BOOLEAN, HandlerThrows(p, j, g, r) PROVE TypeOK'
  <2>1. target' \in [Jobs -> TargetState]
    BY <1>4 DEF TypeOK, HandlerThrows, TargetState, Reviewed
  <2>2. FailureStatus(j, r) \in ExecPc BY FailureStatusType DEF ExecPc
  <2> QED BY <1>4, <2>1, <2>2, AdvanceType DEF TypeOK, HandlerThrows
<1>5. ASSUME WriteOutcome(p, j, g) PROVE TypeOK'
  <2> DEFINE s == exec[p][j][g]
  <2>1. job' \in [Jobs -> Row]
    BY <1>5, SettledType DEF TypeOK, WriteOutcome
  <2>2. AfterOutcome(s) \in ExecPc BY AfterOutcomeType DEF ExecPc
  <2>3. Finish(p, j, g) \/ Advance(p, j, g, AfterOutcome(s))
    BY <1>5 DEF WriteOutcome
  <2> QED BY <1>5, <2>1, <2>2, <2>3, AdvanceType, FinishType DEF TypeOK, WriteOutcome
<1>6. ASSUME RequeueRejected(p, j, g) PROVE TypeOK'
  BY <1>6, DieType DEF TypeOK, RequeueRejected, dbVars
<1>7. ASSUME MarkTarget(p, j, g) PROVE TypeOK'
  <2>1. target' \in [Jobs -> TargetState]
    BY <1>7 DEF TypeOK, MarkTarget, Reviewed, TargetState
  <2> QED BY <1>7, <2>1, FinishType DEF TypeOK, MarkTarget
<1>8. ASSUME TerminalFailure(p, j, g) PROVE TypeOK'
  <2>1. target' \in [Jobs -> TargetState]
    BY <1>8 DEF TypeOK, TerminalFailure, TargetState
  <2> QED BY <1>8, <2>1, FinishType DEF TypeOK, TerminalFailure
<1> QED BY <1>1, <1>2, <1>3, <1>4, <1>5, <1>6, <1>7, <1>8 DEF Execution

LEMMA TypeOKStep == TypeOK /\ [Next]_vars => TypeOK'
<1> SUFFICES ASSUME TypeOK, [Next]_vars PROVE TypeOK'
  OBVIOUS
<1>1. ASSUME Tick PROVE TypeOK'
  <2>1. lease' \in LeaseRow
    <3>1. LeaseDown(lease.left) \in Int BY DEF TypeOK, LeaseRow, LeaseDown
    <3> QED BY <1>1, <3>1, RecordUpdates DEF TypeOK, Tick
  <2>2. job' \in [Jobs -> Row] BY <1>1, ElapsedType DEF TypeOK, Tick
  <2> QED BY <1>1, <2>1, <2>2 DEF TypeOK, Tick, procVars
<1>2. ASSUME UNCHANGED vars PROVE TypeOK'
  BY <1>2 DEF TypeOK, vars
<1> QED
  BY <1>1, <1>2, TypeOKRequests, TypeOKLifeCycle, TypeOKPolling, TypeOKExecution DEF Next

\* Every variable keeps its type in every behaviour.
THEOREM TypeCorrect == Spec => []TypeOK
BY TypeOKInit, TypeOKStep, PTL DEF Spec

----------------------------------------------------------------------------
(* What the updates of a row do to the fields the invariants speak of *)

LEMMA ReleasedFields ==
  ASSUME NEW r \in Row, NEW s \in Status
  PROVE  /\ Released(r, s).status = s
         /\ Released(r, s).type = r.type /\ Released(r, s).key = r.key
         /\ Released(r, s).attempts = r.attempts
BY DEF Released, Row

LEMMA SettledFields ==
  ASSUME NEW r \in Row, NEW s \in Status
  PROVE  /\ Settled(r, s).status = s
         /\ Settled(r, s).type = r.type /\ Settled(r, s).key = r.key
         /\ Settled(r, s).attempts = r.attempts
BY DEF Settled, Released, Row

LEMMA ElapsedFields ==
  ASSUME NEW r \in Row
  PROVE  /\ Elapsed(r).status = r.status
         /\ Elapsed(r).type = r.type /\ Elapsed(r).key = r.key
         /\ Elapsed(r).attempts = r.attempts
BY DEF Elapsed, Row

LEMMA ClaimedFields ==
  ASSUME NEW r \in Row, NEW p \in Procs
  PROVE  /\ Claimed(r, p).status = "running"
         /\ Claimed(r, p).type = r.type /\ Claimed(r, p).key = r.key
         /\ Claimed(r, p).attempts = r.attempts + 1
BY DEF Claimed, Row

LEMMA CancelledFields ==
  ASSUME NEW r \in Row
  PROVE  /\ CancelledRow(r).status = "cancelled"
         /\ CancelledRow(r).type = r.type /\ CancelledRow(r).key = r.key
         /\ CancelledRow(r).attempts = r.attempts
BY DEF CancelledRow, Row

LEMMA QueuedFields ==
  ASSUME NEW r \in Requests
  PROVE  /\ QueuedRow(r).status = "queued" /\ QueuedRow(r).attempts = 0
         /\ QueuedRow(r).type = r.type /\ QueuedRow(r).key = r.key
<1>1. BlankRow \in Row /\ BlankRow.attempts = 0
  BY BlankRowType DEF BlankRow
<1>2. \A b \in Row : /\ [b EXCEPT !.status = "queued", !.type = r.type, !.key = r.key].status = "queued"
                     /\ [b EXCEPT !.status = "queued", !.type = r.type, !.key = r.key].attempts = b.attempts
                     /\ [b EXCEPT !.status = "queued", !.type = r.type, !.key = r.key].type = r.type
                     /\ [b EXCEPT !.status = "queued", !.type = r.type, !.key = r.key].key = r.key
  BY DEF Row
<1> QED BY <1>1, <1>2 DEF QueuedRow

----------------------------------------------------------------------------
(* Which steps write which part of the state *)

LEMMA JobWriters ==
  ASSUME [Next]_vars
  PROVE  \/ UNCHANGED job
         \/ Tick
         \/ \E p \in Procs :
              \/ CancelWrite(p) \/ PollClaim(p)
              \/ \E j \in Jobs :
                   \/ \E r \in Requests : Enqueue(p, j, r)
                   \/ RecoverReplay(p, j) \/ RecoverReview(p, j)
                   \/ \E g \in Lanes : Heartbeat(p, j, g) \/ WriteOutcome(p, j, g)
<1>1. ASSUME NEW p \in Procs, Bootstrap(p) \/ RenewLease(p) \/ Polling(p) \/ Wake(p)
      PROVE  \/ UNCHANGED job \/ PollClaim(p)
             \/ \E j \in Jobs : RecoverReplay(p, j) \/ RecoverReview(p, j)
  BY <1>1 DEF Bootstrap, Boot, BootDone, BootFails, RecoverMark, RenewLease, Polling,
     PollStart, PollPick, PollEnd, Wake, dbVars
<1>2. ASSUME NEW p \in Procs, Requesting(p) \/ Cancelling(p) \/ Environment(p)
      PROVE  \/ UNCHANGED job \/ CancelWrite(p)
             \/ \E j \in Jobs : \E r \in Requests : Enqueue(p, j, r)
  BY <1>2 DEF Requesting, CancelRead, Cancelling, QueuedCancellation, Environment,
     Crash, Stop, Stall, dbVars
<1>3. ASSUME NEW p \in Procs, NEW j \in Jobs, NEW g \in Lanes, Execution(p, j, g)
      PROVE  UNCHANGED job \/ WriteOutcome(p, j, g)
  BY <1>3 DEF Execution, HandlerStarts, HandlerReturns, HandlerThrows, RequeueRejected,
     MarkTarget, TerminalFailure, dbVars
<1>4. UNCHANGED vars => UNCHANGED job
  BY DEF vars
<1> QED BY <1>1, <1>2, <1>3, <1>4 DEF Next

\* Where the executions of p go in one step.
LEMMA ExecWriters ==
  ASSUME [Next]_vars
  PROVE  \/ UNCHANGED execVars
         \/ \E p \in Procs :
              \/ Die(p) \/ PollClaim(p)
              \/ \E j \in Jobs, g \in Lanes : Execution(p, j, g) /\ ~Die(p)
<1>1. ASSUME NEW p \in Procs, Bootstrap(p) \/ RenewLease(p) \/ Polling(p) \/ Wake(p)
      PROVE  UNCHANGED execVars \/ PollClaim(p) \/ Die(p)
  BY <1>1 DEF Bootstrap, Boot, BootDone, BootFails, RecoverMark, RecoverReplay,
     RecoverReview, RenewLease, Polling, PollStart, PollPick, PollEnd, Wake
<1>2. ASSUME NEW p \in Procs, Requesting(p) \/ Cancelling(p) \/ Environment(p)
      PROVE  UNCHANGED execVars \/ Die(p)
  BY <1>2 DEF Requesting, Enqueue, CancelRead, Cancelling, CancelWrite,
     QueuedCancellation, Environment, Crash, Stop, Stall, procVars, execVars
<1>3. ASSUME NEW p \in Procs, NEW j \in Jobs, NEW g \in Lanes, Heartbeat(p, j, g)
      PROVE  UNCHANGED execVars
  BY <1>3 DEF Heartbeat, procVars, execVars
<1>4. UNCHANGED vars \/ Tick => UNCHANGED execVars
  BY DEF vars, Tick, procVars, execVars
<1> QED BY <1>1, <1>2, <1>3, <1>4 DEF Next

----------------------------------------------------------------------------
(* The ways a row, an execution and the poll loop can change *)

Same(j) == /\ job'[j].status = job[j].status /\ job'[j].type = job[j].type
           /\ job'[j].attempts = job[j].attempts

Created(j) == job[j].status = "absent" /\ job'[j].status = "queued" /\ job'[j].attempts = 0

ClaimStep(j) == /\ job[j].status = "queued" /\ job'[j].status = "running"
                /\ job'[j].type = job[j].type /\ job'[j].attempts = job[j].attempts + 1

EndStep(j) == /\ job[j].status # "absent" /\ job'[j].status \notin {"absent", "queued"}
              /\ job'[j].type = job[j].type /\ job'[j].attempts = job[j].attempts

RequeueStep(j) == /\ job[j].status # "absent" /\ job'[j].status = "queued" /\ ~ManualReview(j)
                  /\ job'[j].type = job[j].type /\ job'[j].attempts = job[j].attempts

RowStep(j) == Same(j) \/ Created(j) \/ ClaimStep(j) \/ EndStep(j) \/ RequeueStep(j)

LEMMA RowSteps ==
  ASSUME TypeOK, AbsentIdle, NoManualRetry, [Next]_vars, NEW i \in Jobs
  PROVE  RowStep(i)
<1> USE DEF Same, Created, ClaimStep, EndStep, RequeueStep
<1>1. CASE UNCHANGED job
  BY <1>1 DEF RowStep
<1>2. CASE Tick
  BY <1>2, ElapsedFields DEF TypeOK, Tick, RowStep
<1>3. ASSUME NEW p \in Procs, CancelWrite(p) PROVE RowStep(i)
  <2> DEFINE j == cancel[p].job
  <2>1. job[i] \in Row BY DEF TypeOK
  <2>2. CASE i = j
    <3>1. job[i].status # "absent" BY <2>2 DEF AbsentIdle
    <3>2. CASE cancel[p].step = "queued"
      <4>1. job'[i] = CancelledRow(job[i]) BY <1>3, <2>2, <3>2 DEF CancelWrite, TypeOK
      <4> QED BY <2>1, <3>1, <4>1, CancelledFields DEF RowStep
    <3>3. CASE cancel[p].step # "queued"
      <4>1. job'[i] = [job[i] EXCEPT !.cancel = TRUE] BY <1>3, <2>2, <3>3 DEF CancelWrite, TypeOK
      <4> QED BY <2>1, <4>1 DEF RowStep, Row
    <3> QED BY <3>2, <3>3
  <2>3. CASE i # j
    <3>1. job'[i] = job[i] BY <1>3, <2>3 DEF CancelWrite, TypeOK
    <3> QED BY <3>1 DEF RowStep
  <2> QED BY <2>2, <2>3
<1>4. ASSUME NEW p \in Procs, PollClaim(p) PROVE RowStep(i)
  <2>1. job'[i] = job[i] \/ (Claimable(i) /\ job'[i] = Claimed(job[i], p))
    BY <1>4 DEF PollClaim, TypeOK
  <2> QED BY <2>1, ClaimedFields DEF RowStep, Claimable, TypeOK
<1>5. ASSUME NEW p \in Procs, NEW j \in Jobs, NEW r \in Requests, Enqueue(p, j, r)
      PROVE  RowStep(i)
  <2>1. job'[i] = job[i] \/ (job[i].status = "absent" /\ job'[i] = QueuedRow(r))
    BY <1>5 DEF Enqueue, TypeOK
  <2> QED BY <2>1, QueuedFields DEF RowStep
<1>6. ASSUME NEW p \in Procs, NEW j \in Jobs, RecoverReplay(p, j) PROVE RowStep(i)
  <2>1. \/ job'[i] = job[i]
        \/ i = j /\ ~ManualReview(i) /\ job'[i] = Released(job[i], "queued")
    BY <1>6 DEF RecoverReplay, TypeOK
  <2>2. i = j => job[i].status # "absent" BY <1>6 DEF RecoverReplay, AbsentIdle
  <2> QED BY <2>1, <2>2, ReleasedFields DEF RowStep, TypeOK
<1>7. ASSUME NEW p \in Procs, NEW j \in Jobs, RecoverReview(p, j) PROVE RowStep(i)
  <2>1. job'[i] = job[i] \/ (i = j /\ job'[i] = Released(job[i], "unknown"))
    BY <1>7 DEF RecoverReview, TypeOK
  <2>2. i = j => job[i].status # "absent" BY <1>7 DEF RecoverReview, AbsentIdle
  <2> QED BY <2>1, <2>2, ReleasedFields DEF RowStep, TypeOK
<1>8. ASSUME NEW p \in Procs, NEW j \in Jobs, NEW g \in Lanes, Heartbeat(p, j, g)
      PROVE  RowStep(i)
  <2>1. job'[i] = job[i] \/ job'[i] = [job[i] EXCEPT !.left = JobLease]
    BY <1>8 DEF Heartbeat, TypeOK
  <2>2. job[i] \in Row BY DEF TypeOK
  <2> QED BY <2>1, <2>2 DEF RowStep, Row
<1>9. ASSUME NEW p \in Procs, NEW j \in Jobs, NEW g \in Lanes, WriteOutcome(p, j, g)
      PROVE  RowStep(i)
  <2> DEFINE s == exec[p][j][g]
  <2>1. job'[i] = job[i] \/ (i = j /\ job'[i] = Settled(job[i], s))
    BY <1>9 DEF WriteOutcome, TypeOK
  <2>2. s \in Outcomes /\ (i = j => job[i].status # "absent")
    BY <1>9 DEF WriteOutcome, AbsentIdle
  <2>3. i = j /\ ManualReview(i) => s # "queued" BY DEF NoManualRetry, Refused
  <2> HIDE DEF s
  <2>4. job[i] \in Row /\ s \in Status BY <2>2 DEF TypeOK
  <2>5. i = j /\ job'[i] = Settled(job[i], s) =>
          /\ job'[i].status = s /\ job'[i].type = job[i].type
          /\ job'[i].attempts = job[i].attempts
    BY <2>4, SettledFields
  <2> QED BY <2>1, <2>2, <2>3, <2>5 DEF RowStep
<1> QED
  BY <1>1, <1>2, <1>3, <1>4, <1>5, <1>6, <1>7, <1>8, <1>9, JobWriters

\* An execution starts from a queued row, only that of a safe_replay job decides to
\* retry or to fail, and whatever else it does it has started before.
ExecStep(p, j, g) ==
  \/ exec'[p][j][g] \in {exec[p][j][g], "none"}
  \/ exec'[p][j][g] = "claimed" /\ job[j].status = "queued"
  \/ /\ exec[p][j][g] # "none" /\ exec'[p][j][g] # "none"
     /\ exec'[p][j][g] \in Refused => ~ManualReview(j) \/ exec[p][j][g] \in Refused

LEMMA ExecSteps ==
  ASSUME TypeOK, [Next]_vars, NEW q \in Procs, NEW i \in Jobs, NEW h \in Lanes
  PROVE  ExecStep(q, i, h)
<1>1. CASE UNCHANGED execVars
  BY <1>1 DEF execVars, ExecStep
<1>2. ASSUME NEW p \in Procs, Die(p) PROVE ExecStep(q, i, h)
  BY <1>2 DEF Die, ExecStep, TypeOK
<1>3. ASSUME NEW p \in Procs, PollClaim(p) PROVE ExecStep(q, i, h)
  <2> DEFINE j == poll[p].pick
  <2>1. CASE UNCHANGED exec BY <2>1 DEF ExecStep
  <2>2. CASE Claimable(j)
    <3>1. PICK g \in Lanes : exec' = [exec EXCEPT ![p][j][g] = "claimed"]
      BY <1>3, <2>2 DEF PollClaim
    <3>2. job[j].status = "queued" BY <2>2 DEF Claimable
    <3> HIDE DEF j
    <3>3. \/ exec'[q][i][h] = exec[q][i][h]
          \/ i = j /\ exec'[q][i][h] = "claimed"
      BY <3>1 DEF TypeOK
    <3> QED BY <3>2, <3>3 DEF ExecStep
  <2> QED BY <1>3, <2>1, <2>2 DEF PollClaim, execVars
<1>4. ASSUME NEW p \in Procs, NEW j \in Jobs, NEW g \in Lanes,
             Execution(p, j, g), ~Die(p)
      PROVE  ExecStep(q, i, h)
  <2>1. ASSUME NEW s, Advance(p, j, g, s), s # "none", exec[p][j][g] # "none",
               s \in Refused => ~ManualReview(j) \/ exec[p][j][g] \in Refused
        PROVE  ExecStep(q, i, h)
    BY <2>1 DEF Advance, ExecStep, TypeOK
  <2>2. ASSUME Finish(p, j, g) PROVE ExecStep(q, i, h)
    BY <2>2 DEF Finish, ExecStep, TypeOK
  <2>3. CASE HandlerStarts(p, j, g) BY <2>1, <2>3 DEF HandlerStarts, Refused
  <2>4. CASE HandlerReturns(p, j, g) BY <2>1, <2>4 DEF HandlerReturns, Refused
  <2>5. ASSUME NEW r \in BOOLEAN, HandlerThrows(p, j, g, r) PROVE ExecStep(q, i, h)
    <3>1. /\ FailureStatus(j, r) # "none"
          /\ FailureStatus(j, r) \in Refused => ~ManualReview(j)
      BY DEF FailureStatus, Refused
    <3> QED BY <2>1, <2>5, <3>1 DEF HandlerThrows
  <2>6. CASE WriteOutcome(p, j, g)
    <3>1. \/ Finish(p, j, g)
          \/ /\ Advance(p, j, g, AfterOutcome(exec[p][j][g]))
             /\ AfterOutcome(exec[p][j][g]) # "none"
      BY <2>6 DEF WriteOutcome
    <3>2. exec[p][j][g] # "none" BY <2>6 DEF WriteOutcome
    <3>3. AfterOutcome(exec[p][j][g]) \in Refused => exec[p][j][g] \in Refused
      BY DEF AfterOutcome, Refused
    <3> QED BY <2>1, <2>2, <3>1, <3>2, <3>3
  <2>7. CASE RequeueRejected(p, j, g) BY <1>4, <2>7 DEF RequeueRejected
  <2>8. CASE MarkTarget(p, j, g) \/ TerminalFailure(p, j, g)
    BY <2>2, <2>8 DEF MarkTarget, TerminalFailure
  <2> QED BY <1>4, <2>3, <2>4, <2>5, <2>6, <2>7, <2>8 DEF Execution
<1> QED BY <1>1, <1>2, <1>3, <1>4, ExecWriters

\* The rows that the volatile state of q, executions apart, refers to.
Mentions(q, i) ==
  i \in poll[q].cand \/ poll[q].pick = i \/ cancel[q].job = i \/ i \in boot[q].todo

\* No step makes a process refer to a row that does not exist.
MentionStep(q, i) == Mentions(q, i)' => Mentions(q, i) \/ job[i].status # "absent"

LEMMA MentionRequests ==
  ASSUME TypeOK, NEW p \in Procs, Requesting(p) \/ Cancelling(p),
         NEW q \in Procs, NEW i \in Jobs
  PROVE  MentionStep(q, i)
<1>1. ASSUME NEW j \in Jobs, NEW r \in Requests, Enqueue(p, j, r) PROVE MentionStep(q, i)
  BY <1>1 DEF Enqueue, procVars, MentionStep, Mentions
<1>2. ASSUME NEW j \in Jobs, CancelRead(p, j) PROVE MentionStep(q, i)
  <2>1. UNCHANGED <<poll, boot>> BY <1>2 DEF CancelRead
  <2>2. cancel'[q] = cancel[q] \/ (cancel'[q].job = j /\ job[j].status # "absent")
    BY <1>2 DEF CancelRead, TypeOK
  <2> QED BY <2>1, <2>2 DEF MentionStep, Mentions
<1>3. ASSUME Cancelling(p) PROVE MentionStep(q, i)
  <2>1. UNCHANGED <<poll, boot>>
    BY <1>3 DEF Cancelling, CancelWrite, QueuedCancellation
  <2>2. cancel' = [cancel EXCEPT ![p].step = "callback"] \/ cancel' = [cancel EXCEPT ![p] = NoCancel]
    BY <1>3 DEF Cancelling, CancelWrite, QueuedCancellation
  <2>3. cancel'[q].job = cancel[q].job \/ cancel'[q].job = NoJob
    <3>1. cancel[p] \in CancelState BY DEF TypeOK
    <3>2. [cancel[p] EXCEPT !.step = "callback"].job = cancel[p].job BY <3>1 DEF CancelState
    <3>3. \/ cancel'[q] = cancel[q] \/ cancel'[q] = NoCancel
          \/ q = p /\ cancel'[q] = [cancel[p] EXCEPT !.step = "callback"]
      BY <2>2 DEF TypeOK
    <3>4. NoCancel.job = NoJob BY DEF NoCancel
    <3> QED BY <3>2, <3>3, <3>4
  <2>4. i # NoJob BY JobRunnerAssumption
  <2> QED BY <2>1, <2>3, <2>4 DEF MentionStep, Mentions
<1> QED BY <1>1, <1>2, <1>3 DEF Requesting

LEMMA MentionDie ==
  ASSUME TypeOK, NEW p \in Procs, Die(p), NEW q \in Procs, NEW i \in Jobs
  PROVE  MentionStep(q, i)
<1>1. i # NoJob BY JobRunnerAssumption
<1>2. CASE q = p
  <2>1. poll'[q] = IdlePoll /\ cancel'[q] = NoCancel /\ boot'[q] = IdleBoot
    BY <1>2 DEF Die, TypeOK
  <2> QED BY <1>1, <2>1 DEF MentionStep, Mentions, IdlePoll, NoCancel, IdleBoot
<1>3. CASE q # p
  <2>1. poll'[q] = poll[q] /\ cancel'[q] = cancel[q] /\ boot'[q] = boot[q]
    BY <1>3 DEF Die, TypeOK
  <2> QED BY <2>1 DEF MentionStep, Mentions
<1> QED BY <1>2, <1>3

LEMMA MentionBootstrap ==
  ASSUME TypeOK, NEW p \in Procs, Bootstrap(p), ~Die(p), NEW q \in Procs, NEW i \in Jobs
  PROVE  MentionStep(q, i)
<1>1. UNCHANGED <<poll, cancel>>
  BY DEF Bootstrap, Boot, BootDone, BootFails, RecoverMark, RecoverReplay, RecoverReview
<1>2. boot[p] \in BootState
  BY DEF TypeOK
<1>3. i \in boot'[q].todo => i \in boot[q].todo \/ job[i].status # "absent"
  <2>1. CASE Boot(p)
    <3>1. boot'[q] = boot[q] \/ boot'[q] = [boot[p] EXCEPT !.todo = {j \in Jobs : JobExpired(j)}]
      BY <2>1 DEF Boot, TypeOK
    <3>2. [boot[p] EXCEPT !.todo = {j \in Jobs : JobExpired(j)}].todo = {j \in Jobs : JobExpired(j)}
      BY <1>2 DEF BootState
    <3> QED BY <3>1, <3>2 DEF JobExpired
  <2>2. ASSUME NEW j \in Jobs, RecoverReplay(p, j) \/ RecoverReview(p, j)
        PROVE  boot'[q].todo \subseteq boot[q].todo
    <3>1. \/ boot' = [boot EXCEPT ![p].todo = @ \ {j}]
          \/ boot' = [boot EXCEPT ![p].todo = {}]
          \/ boot' = [boot EXCEPT ![p] = [todo |-> @.todo \ {j}, mark |-> j]]
      BY <2>2 DEF RecoverReplay, RecoverReview
    <3> DEFINE a == [boot[p] EXCEPT !.todo = boot[p].todo \ {j}]
               b == [boot[p] EXCEPT !.todo = {}]
               c == [todo |-> boot[p].todo \ {j}, mark |-> j]
    <3>2. boot'[q] = boot[q] \/ (q = p /\ boot'[q] \in {a, b, c})
      BY <3>1 DEF TypeOK
    <3>3. a.todo = boot[p].todo \ {j} /\ b.todo = {} /\ c.todo = boot[p].todo \ {j}
      BY <1>2 DEF BootState
    <3> HIDE DEF a, b, c
    <3> QED BY <3>2, <3>3
  <2>3. CASE RecoverMark(p)
    BY <2>3, <1>2 DEF RecoverMark, TypeOK, BootState
  <2>4. CASE BootDone(p)
    BY <2>4 DEF BootDone
  <2> QED BY <2>1, <2>2, <2>3, <2>4 DEF Bootstrap, BootFails
<1> QED BY <1>1, <1>3 DEF MentionStep, Mentions

LEMMA MentionPolling ==
  ASSUME TypeOK, NEW p \in Procs, Polling(p), NEW q \in Procs, NEW i \in Jobs
  PROVE  MentionStep(q, i)
<1>0. i # NoJob BY JobRunnerAssumption
<1>1. UNCHANGED <<boot, cancel>>
  BY DEF Polling, PollStart, PollPick, PollClaim, PollEnd
<1>2. poll[p] \in PollState
  BY DEF TypeOK
<1>3. CASE PollStart(p)
  <2> DEFINE new == [IdlePoll EXCEPT !.busy = TRUE, !.cand = {j \in Jobs : Due(j)}]
  <2>1. poll'[q] = poll[q] \/ poll'[q] = new BY <1>3 DEF PollStart, TypeOK
  <2>2. new.cand = {j \in Jobs : Due(j)} /\ new.pick = NoJob BY DEF IdlePoll
  <2> HIDE DEF new
  <2>3. i \in new.cand => job[i].status # "absent" BY <2>2 DEF Due
  <2> QED BY <1>0, <1>1, <2>1, <2>2, <2>3 DEF MentionStep, Mentions
<1>4. ASSUME NEW j \in Jobs, PollPick(p, j) PROVE MentionStep(q, i)
  <2>1. j \in poll[p].cand BY <1>4 DEF PollPick
  <2>2. \/ poll'[q] = poll[q]
        \/ q = p /\ poll'[q] = Dropped(poll[p], j)
        \/ q = p /\ \E n \in Nat : poll'[q] = Picked(poll[p], j, n)
    <3>1. count[p][job[j].type] \in Nat BY DEF TypeOK, Row
    <3> QED BY <1>4, <3>1 DEF PollPick, TypeOK
  <2>3. Dropped(poll[p], j).cand = poll[p].cand \ {j} /\ Dropped(poll[p], j).pick = poll[p].pick
    BY <1>2 DEF Dropped, PollState
  <2>4. \A n \in Nat : /\ Picked(poll[p], j, n).cand = poll[p].cand \ {j}
                       /\ Picked(poll[p], j, n).pick = j
    BY <1>2 DEF Picked, Dropped, PollState
  <2> QED BY <1>1, <2>1, <2>2, <2>3, <2>4 DEF MentionStep, Mentions
<1>5. CASE PollClaim(p)
  <2>1. poll'[q] = poll[q] \/ (q = p /\ poll'[q] = Unpicked(poll[p])) BY <1>5 DEF PollClaim, TypeOK
  <2>2. Unpicked(poll[p]).cand = poll[p].cand /\ Unpicked(poll[p]).pick = NoJob
    BY <1>2 DEF Unpicked, PollState
  <2> QED BY <1>0, <1>1, <2>1, <2>2 DEF MentionStep, Mentions
<1>6. CASE PollEnd(p)
  <2>1. poll'[q] = poll[q] \/ poll'[q] = IdlePoll BY <1>6 DEF PollEnd, TypeOK
  <2> QED BY <1>0, <1>1, <2>1 DEF MentionStep, Mentions, IdlePoll
<1> QED BY <1>3, <1>4, <1>5, <1>6 DEF Polling

LEMMA MentionSteps ==
  ASSUME TypeOK, [Next]_vars, NEW q \in Procs, NEW i \in Jobs
  PROVE  MentionStep(q, i)
<1>1. CASE UNCHANGED <<poll, cancel, boot>>
  BY <1>1 DEF MentionStep, Mentions
<1>2. ASSUME NEW p \in Procs, RenewLease(p) \/ Wake(p)
      PROVE  UNCHANGED <<poll, cancel, boot>>
  BY <1>2 DEF RenewLease, Wake
<1>3. ASSUME NEW p \in Procs, Environment(p)
      PROVE  UNCHANGED <<poll, cancel, boot>> \/ Die(p)
  BY <1>3 DEF Environment, Crash, Stop, Stall
<1>4. ASSUME NEW p \in Procs, NEW j \in Jobs, NEW g \in Lanes,
             Heartbeat(p, j, g) \/ Execution(p, j, g)
      PROVE  UNCHANGED <<poll, cancel, boot>> \/ Die(p)
  BY <1>4 DEF Heartbeat, Execution, HandlerStarts, HandlerReturns, HandlerThrows,
     WriteOutcome, RequeueRejected, MarkTarget, TerminalFailure, procVars
<1>5. UNCHANGED vars \/ Tick => UNCHANGED <<poll, cancel, boot>>
  BY DEF vars, Tick, procVars
<1> QED
  BY <1>1, <1>2, <1>3, <1>4, <1>5, MentionRequests, MentionDie, MentionBootstrap,
     MentionPolling DEF Next

----------------------------------------------------------------------------
(* An external write is started at most once *)

\* The inductive invariant: the row is not queued again because no execution
\* decides so, and no row is written before it exists.
OnceInv == TypeOK /\ AbsentIdle /\ NoManualRetry /\ ManualReviewOnce

LEMMA OnceInit == Init => OnceInv
<1> SUFFICES ASSUME Init PROVE OnceInv
  OBVIOUS
<1>1. TypeOK BY TypeOKInit
<1>2. \A j \in Jobs : job[j].attempts = 0 /\ job[j].status = "absent"
  BY DEF Init, BlankRow
<1>3. NoManualRetry BY DEF Init, NoManualRetry, Refused
<1>4. AbsentIdle
  BY <1>2, JobRunnerAssumption DEF Init, AbsentIdle, IdlePoll, NoCancel, IdleBoot
<1> QED BY <1>1, <1>2, <1>3, <1>4 DEF OnceInv, ManualReviewOnce

LEMMA OnceStep == OnceInv /\ [Next]_vars => OnceInv'
<1> SUFFICES ASSUME OnceInv, [Next]_vars PROVE OnceInv'
  OBVIOUS
<1> USE DEF OnceInv
<1>1. TypeOK' BY TypeOKStep
<1>2. \A i \in Jobs : RowStep(i) BY RowSteps
<1>3. \A q \in Procs, i \in Jobs, h \in Lanes : ExecStep(q, i, h) BY ExecSteps
<1>4. \A q \in Procs, i \in Jobs : MentionStep(q, i) BY MentionSteps
<1>5. \A i \in Jobs : job'[i].status = "absent" => job[i].status = "absent"
  BY <1>2 DEF RowStep, Same, Created, ClaimStep, EndStep, RequeueStep
<1>6. \A i \in Jobs : job[i].status # "absent" => job'[i].type = job[i].type
  BY <1>2 DEF RowStep, Same, Created, ClaimStep, EndStep, RequeueStep
<1>7. AbsentIdle'
  <2>0. ASSUME NEW i \in Jobs, job'[i].status = "absent" PROVE job'[i].attempts = 0
    <3>1. Same(i)
      BY <1>2, <2>0 DEF RowStep, Created, ClaimStep, EndStep, RequeueStep
    <3> QED BY <2>0, <3>1 DEF Same, AbsentIdle
  <2> SUFFICES ASSUME NEW i \in Jobs, job'[i].status = "absent", NEW q \in Procs
               PROVE  (\A h \in Lanes : exec'[q][i][h] = "none") /\ ~Mentions(q, i)'
    BY <2>0 DEF AbsentIdle, Mentions
  <2>1. job[i].status = "absent" BY <1>5
  <2>2. ~Mentions(q, i) /\ \A h \in Lanes : exec[q][i][h] = "none"
    BY <2>1 DEF AbsentIdle, Mentions
  <2>3. ~Mentions(q, i)' BY <1>4, <2>1, <2>2 DEF MentionStep
  <2>4. ASSUME NEW h \in Lanes PROVE exec'[q][i][h] = "none"
    BY <1>3, <2>1, <2>2 DEF ExecStep
  <2> QED BY <2>3, <2>4
<1>8. NoManualRetry'
  <2> SUFFICES ASSUME NEW q \in Procs, NEW i \in Jobs, NEW h \in Lanes,
                      exec'[q][i][h] \in Refused
               PROVE  ~ManualReview(i)'
    BY DEF NoManualRetry, Refused
  <2>1. exec[q][i][h] \in Refused \/ (exec[q][i][h] # "none" /\ ~ManualReview(i))
    BY <1>3 DEF ExecStep, Refused
  <2>2. exec[q][i][h] # "none" /\ ~ManualReview(i)
    BY <2>1 DEF NoManualRetry, Refused
  <2>3. job[i].status # "absent" BY <2>2 DEF AbsentIdle
  <2> QED BY <1>6, <2>2, <2>3 DEF ManualReview
<1>9. ManualReviewOnce'
  <2> SUFFICES ASSUME NEW i \in Jobs, ManualReview(i)'
               PROVE  /\ job'[i].attempts <= 1
                      /\ job'[i].status = "queued" => job'[i].attempts = 0
    BY DEF ManualReviewOnce
  <2>1. job[i].attempts \in Nat BY DEF TypeOK, Row
  <2>2. CASE Created(i) BY <2>2 DEF Created
  <2>3. CASE ~Created(i)
    <3>1. ManualReview(i) BY <1>2, <2>3 DEF RowStep, Same, ClaimStep, EndStep, RequeueStep, ManualReview
    <3>2. job[i].attempts <= 1 /\ (job[i].status = "queued" => job[i].attempts = 0)
      BY <3>1 DEF ManualReviewOnce
    <3> QED BY <1>2, <2>1, <2>3, <3>1, <3>2 DEF RowStep, Same, ClaimStep, EndStep, RequeueStep
  <2> QED BY <2>2, <2>3
<1> QED BY <1>1, <1>7, <1>8, <1>9

\* The handler of a manual_review job is started at most once over all
\* crashes, restarts, stalls, recoveries and cancels (job-runner.service.ts:27).
THEOREM ManualReviewOnceHolds == Spec => []ManualReviewOnce
<1>1. OnceInv => ManualReviewOnce BY DEF OnceInv
<1> QED BY <1>1, OnceInit, OnceStep, PTL DEF Spec

----------------------------------------------------------------------------
(* The instance lease keeps a second process from scheduling *)

LEMMA HolderDie ==
  ASSUME TypeOK, NEW p \in Procs, Die(p), NEW q \in Procs, HolderOrIdle(q),
         lease.owner = q => lease' = lease \/ q = p
  PROVE  HolderOrIdle(q)'
<1>1. CASE q = p
  <2>1. /\ mode'[q] = "down" /\ held'[q] = FALSE /\ poll'[q] = IdlePoll
        /\ \A j \in Jobs, g \in Lanes : exec'[q][j][g] = "none"
    BY <1>1 DEF Die, TypeOK
  <2> QED BY <2>1 DEF HolderOrIdle, IdlePoll
<1>2. CASE q # p
  <2>1. mode'[q] = mode[q] /\ held'[q] = held[q] /\ poll'[q] = poll[q] /\ exec'[q] = exec[q]
    BY <1>2 DEF Die, TypeOK
  <2> QED BY <1>2, <2>1 DEF HolderOrIdle
<1> QED BY <1>1, <1>2

LEMMA HolderLifeCycle ==
  ASSUME TypeOK, \A r \in Procs : HolderOrIdle(r), NEW p \in Procs,
         Bootstrap(p) \/ Crash(p) \/ Stop(p) \/ Wake(p) \/ RenewLease(p),
         NEW q \in Procs
  PROVE  HolderOrIdle(q)'
<1>1. CASE Boot(p)
  <2>1. UNCHANGED <<poll, exec>> BY <1>1 DEF Boot, execVars
  <2>2. ~held[p] /\ \A j \in Jobs, g \in Lanes : exec[p][j][g] = "none"
    BY <1>1 DEF Boot, HolderOrIdle
  <2>3. CASE LeaseFree
    <3>1. \A r \in Procs : ~held[r]
      BY <2>3, JobRunnerAssumption DEF LeaseFree, HolderOrIdle, TypeOK, LeaseRow
    <3>2. /\ q # p => mode'[q] = mode[q] /\ held'[q] = held[q]
          /\ mode'[p] = "booting" /\ lease' = [owner |-> p, left |-> InstLease]
      BY <1>1, <2>3 DEF Boot, TypeOK
    <3>3. InstLease >= 0 BY JobRunnerAssumption
    <3> QED BY <2>1, <2>2, <3>1, <3>2, <3>3 DEF HolderOrIdle
  <2>4. CASE ~LeaseFree
    <3>1. /\ UNCHANGED <<lease, held>>
          /\ q # p => mode'[q] = mode[q]
          /\ mode'[p] = "exiting"
      BY <1>1, <2>4 DEF Boot, TypeOK
    <3> QED BY <2>1, <2>2, <3>1 DEF HolderOrIdle
  <2> QED BY <2>3, <2>4
<1>2. CASE BootDone(p) \/ Wake(p)
  <2>1. UNCHANGED <<lease, held, poll, exec>> /\ mode' = [mode EXCEPT ![p] = "up"]
    BY <1>2 DEF BootDone, Wake, dbVars, execVars
  <2> QED BY <2>1 DEF HolderOrIdle, TypeOK
<1>3. CASE RecoverMark(p)
  BY <1>3 DEF RecoverMark, HolderOrIdle, execVars
<1>4. ASSUME NEW j \in Jobs, RecoverReplay(p, j) \/ RecoverReview(p, j)
      PROVE  HolderOrIdle(q)'
  <2>1. UNCHANGED lease BY <1>4 DEF RecoverReplay, RecoverReview
  <2>2. Die(p) \/ UNCHANGED <<mode, held, poll, exec>>
    BY <1>4 DEF RecoverReplay, RecoverReview, execVars
  <2> QED BY <2>1, <2>2, HolderDie DEF HolderOrIdle
<1>5. CASE BootFails(p) \/ Crash(p) \/ Stop(p)
  <2>1. Die(p) /\ (lease' = lease \/ lease.owner = p)
    BY <1>5 DEF BootFails, Crash, Stop, dbVars
  <2> QED BY <2>1, HolderDie
<1>6. CASE RenewLease(p)
  <2>1. UNCHANGED <<mode, poll, exec>> BY <1>6 DEF RenewLease, execVars
  <2>2. held[p] /\ lease.owner = p BY <1>6 DEF RenewLease, RenewDue, HolderOrIdle
  <2>3. UNCHANGED held /\ lease' = [lease EXCEPT !.left = InstLease]
    BY <1>6, <2>2 DEF RenewLease
  <2>4. lease'.owner = lease.owner /\ lease'.left >= 0
    BY <2>3, JobRunnerAssumption DEF TypeOK, LeaseRow
  <2> QED BY <2>1, <2>3, <2>4 DEF HolderOrIdle
<1> QED BY <1>1, <1>2, <1>3, <1>4, <1>5, <1>6 DEF Bootstrap

LEMMA HolderPolling ==
  ASSUME TypeOK, NEW p \in Procs, Polling(p), NEW q \in Procs, HolderOrIdle(q)
  PROVE  HolderOrIdle(q)'
<1>1. UNCHANGED <<mode, held, lease>>
  BY DEF Polling, PollStart, PollPick, PollClaim, PollEnd, dbVars
<1>2. CASE q # p
  <2>1. poll'[q] = poll[q]
    BY <1>2 DEF Polling, PollStart, PollPick, PollClaim, PollEnd, TypeOK
  <2>2. exec'[q] = exec[q]
    BY <1>2 DEF Polling, PollStart, PollPick, PollClaim, PollEnd, TypeOK, execVars
  <2> QED BY <1>1, <2>1, <2>2 DEF HolderOrIdle
<1>3. CASE q = p
  <2>1. CASE PollEnd(p)
    <3>1. poll'[p] = IdlePoll /\ UNCHANGED exec BY <2>1 DEF PollEnd, TypeOK, execVars
    <3> QED BY <1>1, <1>3, <3>1 DEF HolderOrIdle, IdlePoll
  <2>2. CASE ~PollEnd(p)
    <3>1. held[p]
      BY <1>3, <2>2 DEF Polling, PollStart, PollPick, PollClaim, HolderOrIdle
    <3> QED BY <1>1, <1>3, <3>1 DEF HolderOrIdle
  <2> QED BY <2>1, <2>2
<1> QED BY <1>2, <1>3

LEMMA HolderExecution ==
  ASSUME TypeOK, NEW p \in Procs, NEW j \in Jobs, NEW g \in Lanes,
         Heartbeat(p, j, g) \/ Execution(p, j, g), NEW q \in Procs, HolderOrIdle(q)
  PROVE  HolderOrIdle(q)'
<1>1. UNCHANGED lease
  BY DEF Heartbeat, Execution, HandlerStarts, HandlerReturns, HandlerThrows, WriteOutcome,
     RequeueRejected, MarkTarget, TerminalFailure, dbVars
<1>2. CASE Die(p) BY <1>1, <1>2, HolderDie
<1>3. CASE ~Die(p)
  <2>1. UNCHANGED <<mode, held, poll>>
    BY <1>3 DEF Heartbeat, Execution, HandlerStarts, HandlerReturns, HandlerThrows,
       WriteOutcome, RequeueRejected, MarkTarget, TerminalFailure, procVars
  <2>2. ASSUME NEW i \in Jobs, NEW h \in Lanes, exec'[q][i][h] # "none"
        PROVE  \E e \in Jobs, f \in Lanes : exec[q][e][f] # "none"
    <3>1. exec'[q][i][h] = exec[q][i][h] \/ (q = p /\ exec[p][j][g] # "none")
      <4>1. UNCHANGED exec \/ \E s : exec' = [exec EXCEPT ![p][j][g] = s]
        BY <1>3 DEF Heartbeat, Execution, HandlerStarts, HandlerReturns, HandlerThrows,
           WriteOutcome, RequeueRejected, MarkTarget, TerminalFailure, procVars,
           Advance, Finish
      <4>2. exec[p][j][g] # "none"
        BY <1>3 DEF Heartbeat, HeartbeatDue, Execution, HandlerStarts, HandlerReturns,
           HandlerThrows, WriteOutcome, RequeueRejected, MarkTarget, TerminalFailure
      <4> QED BY <4>1, <4>2 DEF TypeOK
    <3> QED BY <2>2, <3>1
  <2> QED BY <1>1, <2>1, <2>2 DEF HolderOrIdle
<1> QED BY <1>2, <1>3

LEMMA HolderRequests ==
  ASSUME NEW p \in Procs, Requesting(p) \/ Cancelling(p), NEW q \in Procs, HolderOrIdle(q)
  PROVE  HolderOrIdle(q)'
BY DEF Requesting, Enqueue, CancelRead, Cancelling, CancelWrite, QueuedCancellation,
   dbVars, procVars, execVars, HolderOrIdle

LEMMA HolderTick ==
  ASSUME TypeOK, Tick, NEW q \in Procs, HolderOrIdle(q)
  PROVE  HolderOrIdle(q)'
<1>1. UNCHANGED <<mode, held, poll, exec>> BY DEF Tick, procVars
<1>2. ASSUME held[q] PROVE lease'.owner = q /\ lease'.left >= 0
  <2>1. Awake(q) /\ lease.owner = q BY <1>2 DEF HolderOrIdle, Awake
  <2>2. ~(lease.left <= InstLease - Renew)
    BY <1>2, <2>1 DEF Tick, TimersFired, RenewDue
  <2>3. lease.left \in Int BY DEF TypeOK, LeaseRow
  <2>4. lease.left >= 1 BY <2>2, <2>3, JobRunnerAssumption
  <2>5. lease' = [lease EXCEPT !.left = LeaseDown(lease.left)]
    BY <2>1, JobRunnerAssumption DEF Tick
  <2>6. lease'.owner = q /\ lease'.left = LeaseDown(lease.left)
    BY <2>1, <2>5 DEF TypeOK, LeaseRow
  <2> QED BY <2>3, <2>4, <2>6 DEF LeaseDown
<1> QED BY <1>1, <1>2 DEF HolderOrIdle

LEMMA HolderInit == Init => HolderInv
<1> SUFFICES ASSUME Init PROVE HolderInv
  OBVIOUS
<1>1. budget.stalls = MaxStalls /\ MaxStalls \in Nat
  BY JobRunnerAssumption DEF Init
<1>2. \A p \in Procs : HolderOrIdle(p)
  BY DEF Init, HolderOrIdle, IdlePoll
<1> QED BY <1>1, <1>2 DEF HolderInv

LEMMA HolderStep == TypeOK /\ HolderInv /\ [Next]_vars => HolderInv'
<1> SUFFICES ASSUME TypeOK, HolderInv, [Next]_vars PROVE HolderInv'
  OBVIOUS
<1>0. budget.stalls \in Nat /\ MaxStalls \in Nat
  BY JobRunnerAssumption DEF TypeOK, Budget
<1>1. \/ budget'.stalls = budget.stalls
      \/ /\ \E p \in Procs : Stall(p)
         /\ budget'.stalls = budget.stalls - 1
  <2>1. ASSUME NEW p \in Procs, Environment(p)
        PROVE  \/ budget'.stalls = budget.stalls
               \/ Stall(p) /\ budget'.stalls = budget.stalls - 1
    BY <2>1 DEF Environment, Crash, Stop, Stall, TypeOK, Budget
  <2>2. ASSUME NEW p \in Procs, Requesting(p) \/ Cancelling(p)
        PROVE  budget'.stalls = budget.stalls
    BY <2>2 DEF Requesting, Enqueue, CancelRead, Cancelling, CancelWrite,
       QueuedCancellation, TypeOK, Budget
  <2>3. ASSUME NEW p \in Procs, Bootstrap(p) \/ RenewLease(p) \/ Polling(p) \/ Wake(p)
        PROVE  budget' = budget
    BY <2>3 DEF Bootstrap, Boot, BootDone, BootFails, RecoverMark, RecoverReplay,
       RecoverReview, RenewLease, Polling, PollStart, PollPick, PollClaim, PollEnd, Wake
  <2>4. ASSUME NEW p \in Procs, NEW j \in Jobs, NEW g \in Lanes,
               Heartbeat(p, j, g) \/ Execution(p, j, g)
        PROVE  budget' = budget
    BY <2>4 DEF Heartbeat, Execution, HandlerStarts, HandlerReturns, HandlerThrows,
       WriteOutcome, RequeueRejected, MarkTarget, TerminalFailure
  <2>5. Tick \/ UNCHANGED vars => budget' = budget
    BY DEF Tick, vars
  <2> QED BY <2>1, <2>2, <2>3, <2>4, <2>5 DEF Next
<1>2. (budget.stalls <= MaxStalls)'
  BY <1>0, <1>1 DEF HolderInv
<1>3. ASSUME NoStall', NEW q \in Procs PROVE HolderOrIdle(q)'
  <2>1. budget'.stalls = budget.stalls /\ NoStall
    BY <1>0, <1>1, <1>3 DEF HolderInv, NoStall
  <2>2. \A r \in Procs : HolderOrIdle(r) BY <2>1 DEF HolderInv
  <2>3. \A p \in Procs : ~Stall(p)
    BY <1>0, <2>1 DEF Stall, TypeOK, Budget
  <2>4. UNCHANGED vars => HolderOrIdle(q)' BY <2>2 DEF vars, HolderOrIdle
  <2> QED
    BY <2>2, <2>3, <2>4, HolderLifeCycle, HolderPolling, HolderExecution, HolderRequests,
       HolderTick DEF Next, Environment
<1> QED BY <1>2, <1>3 DEF HolderInv

LEMMA HolderAlways == Spec => []HolderInv
BY HolderInit, HolderStep, TypeCorrect, PTL DEF Spec

\* As long as no process stalls, two processes never both believe that they
\* hold the instance lease (instance-lease.service.ts:38-80).
THEOREM SingleHolderHolds == Spec => []SingleHolder
<1>1. HolderInv => SingleHolder
  BY DEF HolderInv, HolderOrIdle, SingleHolder
<1> QED BY <1>1, HolderAlways, PTL

\* As long as no process stalls, a job is executed by one process at a time.
THEOREM SingleExecutorHolds == Spec => []SingleExecutor
<1>1. ASSUME HolderInv, NoStall, NEW j \in Jobs, NEW d \in Executions(j), NEW e \in Executions(j)
      PROVE  d[1] = e[1]
  <2>1. d[1] \in Procs /\ e[1] \in Procs /\ held[d[1]] /\ held[e[1]]
    BY <1>1 DEF Executions, HolderInv, HolderOrIdle
  <2> QED BY <1>1, <2>1 DEF HolderInv, HolderOrIdle
<1>2. HolderInv => SingleExecutor BY <1>1 DEF SingleExecutor
<1> QED BY <1>2, HolderAlways, PTL

----------------------------------------------------------------------------
(* The drift of runningByType never takes a slot away for good *)

\* A row that exists keeps its type.
LEMMA TypeKept ==
  ASSUME OnceInv, [Next]_vars, NEW i \in Jobs, job[i].status # "absent"
  PROVE  job'[i].type = job[i].type
BY RowSteps DEF OnceInv, RowStep, Same, Created, ClaimStep, EndStep, RequeueStep

\* A row with an execution, or picked by a poll loop, exists.
LEMMA ReferredExists ==
  ASSUME OnceInv, NEW p \in Procs, NEW i \in Jobs
  PROVE  /\ \A g \in Lanes : exec[p][i][g] # "none" => job[i].status # "absent"
         /\ poll[p].pick = i => job[i].status # "absent"
         /\ i \in poll[p].cand => job[i].status # "absent"
BY DEF OnceInv, AbsentIdle

LEMMA PickStep ==
  ASSUME OnceInv, [Next]_vars, NEW p \in Procs, PickBelow(p)
  PROVE  PickBelow(p)'
<1>0. TypeOK BY DEF OnceInv
<1>1. poll[p] \in PollState BY <1>0 DEF TypeOK
<1>2. CASE poll'[p] = poll[p]
  <2> DEFINE i == poll[p].pick
  <2>1. i = NoJob \/ (i \in Jobs /\ job'[i].type = job[i].type)
    BY <1>1, ReferredExists, TypeKept DEF PollState
  <2> QED BY <1>2, <2>1 DEF PickBelow
<1>3. CASE poll'[p].pick = NoJob BY <1>3 DEF PickBelow
<1>4. ASSUME NEW j \in Jobs, PollPick(p, j) PROVE PickBelow(p)'
  <2> DEFINE t == job[j].type
  <2>1. job' = job /\ j \in poll[p].cand /\ poll[p].pick = NoJob
    BY <1>4 DEF PollPick, dbVars
  <2>2. count[p][t] \in Nat BY <1>0 DEF TypeOK, Row
  <2>3. \/ count[p][t] < Concurrency[t] /\ poll'[p] = Picked(poll[p], j, count[p][t])
        \/ poll'[p] = Dropped(poll[p], j)
    BY <1>0, <1>4 DEF PollPick, TypeOK
  <2>4. /\ Picked(poll[p], j, count[p][t]).pick = j
        /\ Picked(poll[p], j, count[p][t]).seen = count[p][t]
        /\ Dropped(poll[p], j).pick = NoJob
    BY <1>1, <2>1 DEF Picked, Dropped, PollState
  <2> QED BY <2>1, <2>3, <2>4 DEF PickBelow
<1>5. ASSUME NEW q \in Procs, Polling(q)
      PROVE  \/ poll'[p] = poll[p] \/ poll'[p].pick = NoJob
             \/ \E j \in Jobs : PollPick(p, j)
  <2>1. CASE q # p
    BY <1>0, <1>5, <2>1 DEF Polling, PollStart, PollPick, PollClaim, PollEnd, TypeOK
  <2>2. CASE q = p
    <3>1. CASE PollStart(p)
      <4>1. poll'[p] = [IdlePoll EXCEPT !.busy = TRUE, !.cand = {j \in Jobs : Due(j)}]
        BY <1>0, <3>1 DEF PollStart, TypeOK
      <4> QED BY <4>1 DEF IdlePoll
    <3>2. CASE PollClaim(p)
      <4>1. poll'[p] = Unpicked(poll[p]) BY <1>0, <3>2 DEF PollClaim, TypeOK
      <4> QED BY <1>1, <4>1 DEF Unpicked, PollState
    <3>3. CASE PollEnd(p)
      BY <1>0, <3>3 DEF PollEnd, TypeOK, IdlePoll
    <3> QED BY <1>5, <2>2, <3>1, <3>2, <3>3 DEF Polling
  <2> QED BY <2>1, <2>2
<1>6. ASSUME NEW q \in Procs, Die(q) PROVE poll'[p] = poll[p] \/ poll'[p].pick = NoJob
  BY <1>0, <1>6 DEF Die, TypeOK, IdlePoll
<1>7. ASSUME NEW q \in Procs,
             \/ Bootstrap(q) \/ RenewLease(q) \/ Requesting(q) \/ Cancelling(q)
             \/ Environment(q) \/ Wake(q)
      PROVE  UNCHANGED poll \/ Die(q)
  BY <1>7 DEF Bootstrap, Boot, BootDone, BootFails, RecoverMark, RecoverReplay,
     RecoverReview, RenewLease, Requesting, Enqueue, CancelRead, Cancelling, CancelWrite,
     QueuedCancellation, Environment, Crash, Stop, Stall, Wake, procVars
<1>8. ASSUME NEW q \in Procs, NEW j \in Jobs, NEW g \in Lanes,
             Heartbeat(q, j, g) \/ Execution(q, j, g)
      PROVE  UNCHANGED poll \/ Die(q)
  BY <1>8 DEF Heartbeat, Execution, HandlerStarts, HandlerReturns, HandlerThrows,
     WriteOutcome, RequeueRejected, MarkTarget, TerminalFailure, procVars
<1>9. Tick \/ UNCHANGED vars => UNCHANGED poll BY DEF Tick, procVars, vars
<1> QED
  BY <1>2, <1>3, <1>4, <1>5, <1>6, <1>7, <1>8, <1>9 DEF Next

LEMMA CountStep ==
  ASSUME OnceInv, [Next]_vars, NEW p \in Procs, PickBelow(p), NEW t \in Types, CountBacked(p, t)
  PROVE  CountBacked(p, t)'
<1>0. TypeOK BY DEF OnceInv
<1>1. \A i \in Jobs, h \in Lanes : exec[p][i][h] # "none" => job'[i].type = job[i].type
  BY ReferredExists, TypeKept
<1>2. count[p][t] \in Nat /\ Concurrency[t] \in Nat \ {0}
  BY <1>0, JobRunnerAssumption DEF TypeOK
<1>3. CASE /\ count'[p][t] = count[p][t]
           /\ \A i \in Jobs, h \in Lanes :
                exec[p][i][h] # "none" /\ job[i].type = t => exec'[p][i][h] # "none"
  BY <1>1, <1>3 DEF CountBacked
<1>4. CASE count'[p][t] < Concurrency[t]
  BY <1>4 DEF CountBacked
<1>5. ASSUME NEW q \in Procs, Die(q) PROVE CountBacked(p, t)'
  <2>1. \/ count'[p] = count[p] /\ exec'[p] = exec[p]
        \/ count'[p][t] = 0
    BY <1>0, <1>5 DEF Die, TypeOK
  <2> QED BY <1>2, <1>3, <1>4, <2>1
<1>6. ASSUME NEW q \in Procs, PollClaim(q) PROVE CountBacked(p, t)'
  <2> DEFINE i == poll[q].pick
             u == job[i].type
  <2>1. CASE UNCHANGED execVars BY <1>3, <2>1 DEF execVars
  <2>2. CASE Claimable(i)
    <3>1. PICK g \in Lanes : exec' = [exec EXCEPT ![q][i][g] = "claimed"]
      BY <1>6, <2>2 DEF PollClaim
    <3>2. count' = [count EXCEPT ![q][u] = poll[q].seen + 1]
      BY <1>6, <2>2 DEF PollClaim
    <3>3. i \in Jobs /\ i # NoJob /\ poll[q].seen \in Nat
      BY <1>0, <1>6 DEF TypeOK, PollClaim, PollState
    <3>4. u \in Types BY <1>0, <3>3 DEF TypeOK, Row
    <3>5. job'[i].type = u BY <3>3, ReferredExists, TypeKept
    <3>6. q = p => poll[q].seen < Concurrency[u] BY <3>3 DEF PickBelow
    <3> HIDE DEF i, u
    <3>7. CASE q = p /\ u = t
      <4>1. count'[p][t] = poll[q].seen + 1 BY <1>0, <3>2, <3>7 DEF TypeOK
      <4>2. exec'[p][i][g] = "claimed" BY <1>0, <3>1, <3>3, <3>7 DEF TypeOK
      <4>3. count'[p][t] <= Concurrency[t] BY <1>2, <3>3, <3>6, <3>7, <4>1
      <4>4. count'[p][t] \in Nat BY <3>3, <4>1
      <4> QED BY <1>2, <3>3, <3>5, <3>7, <4>2, <4>3, <4>4 DEF CountBacked
    <3>8. CASE ~(q = p /\ u = t)
      <4>1. count'[p][t] = count[p][t] BY <1>0, <3>2, <3>8 DEF TypeOK
      <4>2. \A e \in Jobs, h \in Lanes : exec'[p][e][h] \in {exec[p][e][h], "claimed"}
        BY <1>0, <3>1 DEF TypeOK
      <4> QED BY <1>3, <4>1, <4>2
    <3> QED BY <3>7, <3>8
  <2> QED BY <1>6, <2>1, <2>2 DEF PollClaim, execVars
<1>7. ASSUME NEW q \in Procs, NEW j \in Jobs, NEW g \in Lanes, Execution(q, j, g), ~Die(q)
      PROVE  CountBacked(p, t)'
  <2>1. ASSUME NEW s, Advance(q, j, g, s), s # "none" PROVE CountBacked(p, t)'
    <3>1. count' = count BY <2>1 DEF Advance
    <3>2. \A i \in Jobs, h \in Lanes : exec'[p][i][h] \in {exec[p][i][h], s}
      BY <1>0, <2>1 DEF Advance, TypeOK
    <3> QED BY <1>3, <2>1, <3>1, <3>2
  <2>2. ASSUME Finish(q, j, g) PROVE CountBacked(p, t)'
    <3> DEFINE u == job[j].type
               n == Decremented(count[q][u])
    <3>1. count' = [count EXCEPT ![q][u] = n] /\ exec' = [exec EXCEPT ![q][j][g] = "none"]
      BY <2>2 DEF Finish
    <3>2. u \in Types BY <1>0 DEF TypeOK, Row
    <3>3. CASE q = p /\ u = t
      <4>1. count'[p][t] = Decremented(count[p][t]) BY <1>0, <3>1, <3>2, <3>3 DEF TypeOK
      <4>2. count[p][t] <= Concurrency[t] BY <1>2 DEF CountBacked
      <4> QED BY <1>2, <1>4, <4>1, <4>2 DEF Decremented
    <3>4. CASE ~(q = p /\ u = t)
      <4> HIDE DEF n
      <4>1. count'[p][t] = count[p][t] BY <1>0, <3>1, <3>4 DEF TypeOK
      <4>2. \A i \in Jobs, h \in Lanes :
              exec[p][i][h] # "none" /\ job[i].type = t => exec'[p][i][h] = exec[p][i][h]
        BY <1>0, <3>1, <3>4 DEF TypeOK
      <4> QED BY <1>3, <4>1, <4>2
    <3> QED BY <3>3, <3>4
  <2>3. \/ Finish(q, j, g)
        \/ \E s : Advance(q, j, g, s) /\ s # "none"
    <3>1. ASSUME NEW r \in BOOLEAN PROVE FailureStatus(j, r) # "none"
      BY FailureStatusType
    <3> QED
      BY <1>7, <3>1 DEF Execution, HandlerStarts, HandlerReturns, HandlerThrows,
         WriteOutcome, RequeueRejected, MarkTarget, TerminalFailure
  <2> QED BY <2>1, <2>2, <2>3
<1>8. CASE UNCHANGED execVars BY <1>3, <1>8 DEF execVars
<1> QED BY <1>5, <1>6, <1>7, <1>8, ExecWriters

LEMMA SlotInit == Init => SlotBacked
<1> SUFFICES ASSUME Init PROVE SlotBacked
  OBVIOUS
<1>1. \A p \in Procs, t \in Types : count[p][t] < Concurrency[t]
  BY JobRunnerAssumption DEF Init
<1>2. \A p \in Procs : poll[p].pick = NoJob
  BY DEF Init, IdlePoll
<1> QED BY <1>1, <1>2 DEF SlotBacked, CountBacked, PickBelow

LEMMA SlotStep == OnceInv /\ SlotBacked /\ [Next]_vars => SlotBacked'
BY PickStep, CountStep DEF SlotBacked

\* Although the type count is read before an await and written back after it, a
\* type without executions always has a free slot (job-runner.service.ts:69-90).
THEOREM SlotNeverLostHolds == Spec => []SlotNeverLost
<1>1. ASSUME SlotBacked, NEW p \in Procs, NEW t \in Types,
             \A e \in Executing(p) : job[e[1]].type # t
      PROVE  count[p][t] < Concurrency[t]
  <2>1. ASSUME NEW j \in Jobs, NEW g \in Lanes, exec[p][j][g] # "none"
        PROVE  job[j].type # t
    <3>1. <<j, g>> \in Executing(p) BY <2>1 DEF Executing
    <3> QED BY <1>1, <3>1
  <2> QED BY <1>1, <2>1 DEF SlotBacked, CountBacked
<1>2. SlotBacked => SlotNeverLost BY <1>1 DEF SlotNeverLost
<1> QED BY <1>2, SlotInit, SlotStep, OnceInit, OnceStep, PTL DEF Spec
----------------------------------------------------------------------------
(* Only a death loses the review of a write in doubt *)

LEMMA ReviewedNotRunning == \A t : Reviewed(t) # "running"
BY DEF Reviewed

\* An execution that ends leaves its manual_review row reviewed or not in doubt.
LEMMA ReviewableExecution ==
  ASSUME OnceInv, NEW p \in Procs, NEW j \in Jobs, NEW g \in Lanes,
         Execution(p, j, g), ~Die(p), NEW i \in Jobs, Reviewable(i)
  PROVE  Reviewable(i)'
<1>0. TypeOK /\ NoManualRetry BY DEF OnceInv
<1>1. boot' = boot
  BY DEF Execution, HandlerStarts, HandlerReturns, HandlerThrows, WriteOutcome,
     RequeueRejected, MarkTarget, TerminalFailure
<1>2. CASE i # j
  <2>1. job'[i] = job[i]
    BY <1>0, <1>2 DEF Execution, HandlerStarts, HandlerReturns, HandlerThrows, WriteOutcome,
       RequeueRejected, MarkTarget, TerminalFailure, dbVars, TypeOK
  <2>2. target'[i] = target[i]
    BY <1>0, <1>2 DEF Execution, HandlerStarts, HandlerReturns, HandlerThrows, WriteOutcome,
       RequeueRejected, MarkTarget, TerminalFailure, dbVars, TypeOK
  <2>3. \A q \in Procs, h \in Lanes : exec'[q][i][h] = exec[q][i][h]
    <3>1. exec' = exec \/ \E s : exec' = [exec EXCEPT ![p][j][g] = s]
      BY DEF Execution, HandlerStarts, HandlerReturns, HandlerThrows, WriteOutcome,
         RequeueRejected, MarkTarget, TerminalFailure, Advance, Finish
    <3>2. ASSUME NEW s, exec' = [exec EXCEPT ![p][j][g] = s], NEW q \in Procs, NEW h \in Lanes
          PROVE  exec'[q][i][h] = exec[q][i][h]
      BY <1>0, <1>2, <3>2 DEF TypeOK
    <3> QED BY <3>1, <3>2
  <2> QED BY <1>1, <2>1, <2>2, <2>3 DEF Reviewable, ManualReview
<1>3. ASSUME i = j, NEW s, Advance(p, j, g, s), s # "none" PROVE Reviewable(i)'
  <2>1. exec'[p][i][g] # "none" BY <1>0, <1>3 DEF Advance, TypeOK
  <2> QED BY <2>1 DEF Reviewable
<1>4. ASSUME i = j, WriteOutcome(p, j, g) PROVE Reviewable(i)'
  <2> DEFINE s == exec[p][j][g]
  <2>1. CASE AfterOutcome(s) # "none"
    BY <1>3, <1>4, <2>1 DEF WriteOutcome
  <2>2. CASE AfterOutcome(s) = "none"
    <3>1. s # "unknown" /\ s \in Status
      BY <1>4, <2>2 DEF AfterOutcome, WriteOutcome
    <3>2. job'[i] = Settled(job[i], s) BY <1>0, <1>4 DEF WriteOutcome, TypeOK
    <3> HIDE DEF s
    <3>3. job'[i].status = s BY <1>0, <3>1, <3>2, SettledFields DEF TypeOK
    <3> QED BY <3>1, <3>3 DEF Reviewable
  <2> QED BY <2>1, <2>2
<1>5. ASSUME i = j, MarkTarget(p, j, g) PROVE Reviewable(i)'
  <2>1. target'[i] = Reviewed(target[i]) BY <1>0, <1>5 DEF MarkTarget, TypeOK
  <2> QED BY <2>1, ReviewedNotRunning DEF Reviewable
<1>6. ASSUME i = j, TerminalFailure(p, j, g) PROVE Reviewable(i)'
  <2>1. ~ManualReview(i) BY <1>0, <1>6 DEF TerminalFailure, NoManualRetry, Refused
  <2>2. job' = job BY <1>6 DEF TerminalFailure
  <2> QED BY <2>1, <2>2 DEF Reviewable, ManualReview
<1>7. ASSUME i = j, HandlerStarts(p, j, g) \/ HandlerReturns(p, j, g) PROVE Reviewable(i)'
  BY <1>3, <1>7 DEF HandlerStarts, HandlerReturns
<1>8. ASSUME i = j, NEW r \in BOOLEAN, HandlerThrows(p, j, g, r) PROVE Reviewable(i)'
  <2>1. FailureStatus(j, r) # "none" BY FailureStatusType
  <2> QED BY <1>3, <1>8, <2>1 DEF HandlerThrows
<1> QED
  BY <1>2, <1>4, <1>5, <1>6, <1>7, <1>8 DEF Execution, RequeueRejected

\* Recovery marks what it finds in doubt, row by row.
LEMMA ReviewableBootstrap ==
  ASSUME OnceInv, NEW p \in Procs, Bootstrap(p), ~Die(p), NEW i \in Jobs, Reviewable(i)
  PROVE  Reviewable(i)'
<1>0. TypeOK BY DEF OnceInv
<1>1. exec' = exec
  BY DEF Bootstrap, Boot, BootDone, BootFails, RecoverMark, RecoverReplay, RecoverReview, execVars
<1>2. CASE Boot(p) \/ BootDone(p)
  <2>1. UNCHANGED <<job, target>> BY <1>2 DEF Boot, BootDone, dbVars
  <2>2. ASSUME NEW q \in Procs PROVE boot'[q].mark = boot[q].mark
    <3>1. boot[q] \in BootState BY <1>0 DEF TypeOK
    <3>2. \/ boot'[q] = boot[q]
          \/ boot'[q] = [boot[q] EXCEPT !.todo = {j \in Jobs : JobExpired(j)}]
      BY <1>0, <1>2 DEF Boot, BootDone, TypeOK
    <3> QED BY <3>1, <3>2 DEF BootState
  <2> QED BY <1>1, <2>1, <2>2 DEF Reviewable, ManualReview
<1>3. CASE RecoverMark(p)
  <2> DEFINE k == boot[p].mark
  <2>1. k \in Jobs BY <1>0, <1>3 DEF RecoverMark, TypeOK, BootState
  <2>2. target' = [target EXCEPT ![k] = Reviewed(target[k])] /\ UNCHANGED job
    BY <1>3 DEF RecoverMark
  <2>3. \A q \in Procs : q # p => boot'[q] = boot[q]
    BY <1>0, <1>3 DEF RecoverMark, TypeOK
  <2>4. CASE i = k
    <3>1. target'[i] = Reviewed(target[k]) BY <1>0, <2>2, <2>4 DEF TypeOK
    <3> QED BY <3>1, ReviewedNotRunning DEF Reviewable
  <2>5. CASE i # k
    <3>1. target'[i] = target[i] BY <1>0, <2>2, <2>5 DEF TypeOK
    <3> QED BY <1>1, <2>2, <2>3, <2>5, <3>1 DEF Reviewable, ManualReview
  <2> QED BY <2>4, <2>5
<1>4. ASSUME NEW j \in Jobs, RecoverReplay(p, j) PROVE Reviewable(i)'
  <2>1. /\ job' = [job EXCEPT ![j] = Released(job[j], "queued")]
        /\ boot' = [boot EXCEPT ![p].todo = @ \ {j}]
        /\ UNCHANGED target
    BY <1>4 DEF RecoverReplay
  <2>2. \A q \in Procs : boot'[q].mark = boot[q].mark
    BY <1>0, <2>1 DEF TypeOK, BootState
  <2>3. job'[i] = job[i] \/ job'[i].status = "queued"
    BY <1>0, <2>1, ReleasedFields DEF TypeOK
  <2> QED BY <1>1, <2>1, <2>2, <2>3 DEF Reviewable, ManualReview
<1>5. ASSUME NEW j \in Jobs, RecoverReview(p, j) PROVE Reviewable(i)'
  <2>1. /\ job' = [job EXCEPT ![j] = Released(job[j], "unknown")]
        /\ boot' = [boot EXCEPT ![p] = [todo |-> boot[p].todo \ {j}, mark |-> j]]
        /\ UNCHANGED target /\ boot[p].mark = NoJob
    BY <1>5 DEF RecoverReview
  <2>2. CASE i = j
    <3>1. boot'[p].mark = i BY <1>0, <2>1, <2>2 DEF TypeOK
    <3> QED BY <3>1 DEF Reviewable
  <2>3. CASE i # j
    <3>1. job'[i] = job[i] BY <1>0, <2>1, <2>3 DEF TypeOK
    <3>2. \A q \in Procs : boot[q].mark = i => boot'[q] = boot[q]
      BY <1>0, <2>1, JobRunnerAssumption DEF TypeOK
    <3> QED BY <1>1, <2>1, <3>1, <3>2 DEF Reviewable, ManualReview
  <2> QED BY <2>2, <2>3
<1> QED BY <1>2, <1>3, <1>4, <1>5 DEF Bootstrap, BootFails

\* The remaining steps leave the pending marks alone.
LEMMA ReviewableOthers ==
  ASSUME OnceInv, [Next]_vars, UNCHANGED boot, NEW i \in Jobs, Reviewable(i),
         \A q \in Procs, g \in Lanes : exec[q][i][g] # "none" => exec'[q][i][g] # "none",
         target'[i] = "running" => target[i] = "running",
         job'[i].status = "unknown" => job[i].status = "unknown"
  PROVE  Reviewable(i)'
<1>1. job'[i].status = "unknown" => job'[i].type = job[i].type
  BY RowSteps DEF OnceInv, RowStep, Same, Created, ClaimStep, EndStep, RequeueStep
<1> QED BY <1>1 DEF Reviewable, ManualReview

LEMMA ReviewableStep ==
  ASSUME OnceInv, [Next]_vars, \A p \in Procs : ~Died(p), NEW i \in Jobs, Reviewable(i)
  PROVE  Reviewable(i)'
<1>0. TypeOK BY DEF OnceInv
<1>1. ASSUME NEW p \in Procs, Die(p), mode[p] # "down" PROVE FALSE
  <2>1. mode'[p] = "down" BY <1>0, <1>1 DEF Die, TypeOK
  <2> QED BY <1>1, <2>1 DEF Died
<1>2. ASSUME NEW p \in Procs, Bootstrap(p) PROVE Reviewable(i)'
  <2>1. ~Die(p) \/ mode[p] = "down" BY <1>1
  <2>2. Die(p) => mode[p] # "down"
    <3>1. Die(p) => mode'[p] = "down" BY <1>0 DEF Die, TypeOK
    <3>2. Boot(p) => mode'[p] # "down" BY <1>0 DEF Boot, TypeOK
    <3> QED
      BY <1>2, <3>1, <3>2 DEF Bootstrap, BootDone, BootFails, RecoverMark, RecoverReplay,
         RecoverReview
  <2> QED BY <1>2, <2>1, <2>2, ReviewableBootstrap
<1>3. ASSUME NEW p \in Procs, NEW j \in Jobs, NEW g \in Lanes, Execution(p, j, g)
      PROVE  Reviewable(i)'
  <2>1. mode[p] # "down"
    BY <1>3 DEF Execution, HandlerStarts, HandlerReturns, HandlerThrows, WriteOutcome,
       RequeueRejected, MarkTarget, TerminalFailure, Awake
  <2> QED BY <1>1, <1>3, <2>1, ReviewableExecution
<1>4. ASSUME NEW p \in Procs, Polling(p) PROVE Reviewable(i)'
  <2>1. UNCHANGED <<boot, target>>
    BY <1>4 DEF Polling, PollStart, PollPick, PollClaim, PollEnd, dbVars
  <2>2. job'[i].status = "unknown" => job[i].status = "unknown"
    <3>1. job'[i] = job[i] \/ job'[i] = Claimed(job[i], p)
      BY <1>0, <1>4 DEF Polling, PollStart, PollPick, PollClaim, PollEnd, dbVars, TypeOK
    <3> QED BY <1>0, <3>1, ClaimedFields DEF TypeOK
  <2>3. \A q \in Procs, g \in Lanes : exec[q][i][g] # "none" => exec'[q][i][g] # "none"
    <3>1. exec' = exec \/ \E j \in Jobs, h \in Lanes : exec' = [exec EXCEPT ![p][j][h] = "claimed"]
      BY <1>0, <1>4 DEF Polling, PollStart, PollPick, PollClaim, PollEnd, execVars,
         TypeOK, PollState
    <3>2. ASSUME NEW j \in Jobs, NEW h \in Lanes, exec' = [exec EXCEPT ![p][j][h] = "claimed"],
                 NEW q \in Procs, NEW g \in Lanes, exec[q][i][g] # "none"
          PROVE  exec'[q][i][g] # "none"
      BY <1>0, <3>2 DEF TypeOK
    <3> QED BY <3>1, <3>2
  <2> QED BY <2>1, <2>2, <2>3, ReviewableOthers
<1>5. ASSUME NEW p \in Procs, Requesting(p) \/ Cancelling(p) PROVE Reviewable(i)'
  <2>1. UNCHANGED <<boot, exec>>
    BY <1>5 DEF Requesting, Enqueue, CancelRead, Cancelling, CancelWrite,
       QueuedCancellation, procVars, execVars
  <2>2. target'[i] = "running" => target[i] = "running"
    BY <1>0, <1>5 DEF Requesting, Enqueue, CancelRead, Cancelling, CancelWrite,
       QueuedCancellation, dbVars, TypeOK
  <2>3. job'[i].status = "unknown" => job[i].status = "unknown"
    <3>1. ASSUME NEW j \in Jobs, NEW r \in Requests, Enqueue(p, j, r)
          PROVE  job'[i] = job[i] \/ job'[i].status = "queued"
      BY <1>0, <3>1, QueuedFields DEF Enqueue, TypeOK
    <3>2. ASSUME CancelWrite(p)
          PROVE  job'[i].status = job[i].status \/ job'[i].status = "cancelled"
      <4>1. \/ job'[i] = job[i] \/ job'[i] = CancelledRow(job[i])
            \/ job'[i] = [job[i] EXCEPT !.cancel = TRUE]
        <5>1. CASE cancel[p].step = "queued" BY <1>0, <3>2, <5>1 DEF CancelWrite, TypeOK
        <5>2. CASE cancel[p].step # "queued" BY <1>0, <3>2, <5>2 DEF CancelWrite, TypeOK
        <5> QED BY <5>1, <5>2
      <4>2. job[i] \in Row BY <1>0 DEF TypeOK
      <4>3. [job[i] EXCEPT !.cancel = TRUE].status = job[i].status BY <4>2 DEF Row
      <4> QED BY <4>1, <4>2, <4>3, CancelledFields
    <3>3. ASSUME NEW j \in Jobs, CancelRead(p, j) PROVE job'[i] = job[i]
      BY <3>3 DEF CancelRead, dbVars
    <3>4. ASSUME QueuedCancellation(p) PROVE job'[i] = job[i]
      BY <3>4 DEF QueuedCancellation
    <3> QED BY <1>5, <3>1, <3>2, <3>3, <3>4 DEF Requesting, Cancelling
  <2> QED BY <2>1, <2>2, <2>3, ReviewableOthers
<1>6. ASSUME NEW p \in Procs,
             \/ RenewLease(p) \/ Environment(p) \/ Wake(p)
             \/ \E j \in Jobs, g \in Lanes : Heartbeat(p, j, g)
      PROVE  Reviewable(i)'
  <2>1. ~Crash(p) /\ ~Stop(p) BY <1>1 DEF Crash, Stop
  <2>2. UNCHANGED <<boot, exec, target>>
    BY <1>6, <2>1 DEF RenewLease, Environment, Stall, Wake, Heartbeat, procVars, execVars, dbVars
  <2>3. job'[i].status = job[i].status
    <3>1. job'[i] = job[i] \/ job'[i] = [job[i] EXCEPT !.left = JobLease]
      BY <1>0, <1>6, <2>1 DEF RenewLease, Environment, Stall, Wake, Heartbeat, dbVars, TypeOK
    <3> QED BY <1>0, <3>1 DEF TypeOK, Row
  <2> QED BY <2>2, <2>3, ReviewableOthers
<1>7. CASE Tick \/ UNCHANGED vars
  <2>1. UNCHANGED <<boot, exec, target>> BY <1>7 DEF Tick, vars, procVars
  <2>2. job'[i].status = job[i].status
    BY <1>0, <1>7, ElapsedFields DEF Tick, vars, TypeOK
  <2> QED BY <2>1, <2>2, ReviewableOthers
<1> QED BY <1>2, <1>3, <1>4, <1>5, <1>6, <1>7 DEF Next

\* Only the death of a process ever leaves an external write in doubt that no review
\* shows and no step is about to show (job-runner.service.ts:38-44, 176-187).
THEOREM DoubtIsShown == Spec => UnknownIsReviewable
<1>1. OnceInv /\ [Next]_vars =>
        [(\A p \in Procs : ~Died(p)) => \A j \in Jobs : Reviewable(j) => Reviewable(j)']_vars
  BY ReviewableStep
<1> QED BY <1>1, OnceInit, OnceStep, PTL DEF Spec, UnknownIsReviewable

----------------------------------------------------------------------------
(* The partial unique index: active rows with the same key are the same row *)

\* Rows keep their key, and a row becomes active only past the unique index.
KeyStep(j) ==
  job'[j].status \in Active =>
    \/ job[j].status \in Active /\ job'[j].key = job[j].key
    \/ ~KeyTaken(job'[j].key, j) /\ \A i \in Jobs \ {j} : job'[i] = job[i]

LEMMA KeySteps ==
  ASSUME TypeOK, [Next]_vars, NEW i \in Jobs
  PROVE  KeyStep(i)
<1>0. job[i] \in Row BY DEF TypeOK
<1>1. CASE UNCHANGED job BY <1>1 DEF KeyStep
<1>2. CASE Tick BY <1>0, <1>2, ElapsedFields DEF TypeOK, Tick, KeyStep
<1>3. ASSUME NEW p \in Procs, CancelWrite(p) PROVE KeyStep(i)
  <2>1. \/ job'[i] = job[i] \/ job'[i] = CancelledRow(job[i])
        \/ job'[i] = [job[i] EXCEPT !.cancel = TRUE]
    <3>1. CASE cancel[p].step = "queued" BY <1>3, <3>1 DEF CancelWrite, TypeOK
    <3>2. CASE cancel[p].step # "queued" BY <1>3, <3>2 DEF CancelWrite, TypeOK
    <3> QED BY <3>1, <3>2
  <2>2. LET r == [job[i] EXCEPT !.cancel = TRUE]
        IN  r.status = job[i].status /\ r.key = job[i].key
    BY <1>0 DEF Row
  <2> QED BY <1>0, <2>1, <2>2, CancelledFields DEF KeyStep
<1>4. ASSUME NEW p \in Procs, PollClaim(p) PROVE KeyStep(i)
  <2>1. job'[i] = job[i] \/ (Claimable(i) /\ job'[i] = Claimed(job[i], p))
    BY <1>4 DEF PollClaim, TypeOK
  <2> QED BY <1>0, <2>1, ClaimedFields DEF KeyStep, Claimable
<1>5. ASSUME NEW p \in Procs, NEW j \in Jobs, NEW r \in Requests, Enqueue(p, j, r)
      PROVE  KeyStep(i)
  <2>1. /\ i # j => job'[i] = job[i]
        /\ i = j => job'[i] = QueuedRow(r) /\ \A k \in Jobs \ {i} : job'[k] = job[k]
    BY <1>5 DEF Enqueue, TypeOK
  <2> QED BY <1>5, <2>1, QueuedFields DEF KeyStep, Enqueue
<1>6. ASSUME NEW p \in Procs, NEW j \in Jobs, RecoverReplay(p, j) PROVE KeyStep(i)
  <2>1. CASE UNCHANGED job BY <1>1, <2>1
  <2>2. CASE job' = [job EXCEPT ![j] = Released(@, "queued")] /\ ~KeyTaken(job[j].key, j)
    <3>1. /\ i # j => job'[i] = job[i]
          /\ i = j => job'[i] = Released(job[i], "queued")
                      /\ \A k \in Jobs \ {i} : job'[k] = job[k]
      BY <2>2 DEF TypeOK
    <3> QED BY <1>0, <2>2, <3>1, ReleasedFields DEF KeyStep
  <2> QED BY <1>6, <2>1, <2>2 DEF RecoverReplay
<1>7. ASSUME NEW p \in Procs, NEW j \in Jobs, RecoverReview(p, j) PROVE KeyStep(i)
  <2>1. job'[i] = job[i] \/ job'[i] = Released(job[i], "unknown")
    BY <1>7 DEF RecoverReview, TypeOK
  <2> QED BY <1>0, <2>1, ReleasedFields DEF KeyStep
<1>8. ASSUME NEW p \in Procs, NEW j \in Jobs, NEW g \in Lanes, Heartbeat(p, j, g)
      PROVE  KeyStep(i)
  <2>1. job'[i] = job[i] \/ job'[i] = [job[i] EXCEPT !.left = JobLease]
    BY <1>8 DEF Heartbeat, TypeOK
  <2>2. LET r == [job[i] EXCEPT !.left = JobLease]
        IN  r.status = job[i].status /\ r.key = job[i].key
    BY <1>0 DEF Row
  <2> QED BY <2>1, <2>2 DEF KeyStep
<1>9. ASSUME NEW p \in Procs, NEW j \in Jobs, NEW g \in Lanes, WriteOutcome(p, j, g)
      PROVE  KeyStep(i)
  <2> DEFINE s == exec[p][j][g]
  <2>1. /\ i # j => job'[i] = job[i]
        /\ i = j => job'[i] = Settled(job[i], s) /\ \A k \in Jobs \ {i} : job'[k] = job[k]
    BY <1>9 DEF WriteOutcome, TypeOK
  <2>2. s \in Outcomes /\ (s = "queued" => ~KeyTaken(job[j].key, j))
    BY <1>9 DEF WriteOutcome
  <2> HIDE DEF s
  <2>3. s \in Status BY <2>2
  <2>4. i = j => job'[i].status = s /\ job'[i].key = job[i].key
    BY <1>0, <2>1, <2>3, SettledFields
  <2> QED BY <2>1, <2>2, <2>4 DEF KeyStep
<1> QED
  BY <1>1, <1>2, <1>3, <1>4, <1>5, <1>6, <1>7, <1>8, <1>9, JobWriters

LEMMA UniqueStep == TypeOK /\ UniqueKeys /\ [Next]_vars => UniqueKeys'
<1> SUFFICES ASSUME TypeOK, UniqueKeys, [Next]_vars, NEW i \in Jobs, NEW j \in Jobs,
                    job'[i].status \in Active, job'[j].status \in Active,
                    job'[i].key = job'[j].key, job'[i].key # NoKey, i # j
             PROVE  FALSE
  BY DEF UniqueKeys
<1>1. KeyStep(i) /\ KeyStep(j) BY KeySteps
<1>2. CASE ~KeyTaken(job'[i].key, i) /\ \A k \in Jobs \ {i} : job'[k] = job[k]
  BY <1>2 DEF KeyTaken
<1>3. CASE ~KeyTaken(job'[j].key, j) /\ \A k \in Jobs \ {j} : job'[k] = job[k]
  BY <1>3 DEF KeyTaken
<1> QED BY <1>1, <1>2, <1>3 DEF KeyStep, UniqueKeys

----------------------------------------------------------------------------
(* One process on a machine: the inductive invariant *)

\* Updating one lane changes that lane.
LEMMA OneLane ==
  ASSUME TypeOK, NEW p \in Procs, NEW j \in Jobs, NEW g \in Lanes, NEW s,
         exec' = [exec EXCEPT ![p][j][g] = s]
  PROVE  /\ exec'[p][j][g] = s
         /\ \A h \in Lanes : h # g => exec'[p][j][h] = exec[p][j][h]
         /\ \A i \in Jobs : i # j => exec'[p][i] = exec[p][i]
BY DEF TypeOK

\* Steps that neither write a status nor move an execution.
LEMMA SoleStatic ==
  ASSUME SoleInv, LifeInv', exec' = exec, budget'.cancels = budget.cancels,
         \A i \in Jobs : job'[i].status = job[i].status /\ job'[i].type = job[i].type,
         \A q \in Procs : /\ boot'[q].todo \subseteq boot[q].todo
                          /\ cancel'[q] = cancel[q] \/ cancel'[q] = NoCancel
  PROVE  SoleInv'
<1>1. SoleExecution' BY DEF SoleInv, SoleExecution, Idle
<1>2. CancelSeesLife' BY DEF SoleInv, CancelSeesLife, Idle, NoCancel
<1>3. EndsInv' BY DEF SoleInv, EndsInv, ManualReview
<1>4. WorkIsRunning' BY DEF SoleInv, WorkIsRunning, NoCancels, Working
<1> QED BY <1>1, <1>2, <1>3, <1>4 DEF SoleInv

\* The life cycle part of the invariant when no process changes its mode.
LEMMA LifeStatic ==
  ASSUME LifeInv, UNCHANGED <<mode, boot, exec>>,
         \A q \in Procs : cancel'[q] = cancel[q] \/ cancel'[q] = NoCancel
  PROVE  LifeInv'
BY DEF LifeInv, Idle

\* When the only process dies, everything volatile is gone.
LEMMA SoleDie ==
  ASSUME OneProcess, TypeOK, SoleInv, NEW p \in Procs, Die(p), job' = job,
         budget'.cancels = budget.cancels
  PROVE  SoleInv'
<1>1. \A q \in Procs : /\ mode'[q] = "down" /\ boot'[q] = IdleBoot /\ cancel'[q] = NoCancel
                       /\ \A j \in Jobs, g \in Lanes : exec'[q][j][g] = "none"
  <2>1. /\ mode'[p] = "down" /\ boot'[p] = IdleBoot /\ cancel'[p] = NoCancel
        /\ \A j \in Jobs, g \in Lanes : exec'[p][j][g] = "none"
    BY DEF Die, TypeOK
  <2> QED BY <2>1 DEF OneProcess
<1>2. LifeInv' BY <1>1 DEF LifeInv, Idle
<1>3. SoleExecution' BY <1>1 DEF SoleExecution, Idle, IdleBoot
<1>4. CancelSeesLife' BY <1>1 DEF CancelSeesLife, NoCancel
<1>5. EndsInv' BY <1>1 DEF SoleInv, EndsInv, ManualReview
<1>6. WorkIsRunning' BY <1>1 DEF SoleInv, WorkIsRunning, NoCancels, Working
<1> QED BY <1>2, <1>3, <1>4, <1>5, <1>6 DEF SoleInv

\* The process starts: what it lists has no execution, its own or another's.
LEMMA SoleBoot ==
  ASSUME OneProcess, TypeOK, SoleInv, NEW p \in Procs, Boot(p)
  PROVE  SoleInv'
<1> DEFINE T == {j \in Jobs : JobExpired(j)}
<1>0. /\ mode[p] = "down" /\ UNCHANGED <<job, exec, cancel, budget>>
      /\ boot' = [boot EXCEPT ![p].todo = T]
      /\ mode' = [mode EXCEPT ![p] = "booting"] \/ mode' = [mode EXCEPT ![p] = "exiting"]
  BY DEF Boot, execVars
<1>1. boot'[p].todo = T /\ mode'[p] \in {"booting", "exiting"}
  <2>1. boot[p] \in BootState BY DEF TypeOK
  <2>2. boot'[p] = [boot[p] EXCEPT !.todo = T] BY <1>0 DEF TypeOK
  <2> QED BY <1>0, <2>1, <2>2 DEF TypeOK, BootState
<1>2. cancel[p] = NoCancel /\ \A j \in Jobs : Idle(p, j)
  BY <1>0 DEF SoleInv, LifeInv
<1> HIDE DEF T
<1>3. \A q \in Procs : q = p BY DEF OneProcess
<1>4. LifeInv' BY <1>0, <1>1, <1>2, <1>3 DEF LifeInv, Idle
<1>5. SoleExecution'
  BY <1>0, <1>1, <1>2, <1>3 DEF SoleInv, SoleExecution, Idle, T, JobExpired
<1>6. CancelSeesLife' BY <1>0 DEF SoleInv, CancelSeesLife, Idle
<1>7. EndsInv' BY <1>0 DEF SoleInv, EndsInv, ManualReview
<1>8. WorkIsRunning' BY <1>0 DEF SoleInv, WorkIsRunning, NoCancels, Working
<1> QED BY <1>4, <1>5, <1>6, <1>7, <1>8 DEF SoleInv

\* The process recovers one orphan.
LEMMA SoleRecover ==
  ASSUME OneProcess, TypeOK, SoleInv, NEW p \in Procs, NEW j \in Jobs, NEW s \in Status,
         mode[p] \in {"booting", "exiting"}, j \in boot[p].todo,
         s \in {"queued", "unknown"}, s = "unknown" => ManualReview(j),
         job' = [job EXCEPT ![j] = Released(job[j], s)],
         boot'[p].todo = boot[p].todo \ {j},
         UNCHANGED <<mode, exec, cancel, budget>>
  PROVE  SoleInv'
<1>0. \A q \in Procs : q = p BY DEF OneProcess
<1>1. /\ job'[j].status = s /\ job'[j].type = job[j].type
      /\ \A i \in Jobs : i # j => job'[i] = job[i]
  <2>1. job'[j] = Released(job[j], s) BY DEF TypeOK
  <2> QED BY <2>1, ReleasedFields DEF TypeOK
<1>2. Idle(p, j) /\ cancel[p] = NoCancel /\ boot[p].todo # {}
  BY DEF SoleInv, SoleExecution, LifeInv
<1>3. LifeInv' BY <1>0 DEF SoleInv, LifeInv, Idle
<1>4. SoleExecution'
  <2>1. ASSUME NEW i \in Jobs
        PROVE  /\ job'[i].status = "queued" => Idle(p, i)'
               /\ i \in boot'[p].todo => job'[i].status = "running" /\ Idle(p, i)'
    BY <1>1, <1>2 DEF SoleInv, SoleExecution, Idle
  <2> QED BY <1>0, <2>1 DEF SoleInv, SoleExecution
<1>5. CancelSeesLife' BY <1>0, <1>2 DEF CancelSeesLife, NoCancel
<1>6. EndsInv'
  <2>1. ASSUME NEW i \in Jobs, i # j PROVE job'[i] = job[i] BY <1>1, <2>1
  <2>2. \A g \in Lanes : exec'[p][j][g] = "none" BY <1>2 DEF Idle
  <2> QED BY <1>0, <1>1, <2>1, <2>2 DEF SoleInv, EndsInv, ManualReview
<1>7. WorkIsRunning'
  <2>1. ~Working(p, j) BY <1>2 DEF Working, Idle
  <2> QED BY <1>0, <1>1, <2>1 DEF SoleInv, WorkIsRunning, NoCancels, Working
<1> QED BY <1>3, <1>4, <1>5, <1>6, <1>7 DEF SoleInv

\* A producer inserts a row that nothing refers to yet.
LEMMA SoleEnqueue ==
  ASSUME OneProcess, OnceInv, SoleInv, NEW p \in Procs, NEW j \in Jobs, NEW r \in Requests,
         Enqueue(p, j, r)
  PROVE  SoleInv'
<1>0. TypeOK /\ \A q \in Procs : q = p BY DEF OneProcess, OnceInv
<1>1. /\ UNCHANGED <<mode, boot, exec, cancel, budget>>
      /\ job'[j].status = "queued" /\ \A i \in Jobs : i # j => job'[i] = job[i]
  <2>1. job'[j] = QueuedRow(r) /\ \A i \in Jobs : i # j => job'[i] = job[i]
    BY <1>0 DEF Enqueue, TypeOK
  <2> QED BY <2>1, QueuedFields DEF Enqueue, procVars
<1>2. (\A g \in Lanes : exec[p][j][g] = "none") /\ j \notin boot[p].todo
  BY DEF OnceInv, AbsentIdle, Enqueue
<1>3. LifeInv' BY <1>1 DEF SoleInv, LifeInv, Idle
<1>4. SoleExecution' BY <1>0, <1>1, <1>2 DEF SoleInv, SoleExecution, Idle
<1>5. CancelSeesLife' BY <1>0, <1>1, <1>2 DEF SoleInv, CancelSeesLife, Idle
<1>6. EndsInv' BY <1>0, <1>1, <1>2 DEF SoleInv, EndsInv, ManualReview
<1>7. WorkIsRunning'
  <2>1. ~Working(p, j) BY <1>2 DEF Working
  <2> QED BY <1>0, <1>1, <2>1 DEF SoleInv, WorkIsRunning, NoCancels, Working
<1> QED BY <1>3, <1>4, <1>5, <1>6, <1>7 DEF SoleInv

\* A cancel reads its row.
LEMMA SoleCancelRead ==
  ASSUME OneProcess, TypeOK, SoleInv, NEW p \in Procs, NEW j \in Jobs, CancelRead(p, j)
  PROVE  SoleInv'
<1>0. \A q \in Procs : q = p BY DEF OneProcess
<1>1. UNCHANGED <<job, mode, boot, exec>> /\ mode[p] = "up"
  BY DEF CancelRead, dbVars, execVars
<1>2. /\ cancel'[p].job = j
      /\ cancel'[p].step = "queued" => job[j].status = "queued"
  BY DEF CancelRead, TypeOK
<1>3. budget'.cancels = budget.cancels - 1 /\ budget.cancels \in Nat /\ MaxCancels \in Nat
  BY JobRunnerAssumption DEF CancelRead, TypeOK, Budget
<1>4. LifeInv' BY <1>0, <1>1 DEF SoleInv, LifeInv, Idle
<1>5. SoleExecution' BY <1>1 DEF SoleInv, SoleExecution, Idle
<1>6. CancelSeesLife' BY <1>0, <1>1, <1>2 DEF CancelSeesLife
<1>7. EndsInv' BY <1>1 DEF SoleInv, EndsInv, ManualReview
<1>8. WorkIsRunning' BY <1>3 DEF SoleInv, WorkIsRunning, NoCancels
<1> QED BY <1>4, <1>5, <1>6, <1>7, <1>8 DEF SoleInv

\* A cancel writes: the flag, or the end of a row it had read as queued.
LEMMA SoleCancelWrite ==
  ASSUME OneProcess, TypeOK, SoleInv, NEW p \in Procs, CancelWrite(p)
  PROVE  SoleInv'
<1>0. \A q \in Procs : q = p BY DEF OneProcess
<1>1. UNCHANGED <<mode, boot, exec, budget>> /\ mode[p] = "up" /\ boot[p] = IdleBoot
  BY DEF CancelWrite, execVars, SoleInv, LifeInv
<1>2. CASE cancel[p].step = "other"
  <2>1. cancel'[p] = NoCancel /\ job' = [job EXCEPT ![cancel[p].job].cancel = TRUE]
    BY <1>2 DEF CancelWrite, TypeOK
  <2>2. ASSUME NEW i \in Jobs
        PROVE  job'[i].status = job[i].status /\ job'[i].type = job[i].type
    <3>1. job'[i] = job[i] \/ job'[i] = [job[i] EXCEPT !.cancel = TRUE]
      BY <2>1 DEF TypeOK
    <3> QED BY <3>1 DEF TypeOK, Row
  <2>3. LifeInv' BY <1>0, <1>1, <2>1, LifeStatic DEF SoleInv
  <2> QED BY <1>0, <1>1, <2>1, <2>2, <2>3, SoleStatic
<1>3. CASE cancel[p].step = "queued"
  <2> DEFINE j == cancel[p].job
  <2>1. cancel'[p].step = "callback"
    <3>1. cancel[p] \in CancelState BY DEF TypeOK
    <3>2. cancel'[p] = [cancel[p] EXCEPT !.step = "callback"]
      BY <1>3 DEF CancelWrite, TypeOK
    <3> QED BY <3>1, <3>2 DEF CancelState
  <2>2. ASSUME NEW i \in Jobs
        PROVE  /\ job'[i].type = job[i].type
               /\ job'[i] = job[i] \/ job'[i].status = "cancelled"
    <3>1. job'[i] = job[i] \/ job'[i] = CancelledRow(job[i])
      BY <1>3 DEF CancelWrite, TypeOK
    <3> QED BY <3>1, CancelledFields DEF TypeOK
  <2>3. boot[p].todo = {} BY <1>1 DEF IdleBoot
  <2>4. cancel[p] # NoCancel BY <1>3 DEF NoCancel
  <2>5. LifeInv' BY <1>0, <1>1 DEF SoleInv, LifeInv, Idle
  <2>6. SoleExecution' BY <1>0, <1>1, <2>2, <2>3 DEF SoleInv, SoleExecution, Idle
  <2>7. CancelSeesLife' BY <1>0, <2>1 DEF CancelSeesLife
  <2>8. EndsInv' BY <1>0, <1>1, <2>2 DEF SoleInv, EndsInv, ManualReview
  <2>9. WorkIsRunning' BY <1>0, <1>1, <2>4 DEF SoleInv, WorkIsRunning, NoCancels
  <2> QED BY <2>5, <2>6, <2>7, <2>8, <2>9 DEF SoleInv
<1> QED BY <1>2, <1>3 DEF CancelWrite

\* A claim that hits starts the only execution of its row.
LEMMA SoleClaim ==
  ASSUME OneProcess, TypeOK, SoleInv, NEW p \in Procs, PollClaim(p), Claimable(poll[p].pick)
  PROVE  SoleInv'
<1> DEFINE j == poll[p].pick
<1>0. \A q \in Procs : q = p BY DEF OneProcess
<1>1. j \in Jobs BY DEF PollClaim, TypeOK, PollState
<1>2. /\ UNCHANGED <<mode, boot, cancel, budget>> /\ mode[p] \in {"booting", "up"}
      /\ job' = [job EXCEPT ![j] = Claimed(job[j], p)]
  BY DEF PollClaim, Awake
<1>3. PICK g \in Lanes : exec' = [exec EXCEPT ![p][j][g] = "claimed"]
  BY DEF PollClaim
<1>4. job[j].status = "queued" BY DEF Claimable
<1> HIDE DEF j
<1>5. /\ job'[j].status = "running" /\ job'[j].type = job[j].type
      /\ \A i \in Jobs : i # j => job'[i] = job[i]
  <2>1. job'[j] = Claimed(job[j], p) BY <1>1, <1>2 DEF TypeOK
  <2> QED BY <1>1, <1>2, <2>1, ClaimedFields DEF TypeOK
<1>6. /\ exec'[p][j][g] = "claimed"
      /\ \A h \in Lanes : h # g => exec'[p][j][h] = exec[p][j][h]
      /\ \A i \in Jobs : i # j => exec'[p][i] = exec[p][i]
  BY <1>1, <1>3, OneLane
<1>7. Idle(p, j) BY <1>1, <1>4 DEF SoleInv, SoleExecution
<1>8. \A h \in Lanes : h # g => exec'[p][j][h] = "none" BY <1>6, <1>7 DEF Idle
<1>9. LifeInv' BY <1>0, <1>2 DEF SoleInv, LifeInv
<1>10. SoleExecution'
  <2>1. j \notin boot[p].todo BY <1>1, <1>4 DEF SoleInv, SoleExecution
  <2> QED BY <1>0, <1>2, <1>5, <1>6, <1>8, <2>1 DEF SoleInv, SoleExecution, Idle
<1>11. CancelSeesLife' BY <1>0, <1>2, <1>5, <1>6 DEF SoleInv, CancelSeesLife, Idle
<1>12. EndsInv' BY <1>0, <1>5, <1>6, <1>8 DEF SoleInv, EndsInv, ManualReview
<1>13. WorkIsRunning'
  BY <1>0, <1>2, <1>5, <1>6 DEF SoleInv, WorkIsRunning, NoCancels, Working
<1> QED BY <1>9, <1>10, <1>11, <1>12, <1>13 DEF SoleInv

\* The handler moves an execution on before its last write.
LEMMA SoleAdvance ==
  ASSUME OneProcess, TypeOK, SoleInv, NEW p \in Procs, NEW j \in Jobs, NEW g \in Lanes, NEW s,
         exec[p][j][g] \in {"claimed", "run"}, Advance(p, j, g, s), Awake(p),
         s \notin {"none", "mark", "callback"}, s = "unknown" => ManualReview(j),
         UNCHANGED <<job, mode, boot, cancel, budget>>
  PROVE  SoleInv'
<1>0. \A q \in Procs : q = p BY DEF OneProcess
<1>1. /\ exec'[p][j][g] = s
      /\ \A h \in Lanes : h # g => exec'[p][j][h] = exec[p][j][h]
      /\ \A i \in Jobs : i # j => exec'[p][i] = exec[p][i]
  BY OneLane DEF Advance
<1>2. \A h \in Lanes : h # g => exec[p][j][h] = "none" BY DEF SoleInv, SoleExecution
<1>3. ~Idle(p, j) /\ Working(p, j) BY DEF Idle, Working
<1>4. job[j].status # "queued" /\ j \notin boot[p].todo BY <1>3 DEF SoleInv, SoleExecution
<1>5. LifeInv' BY <1>0 DEF SoleInv, LifeInv, Awake
<1>6. SoleExecution' BY <1>0, <1>1, <1>2, <1>4 DEF SoleInv, SoleExecution, Idle
<1>7. CancelSeesLife' BY <1>0, <1>1 DEF SoleInv, CancelSeesLife, Idle
<1>8. EndsInv' BY <1>0, <1>1, <1>2 DEF SoleInv, EndsInv, ManualReview
<1>9. WorkIsRunning' BY <1>0, <1>1, <1>3 DEF SoleInv, WorkIsRunning, NoCancels, Working
<1> QED BY <1>5, <1>6, <1>7, <1>8, <1>9 DEF SoleInv

\* An execution ends after its last write.
LEMMA SoleFinish ==
  ASSUME OneProcess, TypeOK, SoleInv, NEW p \in Procs, NEW j \in Jobs, NEW g \in Lanes,
         exec[p][j][g] \in {"mark", "callback"}, Finish(p, j, g), Awake(p),
         UNCHANGED <<job, mode, boot, cancel, budget>>
  PROVE  SoleInv'
<1>0. \A q \in Procs : q = p BY DEF OneProcess
<1>1. /\ exec'[p][j][g] = "none"
      /\ \A h \in Lanes : h # g => exec'[p][j][h] = exec[p][j][h]
      /\ \A i \in Jobs : i # j => exec'[p][i] = exec[p][i]
  BY OneLane DEF Finish
<1>2. job[j].status # "running" /\ ~Idle(p, j) BY DEF SoleInv, EndsInv, Idle
<1>3. job[j].status # "queued" /\ j \notin boot[p].todo BY <1>2 DEF SoleInv, SoleExecution
<1>4. LifeInv' BY <1>0 DEF SoleInv, LifeInv, Awake
<1>5. SoleExecution' BY <1>0, <1>1, <1>3 DEF SoleInv, SoleExecution, Idle
<1>6. CancelSeesLife' BY <1>0, <1>1, <1>2 DEF SoleInv, CancelSeesLife, Idle
<1>7. EndsInv' BY <1>0, <1>1 DEF SoleInv, EndsInv, ManualReview
<1>8. WorkIsRunning' BY <1>0, <1>1 DEF SoleInv, WorkIsRunning, NoCancels, Working
<1> QED BY <1>4, <1>5, <1>6, <1>7, <1>8 DEF SoleInv

\* The last write of an attempt.
LEMMA SoleWrite ==
  ASSUME OneProcess, OnceInv, SoleInv, NEW p \in Procs, NEW j \in Jobs, NEW g \in Lanes,
         WriteOutcome(p, j, g)
  PROVE  SoleInv'
<1> DEFINE s == exec[p][j][g]
<1>0. TypeOK /\ \A q \in Procs : q = p BY DEF OneProcess, OnceInv
<1>1. /\ UNCHANGED <<mode, boot, cancel, budget>> /\ Awake(p) /\ s \in Outcomes
      /\ job' = [job EXCEPT ![j] = Settled(job[j], s)]
      /\ exec' = [exec EXCEPT ![p][j][g] = AfterOutcome(s)]
  BY DEF WriteOutcome, Finish, Advance
<1>2. \A h \in Lanes : h # g => exec[p][j][h] = "none"
  BY <1>1 DEF SoleInv, SoleExecution
<1>3. ~Idle(p, j) BY <1>1 DEF Idle
<1>4. j \notin boot[p].todo BY <1>3 DEF SoleInv, SoleExecution
<1>5. s = "unknown" => ManualReview(j) BY DEF SoleInv, EndsInv
<1> HIDE DEF s
<1>6. /\ job'[j].status = s /\ job'[j].type = job[j].type
      /\ \A i \in Jobs : i # j => job'[i] = job[i]
  <2>1. job'[j] = Settled(job[j], s) /\ s \in Status BY <1>0, <1>1 DEF TypeOK
  <2> QED BY <1>0, <1>1, <2>1, SettledFields DEF TypeOK
<1>7. /\ exec'[p][j][g] = AfterOutcome(s)
      /\ \A h \in Lanes : h # g => exec'[p][j][h] = "none"
      /\ \A i \in Jobs : i # j => exec'[p][i] = exec[p][i]
  <2> DEFINE n == AfterOutcome(s)
  <2>1. exec' = [exec EXCEPT ![p][j][g] = n] BY <1>1
  <2> HIDE DEF n
  <2>2. /\ exec'[p][j][g] = n
        /\ \A h \in Lanes : h # g => exec'[p][j][h] = exec[p][j][h]
        /\ \A i \in Jobs : i # j => exec'[p][i] = exec[p][i]
    BY <1>0, <2>1, OneLane
  <2> QED BY <1>2, <2>2 DEF n
<1>8. /\ AfterOutcome(s) = "mark" => s = "unknown"
      /\ AfterOutcome(s) = "callback" => s \in {"failed", "dead_letter"}
      /\ s = "queued" => AfterOutcome(s) = "none"
      /\ AfterOutcome(s) \in {"none", "mark", "callback"}
  BY DEF AfterOutcome
<1>9. LifeInv' BY <1>0, <1>1 DEF SoleInv, LifeInv, Awake
<1>10. SoleExecution'
  BY <1>0, <1>1, <1>4, <1>6, <1>7, <1>8 DEF SoleInv, SoleExecution, Idle
<1>11. CancelSeesLife' BY <1>0, <1>1, <1>6, <1>7 DEF SoleInv, CancelSeesLife, Idle
<1>12. EndsInv' BY <1>0, <1>5, <1>6, <1>7, <1>8 DEF SoleInv, EndsInv, ManualReview
<1>13. WorkIsRunning'
  BY <1>0, <1>1, <1>6, <1>7, <1>8 DEF SoleInv, WorkIsRunning, NoCancels, Working
<1> QED BY <1>9, <1>10, <1>11, <1>12, <1>13 DEF SoleInv

LEMMA SoleInit == Init => SoleInv
<1> SUFFICES ASSUME Init PROVE SoleInv
  OBVIOUS
<1>1. \A j \in Jobs : job[j].status = "absent" BY DEF Init, BlankRow
<1>2. \A p \in Procs : /\ mode[p] = "down" /\ boot[p] = IdleBoot /\ cancel[p] = NoCancel
                       /\ \A j \in Jobs, g \in Lanes : exec[p][j][g] = "none"
  BY DEF Init
<1>3. budget.cancels = MaxCancels /\ MaxCancels \in Nat BY JobRunnerAssumption DEF Init
<1>4. LifeInv BY <1>2 DEF LifeInv, Idle
<1>5. SoleExecution BY <1>1, <1>2 DEF SoleExecution, IdleBoot
<1>6. CancelSeesLife BY <1>2 DEF CancelSeesLife, NoCancel
<1>7. EndsInv BY <1>1, <1>2 DEF EndsInv
<1>8. WorkIsRunning BY <1>2, <1>3 DEF WorkIsRunning, Working
<1> QED BY <1>4, <1>5, <1>6, <1>7, <1>8 DEF SoleInv

\* The steps of the life cycle.
LEMMA SoleLife ==
  ASSUME OneProcess, OnceInv, SoleInv, NEW p \in Procs,
         Bootstrap(p) \/ Environment(p) \/ Wake(p) \/ RenewLease(p)
  PROVE  SoleInv'
<1>0. TypeOK /\ LifeInv BY DEF OnceInv, SoleInv
<1>1. CASE Boot(p) BY <1>0, <1>1, SoleBoot
<1>2. ASSUME Die(p), job' = job, budget'.cancels = budget.cancels PROVE SoleInv'
  BY <1>0, <1>2, SoleDie
<1>3. CASE BootFails(p) BY <1>2, <1>3 DEF BootFails, dbVars
<1>4. CASE Crash(p) \/ Stop(p)
  <2>1. budget'.cancels = budget.cancels BY <1>0, <1>4 DEF Crash, Stop, TypeOK, Budget
  <2> QED BY <1>2, <1>4, <2>1 DEF Crash, Stop, dbVars
<1>5. CASE BootDone(p) \/ Stall(p) \/ Wake(p)
  <2>1. /\ UNCHANGED <<job, exec, boot, cancel>> /\ budget'.cancels = budget.cancels
        /\ boot[p] = IdleBoot
    BY <1>0, <1>5 DEF BootDone, Stall, Wake, dbVars, execVars, TypeOK, Budget, LifeInv
  <2>2. /\ \A q \in Procs : q # p => mode'[q] = mode[q]
        /\ mode'[p] \in {"up", "stalled"}
    BY <1>0, <1>5 DEF BootDone, Stall, Wake, TypeOK
  <2>3. LifeInv' BY <1>0, <2>1, <2>2 DEF LifeInv, Idle
  <2> QED BY <2>1, <2>3, SoleStatic
<1>6. CASE RecoverMark(p)
  <2>1. UNCHANGED <<job, mode, exec, cancel, budget>> BY <1>6 DEF RecoverMark, execVars
  <2>2. \A q \in Procs : /\ q # p => boot'[q] = boot[q]
                         /\ boot'[q].todo = boot[q].todo
    BY <1>0, <1>6 DEF RecoverMark, TypeOK, BootState
  <2>3. mode[p] \in {"booting", "exiting"} BY <1>6 DEF RecoverMark
  <2>4. LifeInv' BY <1>0, <2>1, <2>2, <2>3 DEF LifeInv, Idle
  <2> QED BY <2>1, <2>2, <2>4, SoleStatic
<1>7. ASSUME NEW j \in Jobs, RecoverReplay(p, j) PROVE SoleInv'
  <2>1. CASE Die(p) /\ job' = job BY <1>2, <1>7, <2>1 DEF RecoverReplay
  <2>2. CASE ~(Die(p) /\ job' = job)
    <3>1. /\ job' = [job EXCEPT ![j] = Released(job[j], "queued")]
          /\ boot' = [boot EXCEPT ![p].todo = @ \ {j}]
          /\ UNCHANGED <<mode, exec, cancel, budget>>
          /\ mode[p] \in {"booting", "exiting"} /\ j \in boot[p].todo
      BY <1>7, <2>2 DEF RecoverReplay, execVars
    <3>2. boot'[p].todo = boot[p].todo \ {j} BY <1>0, <3>1 DEF TypeOK, BootState
    <3>3. "queued" \in Status /\ "queued" # "unknown" OBVIOUS
    <3> QED BY <1>0, <3>1, <3>2, <3>3, SoleRecover
  <2> QED BY <2>1, <2>2
<1>8. ASSUME NEW j \in Jobs, RecoverReview(p, j) PROVE SoleInv'
  <2>1. /\ job' = [job EXCEPT ![j] = Released(job[j], "unknown")]
        /\ boot' = [boot EXCEPT ![p] = [todo |-> boot[p].todo \ {j}, mark |-> j]]
        /\ UNCHANGED <<mode, exec, cancel, budget>> /\ ManualReview(j)
        /\ mode[p] \in {"booting", "exiting"} /\ j \in boot[p].todo
    BY <1>8 DEF RecoverReview, execVars
  <2>2. boot'[p].todo = boot[p].todo \ {j} BY <1>0, <2>1 DEF TypeOK
  <2>3. "unknown" \in Status OBVIOUS
  <2> QED BY <1>0, <2>1, <2>2, <2>3, SoleRecover
<1>9. CASE RenewLease(p)
  <2>1. UNCHANGED <<job, mode, boot, exec, cancel, budget>> BY <1>9 DEF RenewLease, execVars
  <2> QED BY <1>0, <2>1, LifeStatic, SoleStatic
<1> QED
  BY <1>1, <1>3, <1>4, <1>5, <1>6, <1>7, <1>8, <1>9 DEF Bootstrap, Environment

\* The steps of executions.
LEMMA SoleWork ==
  ASSUME OneProcess, OnceInv, SoleInv, NEW p \in Procs, NEW j \in Jobs, NEW g \in Lanes,
         Heartbeat(p, j, g) \/ Execution(p, j, g)
  PROVE  SoleInv'
<1>0. TypeOK /\ LifeInv BY DEF OnceInv, SoleInv
<1>1. CASE Heartbeat(p, j, g)
  <2>1. UNCHANGED <<mode, boot, exec, cancel, budget>>
    BY <1>1 DEF Heartbeat, procVars
  <2>2. ASSUME NEW i \in Jobs
        PROVE  job'[i].status = job[i].status /\ job'[i].type = job[i].type
    <3>1. job'[i] = job[i] \/ job'[i] = [job[i] EXCEPT !.left = JobLease]
      BY <1>0, <1>1 DEF Heartbeat, TypeOK
    <3> QED BY <1>0, <3>1 DEF TypeOK, Row
  <2> QED BY <1>0, <2>1, <2>2, LifeStatic, SoleStatic
<1>2. CASE HandlerStarts(p, j, g)
  BY <1>0, <1>2, SoleAdvance DEF HandlerStarts
<1>3. CASE HandlerReturns(p, j, g)
  BY <1>0, <1>3, SoleAdvance DEF HandlerReturns
<1>4. ASSUME NEW r \in BOOLEAN, HandlerThrows(p, j, g, r) PROVE SoleInv'
  <2> DEFINE s == FailureStatus(j, r)
  <2>1. s \notin {"none", "mark", "callback"} /\ (s = "unknown" => ManualReview(j))
    BY DEF FailureStatus
  <2>2. /\ exec[p][j][g] \in {"claimed", "run"} /\ Awake(p) /\ Advance(p, j, g, s)
        /\ UNCHANGED <<job, mode, boot, cancel, budget>>
    BY <1>4 DEF HandlerThrows
  <2> HIDE DEF s
  <2> QED BY <1>0, <2>1, <2>2, SoleAdvance
<1>5. CASE WriteOutcome(p, j, g) BY <1>5, SoleWrite
<1>6. CASE RequeueRejected(p, j, g) BY <1>0, <1>6, SoleDie DEF RequeueRejected, dbVars
<1>7. CASE MarkTarget(p, j, g) BY <1>0, <1>7, SoleFinish DEF MarkTarget
<1>8. CASE TerminalFailure(p, j, g) BY <1>0, <1>8, SoleFinish DEF TerminalFailure
<1> QED BY <1>1, <1>2, <1>3, <1>4, <1>5, <1>6, <1>7, <1>8 DEF Execution

LEMMA SoleStep ==
  ASSUME OneProcess, OnceInv, SoleInv, [Next]_vars
  PROVE  SoleInv'
<1>0. TypeOK /\ LifeInv BY DEF OnceInv, SoleInv
<1>1. CASE Tick
  <2>1. UNCHANGED <<mode, boot, exec, cancel, budget>> BY <1>1 DEF Tick, procVars
  <2>2. \A i \in Jobs : job'[i].status = job[i].status /\ job'[i].type = job[i].type
    BY <1>0, <1>1, ElapsedFields DEF Tick, TypeOK
  <2> QED BY <1>0, <2>1, <2>2, LifeStatic, SoleStatic
<1>2. ASSUME UNCHANGED <<job, mode, boot, exec, cancel, budget>> PROVE SoleInv'
  BY <1>0, <1>2, LifeStatic, SoleStatic
<1>3. ASSUME NEW p \in Procs, Polling(p) PROVE SoleInv'
  <2>1. CASE PollClaim(p) /\ Claimable(poll[p].pick) BY <1>0, <2>1, SoleClaim
  <2>2. CASE ~(PollClaim(p) /\ Claimable(poll[p].pick))
    BY <1>2, <1>3, <2>2 DEF Polling, PollStart, PollPick, PollClaim, PollEnd, dbVars, execVars
  <2> QED BY <2>1, <2>2
<1>4. ASSUME NEW p \in Procs, Requesting(p) PROVE SoleInv'
  BY <1>0, <1>4, SoleEnqueue, SoleCancelRead DEF Requesting
<1>5. ASSUME NEW p \in Procs, QueuedCancellation(p) PROVE SoleInv'
  <2>1. UNCHANGED <<job, mode, boot, exec, budget>>
    BY <1>5 DEF QueuedCancellation, execVars
  <2>2. \A q \in Procs : cancel'[q] = cancel[q] \/ cancel'[q] = NoCancel
    BY <1>0, <1>5 DEF QueuedCancellation, TypeOK
  <2> QED BY <1>0, <2>1, <2>2, LifeStatic, SoleStatic
<1>6. ASSUME NEW p \in Procs, Cancelling(p) PROVE SoleInv'
  BY <1>0, <1>5, <1>6, SoleCancelWrite DEF Cancelling
<1>7. CASE UNCHANGED vars BY <1>2, <1>7 DEF vars
<1> QED BY <1>1, <1>3, <1>4, <1>6, <1>7, SoleLife, SoleWork DEF Next

LEMMA SoleAlways == OneProcess => (Spec => [](OnceInv /\ SoleInv))
<1> SUFFICES ASSUME OneProcess PROVE Spec => [](OnceInv /\ SoleInv)
  OBVIOUS
<1>1. OnceInv /\ SoleInv /\ [Next]_vars => (OnceInv /\ SoleInv)'
  BY SoleStep, OnceStep
<1> QED BY <1>1, OnceInit, SoleInit, PTL DEF Spec

\* On a machine with one process, while nobody cancels, a business key is worked on
\* by one execution at a time: the index keeps active rows apart, and whoever works
\* on a row works on an active one (migration.sql:197-200, job-runner.service.ts:62-101).
THEOREM KeyExclusiveHolds == OneProcess => (Spec => []KeyExclusive)
<1> SUFFICES ASSUME OneProcess PROVE Spec => []KeyExclusive
  OBVIOUS
<1>1. Init => UniqueKeys
  <2>1. Init => \A j \in Jobs : job[j].status = "absent" BY DEF Init, BlankRow
  <2> QED BY <2>1 DEF UniqueKeys
<1>2. SoleInv /\ UniqueKeys => KeyExclusive
  BY DEF SoleInv, WorkIsRunning, UniqueKeys, KeyExclusive
<1> QED BY <1>1, <1>2, UniqueStep, TypeCorrect, SoleAlways, PTL DEF Spec

----------------------------------------------------------------------------
(* One process implements OneShotJob *)

OneShot(j) == job[j].status # "absent" /\ ManualReview(j)

\* What the abstract queue sees of j.
Seen(j) == /\ Phase(j)' = Phase(j)
           /\ OneShot(j)' <=> OneShot(j)
           /\ job'[j].attempts = job[j].attempts

LEMMA AbstractStutter ==
  ASSUME \A i \in Jobs : Seen(i)
  PROVE  UNCHANGED Promise!vars
BY DEF Seen, OneShot, Promise!vars

LEMMA AbstractMove ==
  ASSUME NEW j \in Jobs, NEW a, NEW b, Phase(j) = a, Phase(j)' = b,
         \A i \in Jobs : i # j => Phase(i)' = Phase(i)
  PROVE  Promise!Move(j, a, b)
BY DEF Promise!Move

LEMMA AbstractRest ==
  ASSUME \A i \in Jobs : (OneShot(i)' <=> OneShot(i)) /\ job'[i].attempts = job[i].attempts
  PROVE  UNCHANGED <<[i \in Jobs |-> job[i].status # "absent" /\ ManualReview(i)],
                     [i \in Jobs |-> job[i].attempts]>>
BY DEF OneShot

\* A step of one job that is an action of the abstract queue.
LEMMA AbstractOne ==
  ASSUME NEW j \in Jobs, \A i \in Jobs : i # j => Seen(i),
         OneShot(j)' <=> OneShot(j), job'[j].attempts = job[j].attempts,
         \/ Phase(j) = "executing" /\ Phase(j)' = "ended"
         \/ Phase(j) = "executing" /\ Phase(j)' = "doubt" /\ OneShot(j)
         \/ Phase(j) = "executing" /\ Phase(j)' = "waiting" /\ ~OneShot(j)
         \/ Phase(j) \in {"waiting", "doubt"} /\ Phase(j)' = "ended"
         \/ Phase(j) = "orphan" /\ Phase(j)' = "doubt" /\ OneShot(j)
         \/ Phase(j) = "orphan" /\ Phase(j)' = "waiting" /\ ~OneShot(j)
  PROVE  Promise!Next
<1>1. \A i \in Jobs : (OneShot(i)' <=> OneShot(i)) /\ job'[i].attempts = job[i].attempts
  BY DEF Seen
<1>2. \A i \in Jobs : i # j => Phase(i)' = Phase(i) BY DEF Seen
<1>3. Promise!Move(j, Phase(j), Phase(j)') BY <1>2, AbstractMove
<1>4. Promise!Finish(j) \/ Promise!Cancel(j) \/ Promise!Recover(j)
  BY <1>1, <1>3, AbstractRest DEF Promise!Finish, Promise!Cancel, Promise!Recover, OneShot
<1> QED BY <1>4 DEF Promise!Next

LEMMA AbstractAccept ==
  ASSUME NEW j \in Jobs, \A i \in Jobs : i # j => Seen(i),
         Phase(j) = "absent", Phase(j)' = "waiting", job'[j].attempts = job[j].attempts
  PROVE  Promise!Next
<1>1. \A i \in Jobs : i # j => Phase(i)' = Phase(i) BY DEF Seen
<1>2. Promise!Move(j, "absent", "waiting") BY <1>1, AbstractMove
<1>3. Promise!Accept(j)
  BY <1>2 DEF Promise!Accept, Seen, OneShot
<1> QED BY <1>3 DEF Promise!Next

LEMMA AbstractStart ==
  ASSUME NEW j \in Jobs, \A i \in Jobs : i # j => Seen(i),
         Phase(j) = "waiting", Phase(j)' = "executing", OneShot(j)' <=> OneShot(j),
         job'[j].attempts = job[j].attempts + 1
  PROVE  Promise!Next
<1>1. \A i \in Jobs : i # j => Phase(i)' = Phase(i) BY DEF Seen
<1>2. Promise!Move(j, "waiting", "executing") BY <1>1, AbstractMove
<1>3. Promise!Start(j)
  BY <1>2 DEF Promise!Start, Seen, OneShot
<1> QED BY <1>3 DEF Promise!Next

\* The phase a row without executions is in.
RowPhase(j) ==
  CASE job[j].status = "queued" -> "waiting"
    [] job[j].status = "running" -> "orphan"
    [] job[j].status = "unknown" -> "doubt"
    [] job[j].status = "absent" -> "absent"
    [] OTHER -> "ended"

LEMMA PhaseOf ==
  ASSUME OneProcess, NEW p \in Procs, NEW j \in Jobs
  PROVE  /\ ~Idle(p, j) => Phase(j) = "executing"
         /\ Idle(p, j) => Phase(j) = RowPhase(j)
         /\ ~Idle(p, j)' => Phase(j)' = "executing"
         /\ Idle(p, j)' => Phase(j)' = RowPhase(j)'
<1>1. Executes(j) <=> ~Idle(p, j) BY DEF OneProcess, Executes, Idle
<1>2. Executes(j)' <=> ~Idle(p, j)' BY DEF OneProcess, Executes, Idle
<1> QED BY <1>1, <1>2 DEF Phase, RowPhase

LEMMA SeenSame ==
  ASSUME OneProcess, NEW p \in Procs, NEW i \in Jobs,
         job'[i].status = job[i].status, job'[i].type = job[i].type,
         job'[i].attempts = job[i].attempts, Idle(p, i)' <=> Idle(p, i)
  PROVE  Seen(i)
<1>1. RowPhase(i)' = RowPhase(i) BY DEF RowPhase
<1>2. OneShot(i)' <=> OneShot(i) BY DEF OneShot, ManualReview
<1> QED BY <1>1, <1>2, PhaseOf DEF Seen

\* All executions of the only process end with it.
LEMMA DieAbandons ==
  ASSUME OneProcess, OnceInv, SoleInv, NEW p \in Procs, Die(p), job' = job
  PROVE  Promise!Next
<1> DEFINE S == {j \in Jobs : ~Idle(p, j)}
           left == [j \in S |-> RowPhase(j)]
<1>1. \A j \in Jobs : Idle(p, j)'
  BY DEF OnceInv, TypeOK, Die, Idle
<1>2. \A j \in Jobs : RowPhase(j)' = RowPhase(j) /\ (OneShot(j)' <=> OneShot(j))
  BY DEF RowPhase, OneShot, ManualReview
<1>3. \A j \in Jobs : Phase(j)' = RowPhase(j) BY <1>1, <1>2, PhaseOf
<1>4. ASSUME NEW j \in S
      PROVE  /\ Phase(j) = "executing"
             /\ RowPhase(j) \in {"orphan", "doubt", "ended"}
             /\ RowPhase(j) = "doubt" => OneShot(j)
  <2>1. job[j].status \notin {"queued", "absent"}
    BY DEF OnceInv, AbsentIdle, SoleInv, SoleExecution, Idle
  <2>2. job[j].status = "unknown" => ManualReview(j) BY DEF SoleInv, EndsInv
  <2> QED BY <2>1, <2>2, PhaseOf DEF RowPhase, OneShot
<1>5. \A j \in Jobs \ S : Phase(j) = RowPhase(j) BY PhaseOf
<1> HIDE DEF S
<1>6. left \in [S -> {"orphan", "doubt", "ended"}] BY <1>4
<1>7. \A j \in S : left[j] = "doubt" => OneShot(j) BY <1>4
<1>8. S \subseteq {j \in Jobs : Phase(j) = "executing"} BY <1>4 DEF S
<1>9. [j \in Jobs |-> Phase(j)'] = [j \in Jobs |-> IF j \in S THEN left[j] ELSE Phase(j)]
  BY <1>3, <1>5
<1> HIDE DEF left
<1>10. UNCHANGED <<[i \in Jobs |-> job[i].status # "absent" /\ ManualReview(i)],
                   [i \in Jobs |-> job[i].attempts]>>
  BY <1>2, AbstractRest
<1>11. Promise!Abandon
  <2>1. S \in SUBSET {j \in Jobs : [i \in Jobs |-> Phase(i)][j] = "executing"}
    BY <1>8
  <2>2. \A j \in S : left[j] = "doubt" =>
          [i \in Jobs |-> job[i].status # "absent" /\ ManualReview(i)][j]
    BY <1>7, <2>1 DEF OneShot
  <2>3. [j \in Jobs |-> Phase(j)]'
          = [j \in Jobs |-> IF j \in S THEN left[j] ELSE [i \in Jobs |-> Phase(i)][j]]
    BY <1>9
  <2>4. \E f \in [S -> {"orphan", "doubt", "ended"}] :
          /\ \A j \in S : f[j] = "doubt" =>
               [i \in Jobs |-> job[i].status # "absent" /\ ManualReview(i)][j]
          /\ [j \in Jobs |-> Phase(j)]'
               = [j \in Jobs |-> IF j \in S THEN f[j] ELSE [i \in Jobs |-> Phase(i)][j]]
    BY <1>6, <2>2, <2>3, Zenon
  <2> QED BY <1>10, <2>1, <2>4, Zenon DEF Promise!Abandon
<1> QED BY <1>11 DEF Promise!Next

\* Rows that keep what the queue is about, under executions that keep running.
LEMMA QuietSeen ==
  ASSUME OneProcess, NEW p \in Procs, \A i \in Jobs : Idle(p, i)' <=> Idle(p, i),
         \A i \in Jobs : /\ job'[i].status = job[i].status /\ job'[i].type = job[i].type
                         /\ job'[i].attempts = job[i].attempts
  PROVE  UNCHANGED Promise!vars
<1>1. \A i \in Jobs : Seen(i) BY SeenSame
<1> QED BY <1>1, AbstractStutter

LEMMA SeenQueue ==
  ASSUME OneProcess, OnceInv, SoleInv, NEW p \in Procs, NEW j \in Jobs,
         NEW r \in Requests, Enqueue(p, j, r)
  PROVE  Promise!Next
<1>0. TypeOK BY DEF OnceInv
<1>1. /\ job[j].status = "absent" /\ exec' = exec
      /\ job'[j] = QueuedRow(r) /\ \A i \in Jobs : i # j => job'[i] = job[i]
  BY <1>0 DEF Enqueue, procVars, TypeOK
<1>2. job[j].attempts = 0 /\ Idle(p, j) /\ Idle(p, j)'
  BY <1>1 DEF OnceInv, AbsentIdle, Idle
<1>3. job'[j].status = "queued" /\ job'[j].attempts = 0 BY <1>1, QueuedFields
<1>4. \A i \in Jobs : i # j => Seen(i) BY <1>1, SeenSame DEF Idle
<1>5. Phase(j) = "absent" /\ Phase(j)' = "waiting"
  BY <1>1, <1>2, <1>3, PhaseOf DEF RowPhase
<1> QED BY <1>2, <1>3, <1>4, <1>5, AbstractAccept

\* A cancel ends a job that waits or is in doubt, or loses against an execution.
LEMMA SeenCancel ==
  ASSUME OneProcess, OnceInv, SoleInv, NEW p \in Procs, CancelWrite(p)
  PROVE  Promise!Next \/ UNCHANGED Promise!vars
<1>0. TypeOK /\ exec' = exec BY DEF OnceInv, CancelWrite, execVars
<1>1. \A i \in Jobs : Idle(p, i)' <=> Idle(p, i) BY <1>0 DEF Idle
<1>2. CASE cancel[p].step = "other"
  <2>1. ASSUME NEW i \in Jobs
        PROVE  /\ job'[i].status = job[i].status /\ job'[i].type = job[i].type
               /\ job'[i].attempts = job[i].attempts
    <3>1. job'[i] = job[i] \/ job'[i] = [job[i] EXCEPT !.cancel = TRUE]
      BY <1>0, <1>2 DEF CancelWrite, TypeOK
    <3> QED BY <1>0, <3>1 DEF TypeOK, Row
  <2> QED BY <1>1, <2>1, QuietSeen
<1>3. CASE cancel[p].step = "queued"
  <2>2. ASSUME NEW j \in Jobs, j = cancel[p].job
        PROVE  Promise!Next \/ UNCHANGED Promise!vars
    <3>0. job' = [job EXCEPT ![j] = CancelledRow(job[j])] BY <1>3, <2>2 DEF CancelWrite
    <3>1. /\ job'[j].status = "cancelled" /\ job'[j].type = job[j].type
          /\ job'[j].attempts = job[j].attempts
          /\ \A i \in Jobs : i # j => job'[i] = job[i]
      <4>1. job'[j] = CancelledRow(job[j]) BY <1>0, <3>0 DEF TypeOK
      <4> QED BY <1>0, <3>0, <4>1, CancelledFields DEF TypeOK
    <3>2. job[j].status # "absent" /\ (job[j].status = "running" => ~Idle(p, j))
      BY <1>3, <2>2 DEF OnceInv, AbsentIdle, SoleInv, CancelSeesLife
    <3>3. job[j].status \in Status BY <1>0 DEF TypeOK, Row
    <3>4. \A i \in Jobs : i # j => Seen(i) BY <1>1, <3>1, SeenSame
    <3>5. OneShot(j)' <=> OneShot(j) BY <3>1, <3>2 DEF OneShot, ManualReview
    <3>6. CASE Idle(p, j)
      <4>1. Phase(j) = RowPhase(j) /\ Phase(j)' = RowPhase(j)'
        BY <1>1, <3>6, PhaseOf
      <4>2. RowPhase(j) \in {"waiting", "doubt", "ended"} /\ RowPhase(j)' = "ended"
        BY <3>1, <3>2, <3>3, <3>6 DEF RowPhase
      <4>3. CASE RowPhase(j) = "ended"
        <5>1. Seen(j) BY <3>1, <3>5, <4>1, <4>2, <4>3 DEF Seen
        <5> QED BY <3>4, <5>1, AbstractStutter
      <4>4. CASE RowPhase(j) \in {"waiting", "doubt"}
        BY <3>1, <3>4, <3>5, <4>1, <4>2, <4>4, AbstractOne
      <4> QED BY <4>2, <4>3, <4>4
    <3>7. CASE ~Idle(p, j)
      <4>1. Phase(j) = "executing" /\ Phase(j)' = "executing"
        BY <1>1, <3>7, PhaseOf
      <4>2. Seen(j) BY <3>1, <3>5, <4>1 DEF Seen
      <4> QED BY <3>4, <4>2, AbstractStutter
    <3> QED BY <3>6, <3>7
  <2>3. CASE cancel[p].job \notin Jobs
    <3> DEFINE k == cancel[p].job
               r == CancelledRow(job[k])
    <3>1. job' = [job EXCEPT ![k] = r] BY <1>3 DEF CancelWrite
    <3> HIDE DEF k, r
    <3>2. \A i \in Jobs : i # k BY <2>3 DEF k
    <3>3. \A i \in Jobs : job'[i] = job[i] BY <1>0, <3>1, <3>2 DEF TypeOK
    <3> QED BY <1>1, <3>3, QuietSeen
  <2> QED BY <2>2, <2>3
<1> QED BY <1>2, <1>3 DEF CancelWrite

LEMMA SeenRecover ==
  ASSUME OneProcess, OnceInv, SoleInv, NEW p \in Procs, NEW j \in Jobs, NEW s \in Status,
         j \in boot[p].todo, job' = [job EXCEPT ![j] = Released(job[j], s)], exec' = exec,
         \/ s = "queued" /\ ~ManualReview(j)
         \/ s = "unknown" /\ ManualReview(j)
  PROVE  Promise!Next
<1>0. TypeOK BY DEF OnceInv
<1>1. job[j].status = "running" /\ Idle(p, j) /\ Idle(p, j)'
  BY DEF SoleInv, SoleExecution, Idle
<1>2. /\ job'[j].status = s /\ job'[j].type = job[j].type
      /\ job'[j].attempts = job[j].attempts
      /\ \A i \in Jobs : i # j => job'[i] = job[i]
  <2>1. job'[j] = Released(job[j], s) BY <1>0 DEF TypeOK
  <2> QED BY <1>0, <2>1, ReleasedFields DEF TypeOK
<1>3. \A i \in Jobs : i # j => Seen(i) BY <1>2, SeenSame DEF Idle
<1>4. Phase(j) = "orphan" /\ Phase(j)' = IF s = "queued" THEN "waiting" ELSE "doubt"
  BY <1>1, <1>2, PhaseOf DEF RowPhase
<1>5. (OneShot(j)' <=> OneShot(j)) /\ (OneShot(j) <=> ManualReview(j))
  BY <1>1, <1>2 DEF OneShot, ManualReview
<1> QED BY <1>2, <1>3, <1>4, <1>5, AbstractOne

LEMMA SeenClaim ==
  ASSUME OneProcess, OnceInv, SoleInv, NEW p \in Procs, PollClaim(p), Claimable(poll[p].pick)
  PROVE  Promise!Next
<1>0. TypeOK BY DEF OnceInv
<1>1. PICK j \in Jobs : j = poll[p].pick BY <1>0 DEF PollClaim, TypeOK, PollState
<1>2. job' = [job EXCEPT ![j] = Claimed(job[j], p)] BY <1>1 DEF PollClaim
<1>3. PICK g \in Lanes : exec' = [exec EXCEPT ![p][j][g] = "claimed"]
  BY <1>1 DEF PollClaim
<1>4. job[j].status = "queued" BY <1>1 DEF Claimable
<1>5. /\ job'[j].status = "running" /\ job'[j].type = job[j].type
      /\ job'[j].attempts = job[j].attempts + 1
      /\ \A i \in Jobs : i # j => job'[i] = job[i]
  <2>1. job'[j] = Claimed(job[j], p) BY <1>0, <1>1, <1>2 DEF TypeOK
  <2> QED BY <1>0, <1>1, <1>2, <2>1, ClaimedFields DEF TypeOK
<1>6. /\ exec'[p][j][g] = "claimed"
      /\ \A h \in Lanes : h # g => exec'[p][j][h] = exec[p][j][h]
      /\ \A i \in Jobs : i # j => exec'[p][i] = exec[p][i]
  BY <1>0, <1>3, OneLane
<1>7. Idle(p, j) /\ ~Idle(p, j)' BY <1>4, <1>6 DEF SoleInv, SoleExecution, Idle
<1>8. \A i \in Jobs : i # j => Seen(i) BY <1>5, <1>6, SeenSame DEF Idle
<1>9. Phase(j) = "waiting" /\ Phase(j)' = "executing"
  BY <1>4, <1>7, PhaseOf DEF RowPhase
<1>10. OneShot(j)' <=> OneShot(j) BY <1>4, <1>5 DEF OneShot, ManualReview
<1> QED BY <1>5, <1>8, <1>9, <1>10, AbstractStart

\* An execution that goes on is still an execution.
LEMMA SeenAdvance ==
  ASSUME OneProcess, OnceInv, SoleInv, NEW p \in Procs, NEW j \in Jobs, NEW g \in Lanes, NEW s,
         exec[p][j][g] # "none", s # "none", exec' = [exec EXCEPT ![p][j][g] = s]
  PROVE  \A i \in Jobs : Idle(p, i)' <=> Idle(p, i)
<1>0. TypeOK BY DEF OnceInv
<1>1. /\ exec'[p][j][g] = s
      /\ \A h \in Lanes : h # g => exec'[p][j][h] = exec[p][j][h]
      /\ \A i \in Jobs : i # j => exec'[p][i] = exec[p][i]
  BY <1>0, OneLane
<1> QED BY <1>1 DEF Idle

\* The last write of an execution, or what follows it, ends the execution.
LEMMA SeenFinish ==
  ASSUME OneProcess, OnceInv, SoleInv, NEW p \in Procs, NEW j \in Jobs, NEW g \in Lanes,
         exec[p][j][g] # "none", exec' = [exec EXCEPT ![p][j][g] = "none"],
         \A i \in Jobs : i # j => job'[i] = job[i],
         job'[j].type = job[j].type, job'[j].attempts = job[j].attempts,
         job'[j].status \in Status \ {"absent", "running"},
         job'[j].status = "queued" => ~ManualReview(j),
         job'[j].status = "unknown" => ManualReview(j)
  PROVE  Promise!Next
<1>1. /\ exec'[p][j][g] = "none"
      /\ \A h \in Lanes : h # g => exec'[p][j][h] = exec[p][j][h]
      /\ \A i \in Jobs : i # j => exec'[p][i] = exec[p][i]
  BY OneLane DEF OnceInv
<1>2. Idle(p, j)' BY <1>1 DEF Idle, SoleInv, SoleExecution
<1>3. ~Idle(p, j) BY DEF Idle
<1>4. job[j].status # "absent" BY DEF OnceInv, AbsentIdle
<1>5. \A i \in Jobs : i # j => Seen(i) BY <1>1, SeenSame DEF Idle
<1>6. (OneShot(j)' <=> OneShot(j)) /\ (OneShot(j) <=> ManualReview(j))
  BY <1>4 DEF OneShot, ManualReview
<1>7. Phase(j) = "executing" /\ Phase(j)' = RowPhase(j)' BY <1>2, <1>3, PhaseOf
<1>8. /\ RowPhase(j)' \in {"waiting", "doubt", "ended"}
      /\ RowPhase(j)' = "waiting" => ~ManualReview(j)
      /\ RowPhase(j)' = "doubt" => ManualReview(j)
  BY DEF RowPhase
<1> QED BY <1>5, <1>6, <1>7, <1>8, AbstractOne

LEMMA SeenExecution ==
  ASSUME OneProcess, OnceInv, SoleInv, NEW p \in Procs, NEW j \in Jobs, NEW g \in Lanes,
         Execution(p, j, g)
  PROVE  Promise!Next \/ UNCHANGED Promise!vars
<1>0. TypeOK BY DEF OnceInv
<1>1. ASSUME NEW s, Advance(p, j, g, s), s # "none", exec[p][j][g] # "none", job' = job
      PROVE  UNCHANGED Promise!vars
  <2>1. \A i \in Jobs : Idle(p, i)' <=> Idle(p, i)
    BY <1>1, SeenAdvance DEF Advance
  <2> QED BY <1>1, <2>1, QuietSeen
<1>2. CASE HandlerStarts(p, j, g) \/ HandlerReturns(p, j, g)
  BY <1>1, <1>2 DEF HandlerStarts, HandlerReturns
<1>3. ASSUME NEW r \in BOOLEAN, HandlerThrows(p, j, g, r) PROVE UNCHANGED Promise!vars
  <2>1. FailureStatus(j, r) # "none" BY FailureStatusType
  <2> QED BY <1>1, <1>3, <2>1 DEF HandlerThrows
<1>4. CASE WriteOutcome(p, j, g)
  <2> DEFINE s == exec[p][j][g]
  <2>1. /\ s \in Outcomes /\ job' = [job EXCEPT ![j] = Settled(job[j], s)]
        /\ exec' = [exec EXCEPT ![p][j][g] = AfterOutcome(s)]
    BY <1>4 DEF WriteOutcome, Finish, Advance
  <2>2. s = "unknown" => ManualReview(j) BY DEF SoleInv, EndsInv
  <2>3. s = "queued" => ~ManualReview(j) BY DEF OnceInv, NoManualRetry, Refused
  <2>4. s # "none" BY <2>1
  <2>5. /\ job'[j].status = s /\ job'[j].type = job[j].type
        /\ job'[j].attempts = job[j].attempts
        /\ \A i \in Jobs : i # j => job'[i] = job[i]
    <3> HIDE DEF s
    <3>1. job'[j] = Settled(job[j], s) /\ s \in Status BY <1>0, <2>1 DEF TypeOK
    <3> QED BY <1>0, <2>1, <3>1, SettledFields DEF TypeOK
  <2>6. CASE AfterOutcome(s) = "none"
    <3>1. exec' = [exec EXCEPT ![p][j][g] = "none"] BY <2>1, <2>6
    <3>2. s \in Status \ {"absent", "running"} BY <2>1
    <3> QED BY <2>2, <2>3, <2>4, <2>5, <3>1, <3>2, SeenFinish
  <2>7. CASE AfterOutcome(s) # "none"
    <3> DEFINE n == AfterOutcome(s)
    <3>1. exec' = [exec EXCEPT ![p][j][g] = n] /\ n # "none" BY <2>1, <2>7
    <3> HIDE DEF n
    <3>2. \A i \in Jobs : Idle(p, i)' <=> Idle(p, i) BY <2>4, <3>1, SeenAdvance
    <3>3. ~Idle(p, j) BY <2>4 DEF Idle
    <3>4. Phase(j) = "executing" /\ Phase(j)' = "executing" BY <3>2, <3>3, PhaseOf
    <3>5. job[j].status # "absent" BY <2>4 DEF OnceInv, AbsentIdle
    <3>6. s # "absent" BY <2>1
    <3>7. OneShot(j)' <=> OneShot(j) BY <2>5, <3>5, <3>6 DEF OneShot, ManualReview
    <3>8. Seen(j) BY <2>5, <3>4, <3>7 DEF Seen
    <3>9. \A i \in Jobs : i # j => Seen(i) BY <2>5, <3>2, SeenSame
    <3> QED BY <3>8, <3>9, AbstractStutter
  <2> QED BY <2>6, <2>7
<1>5. CASE RequeueRejected(p, j, g)
  BY <1>5, DieAbandons DEF RequeueRejected, dbVars
<1>6. CASE MarkTarget(p, j, g) \/ TerminalFailure(p, j, g)
  <2>1. /\ exec' = [exec EXCEPT ![p][j][g] = "none"] /\ job' = job
        /\ exec[p][j][g] \in {"mark", "callback"}
    BY <1>6 DEF MarkTarget, TerminalFailure, Finish
  <2>2. /\ job[j].status \in {"unknown", "cancelled", "failed", "dead_letter"}
        /\ job[j].status = "unknown" => ManualReview(j)
    BY <2>1 DEF SoleInv, EndsInv
  <2>3. exec[p][j][g] # "none" /\ job'[j].status \in Status \ {"absent", "running"}
    BY <2>1, <2>2
  <2>4. job'[j].status # "queued" BY <2>1, <2>2
  <2> QED BY <2>1, <2>2, <2>3, <2>4, SeenFinish
<1> QED BY <1>2, <1>3, <1>4, <1>5, <1>6 DEF Execution

\* Every step of the queue and its runner is a step of OneShotJob or none.
LEMMA OneShotStep ==
  ASSUME OneProcess, OnceInv, SoleInv, [Next]_vars
  PROVE  Promise!Next \/ UNCHANGED Promise!vars
<1>0. TypeOK BY DEF OnceInv
<1>1. ASSUME NEW p \in Procs, exec' = exec, job' = job
      PROVE  UNCHANGED Promise!vars
  BY <1>1, QuietSeen DEF Idle
<1>2. ASSUME NEW p \in Procs, Bootstrap(p) \/ Environment(p) \/ Wake(p) \/ RenewLease(p)
      PROVE  Promise!Next \/ UNCHANGED Promise!vars
  <2>1. ASSUME NEW j \in Jobs, RecoverReplay(p, j) PROVE Promise!Next
    <3>1. CASE Die(p) /\ job' = job BY <3>1, DieAbandons
    <3>2. CASE ~(Die(p) /\ job' = job)
      <4>1. /\ job' = [job EXCEPT ![j] = Released(job[j], "queued")] /\ exec' = exec
            /\ j \in boot[p].todo /\ ~ManualReview(j)
        BY <2>1, <3>2 DEF RecoverReplay, execVars
      <4>2. "queued" \in Status OBVIOUS
      <4> QED BY <4>1, <4>2, SeenRecover
    <3> QED BY <3>1, <3>2
  <2>2. ASSUME NEW j \in Jobs, RecoverReview(p, j) PROVE Promise!Next
    <3>1. /\ job' = [job EXCEPT ![j] = Released(job[j], "unknown")] /\ exec' = exec
          /\ j \in boot[p].todo /\ ManualReview(j)
      BY <2>2 DEF RecoverReview, execVars
    <3>2. "unknown" \in Status OBVIOUS
    <3> QED BY <3>1, <3>2, SeenRecover
  <2>3. CASE BootFails(p) \/ Crash(p) \/ Stop(p)
    BY <2>3, DieAbandons DEF BootFails, Crash, Stop, dbVars
  <2>4. CASE Boot(p) \/ BootDone(p) \/ RecoverMark(p) \/ Stall(p) \/ Wake(p) \/ RenewLease(p)
    <3>1. exec' = exec /\ job' = job
      BY <2>4 DEF Boot, BootDone, RecoverMark, Stall, Wake, RenewLease, dbVars, execVars
    <3> QED BY <1>1, <3>1
  <2> QED BY <1>2, <2>1, <2>2, <2>3, <2>4 DEF Bootstrap, Environment
<1>3. ASSUME NEW p \in Procs, Polling(p) PROVE Promise!Next \/ UNCHANGED Promise!vars
  <2>1. CASE PollClaim(p) /\ Claimable(poll[p].pick) BY <2>1, SeenClaim
  <2>2. CASE ~(PollClaim(p) /\ Claimable(poll[p].pick))
    <3>1. exec' = exec /\ job' = job
      BY <1>3, <2>2 DEF Polling, PollStart, PollPick, PollClaim, PollEnd, dbVars, execVars
    <3> QED BY <1>1, <3>1
  <2> QED BY <2>1, <2>2
<1>4. ASSUME NEW p \in Procs, Requesting(p) \/ Cancelling(p)
      PROVE  Promise!Next \/ UNCHANGED Promise!vars
  <2>1. ASSUME NEW j \in Jobs, CancelRead(p, j) PROVE exec' = exec /\ job' = job
    BY <2>1 DEF CancelRead, dbVars, execVars
  <2>2. ASSUME QueuedCancellation(p) PROVE exec' = exec /\ job' = job
    BY <2>2 DEF QueuedCancellation, execVars
  <2> QED BY <1>1, <1>4, <2>1, <2>2, SeenQueue, SeenCancel DEF Requesting, Cancelling
<1>5. ASSUME NEW p \in Procs, NEW j \in Jobs, NEW g \in Lanes, Heartbeat(p, j, g) \/ Tick
      PROVE  UNCHANGED Promise!vars
  <2>1. exec' = exec BY <1>5 DEF Heartbeat, Tick, procVars
  <2>2. ASSUME NEW i \in Jobs
        PROVE  /\ job'[i].status = job[i].status /\ job'[i].type = job[i].type
               /\ job'[i].attempts = job[i].attempts
    <3>1. \/ job'[i] = job[i] \/ job'[i] = [job[i] EXCEPT !.left = JobLease]
          \/ job'[i] = Elapsed(job[i])
      BY <1>0, <1>5 DEF Heartbeat, Tick, TypeOK
    <3>2. job[i] \in Row BY <1>0 DEF TypeOK
    <3>3. LET r == [job[i] EXCEPT !.left = JobLease]
          IN  r.status = job[i].status /\ r.type = job[i].type /\ r.attempts = job[i].attempts
      BY <3>2 DEF Row
    <3> QED BY <3>1, <3>2, <3>3, ElapsedFields
  <2> QED BY <2>1, <2>2, QuietSeen DEF Idle
<1>6. CASE Tick
  <2>1. \A i \in Jobs : /\ job'[i].status = job[i].status /\ job'[i].type = job[i].type
                        /\ job'[i].attempts = job[i].attempts
    BY <1>0, <1>6, ElapsedFields DEF Tick, TypeOK
  <2>2. exec' = exec BY <1>6 DEF Tick, procVars
  <2>3. \A i \in Jobs : Seen(i)
    <3>1. ASSUME NEW i \in Jobs PROVE Seen(i)
      <4>1. Phase(i)' = Phase(i) BY <2>1, <2>2 DEF Phase, Executes
      <4>2. OneShot(i)' <=> OneShot(i) BY <2>1 DEF OneShot, ManualReview
      <4> QED BY <2>1, <4>1, <4>2 DEF Seen
    <3> QED BY <3>1
  <2> QED BY <2>3, AbstractStutter
<1>7. CASE UNCHANGED vars
  <2>1. \A i \in Jobs : Seen(i)
    BY <1>7 DEF vars, Seen, Phase, Executes, OneShot, ManualReview
  <2> QED BY <2>1, AbstractStutter
<1> QED BY <1>2, <1>3, <1>4, <1>5, <1>6, <1>7, SeenExecution DEF Next

LEMMA OneShotInit == Init => Promise!Init
<1> SUFFICES ASSUME Init PROVE Promise!Init
  OBVIOUS
<1>1. \A j \in Jobs : job[j].status = "absent" /\ job[j].attempts = 0 BY DEF Init, BlankRow
<1>2. \A j \in Jobs : ~Executes(j) BY DEF Init, Executes
<1>3. \A j \in Jobs : Phase(j) = "absent" BY <1>1, <1>2 DEF Phase
<1> QED BY <1>1, <1>3 DEF Promise!Init

\* On a machine with one process, the queue and its runner implement OneShotJob: no
\* second execution beside a first, no start that is not counted, no requeue of an
\* external write, no end taken back, no recovery of what still executes
\* (job-runner.service.ts:27-57, 62-101, 104-199).
THEOREM ImplementsOneShotJob == OneProcess => (Spec => OneShotJobs)
<1> SUFFICES ASSUME OneProcess PROVE Spec => OneShotJobs
  OBVIOUS
<1>1. OnceInv /\ SoleInv /\ [Next]_vars => [Promise!Next]_(Promise!vars)
  BY OneShotStep
<1> QED BY <1>1, OneShotInit, SoleAlways, PTL DEF Spec, OneShotJobs, Promise!Spec

----------------------------------------------------------------------------
(* The abstract queue itself, for any variables *)

VARIABLES phase, once, starts

Queue == INSTANCE OneShotJob

\* Every reachable state of the abstract queue has the types it declares.
THEOREM OneShotTypeCorrect == Queue!Spec => []Queue!TypeOK
<1>1. Queue!Init => Queue!TypeOK
  BY DEF Queue!Init, Queue!TypeOK, Queue!Phases
<1>2. Queue!TypeOK /\ [Queue!Next]_Queue!vars => Queue!TypeOK'
  <2> SUFFICES ASSUME Queue!TypeOK, [Queue!Next]_Queue!vars PROVE Queue!TypeOK'
    OBVIOUS
  <2> USE DEF Queue!TypeOK, Queue!Phases
  <2>1. CASE Queue!Abandon
    <3>0. PICK S \in SUBSET {j \in Jobs : phase[j] = "executing"} :
            \E left \in [S -> {"orphan", "doubt", "ended"}] :
              phase' = [j \in Jobs |-> IF j \in S THEN left[j] ELSE phase[j]]
      BY <2>1 DEF Queue!Abandon
    <3>1. PICK left \in [S -> {"orphan", "doubt", "ended"}] :
            phase' = [j \in Jobs |-> IF j \in S THEN left[j] ELSE phase[j]]
      BY <3>0
    <3>2. phase' \in [Jobs -> Queue!Phases]
      BY <3>1
    <3> QED
      BY <2>1, <3>2 DEF Queue!Abandon
  <2>2. ASSUME NEW j \in Jobs, Queue!Accept(j) PROVE Queue!TypeOK'
    BY <2>2 DEF Queue!Accept, Queue!Move
  <2>3. ASSUME NEW j \in Jobs, Queue!Start(j) PROVE Queue!TypeOK'
    BY <2>3 DEF Queue!Start, Queue!Move
  <2>4. ASSUME NEW j \in Jobs, Queue!Finish(j) PROVE Queue!TypeOK'
    BY <2>4 DEF Queue!Finish, Queue!Move
  <2>5. ASSUME NEW j \in Jobs, Queue!Cancel(j) PROVE Queue!TypeOK'
    BY <2>5 DEF Queue!Cancel, Queue!Move
  <2>6. ASSUME NEW j \in Jobs, Queue!Recover(j) PROVE Queue!TypeOK'
    BY <2>6 DEF Queue!Recover, Queue!Move
  <2>7. CASE UNCHANGED Queue!vars
    BY <2>7 DEF Queue!vars
  <2> QED
    BY <2>1, <2>2, <2>3, <2>4, <2>5, <2>6, <2>7 DEF Queue!Next
<1> QED
  BY <1>1, <1>2, PTL DEF Queue!Spec

\* A job that must not be repeated is started at most once: once it has been
\* started it never waits again (job-runner.service.ts:31-51, 152-177).
THEOREM StartedAtMostOnce == Queue!Spec => []Queue!AtMostOnce
<1>1. Queue!Init => Queue!OnceInv
  BY DEF Queue!Init, Queue!OnceInv
<1>2. Queue!TypeOK /\ Queue!OnceInv /\ [Queue!Next]_Queue!vars => Queue!OnceInv'
  <2> SUFFICES ASSUME Queue!TypeOK, Queue!OnceInv, [Queue!Next]_Queue!vars PROVE Queue!OnceInv'
    OBVIOUS
  <2> USE DEF Queue!TypeOK, Queue!OnceInv, Queue!Phases
  <2>1. CASE Queue!Abandon
    <3>0. PICK S \in SUBSET {j \in Jobs : phase[j] = "executing"} :
            \E left \in [S -> {"orphan", "doubt", "ended"}] :
              phase' = [j \in Jobs |-> IF j \in S THEN left[j] ELSE phase[j]]
      BY <2>1 DEF Queue!Abandon
    <3>1. PICK left \in [S -> {"orphan", "doubt", "ended"}] :
            phase' = [j \in Jobs |-> IF j \in S THEN left[j] ELSE phase[j]]
      BY <3>0
    <3>2. \A j \in Jobs : phase'[j] \in {"orphan", "doubt", "ended", phase[j]}
      BY <3>1
    <3> QED
      BY <2>1, <3>2 DEF Queue!Abandon
  <2>2. ASSUME NEW j \in Jobs, Queue!Accept(j) PROVE Queue!OnceInv'
    BY <2>2 DEF Queue!Accept, Queue!Move
  <2>3. ASSUME NEW j \in Jobs, Queue!Start(j) PROVE Queue!OnceInv'
    BY <2>3 DEF Queue!Start, Queue!Move
  <2>4. ASSUME NEW j \in Jobs, Queue!Finish(j) PROVE Queue!OnceInv'
    BY <2>4 DEF Queue!Finish, Queue!Move
  <2>5. ASSUME NEW j \in Jobs, Queue!Cancel(j) PROVE Queue!OnceInv'
    BY <2>5 DEF Queue!Cancel, Queue!Move
  <2>6. ASSUME NEW j \in Jobs, Queue!Recover(j) PROVE Queue!OnceInv'
    BY <2>6 DEF Queue!Recover, Queue!Move
  <2>7. CASE UNCHANGED Queue!vars
    BY <2>7 DEF Queue!vars
  <2> QED
    BY <2>1, <2>2, <2>3, <2>4, <2>5, <2>6, <2>7 DEF Queue!Next
<1>3. Queue!OnceInv => Queue!AtMostOnce
  BY DEF Queue!OnceInv, Queue!AtMostOnce
<1> QED
  BY <1>1, <1>2, <1>3, OneShotTypeCorrect, PTL DEF Queue!Spec
=============================================================================
