--------------------------- MODULE DeliveryProofs ---------------------------
(* Theorems about Delivery, for every set of confirmations and every value *)
(* of the bounds.                                                          *)
EXTENDS Delivery, FiniteSetTheorems, TLAPS

IInv == TypeOK /\ DeliveryInv
Budget == [crashes: Nat, cancels: Nat, faults: Nat, overlaps: Nat, forgotten: SUBSET Confs]
IntentStatus == {"absent", "pending", "running", "succeeded", "failed", "unknown",
                 "needs_review", "cancelled"}
RecoveryStatus == {"not_required", "pending", "matched", "absence_confirmed", "ambiguous",
                   "not_found", "manual_succeeded", "manual_absence_confirmed"}

----------------------------------------------------------------------------
(* Types *)

\* Updating one field of an intent or a report with a value of its type.
LEMMA IntentUpdates ==
  ASSUME NEW i \in Intent
  PROVE  /\ \A s \in IntentStatus :
              /\ [i EXCEPT !.status = s] \in Intent
              /\ [i EXCEPT !.status = s].status = s
              /\ [i EXCEPT !.status = s].attempts = i.attempts
              /\ [i EXCEPT !.status = s].recovery = i.recovery
         /\ \A r \in RecoveryStatus :
              /\ [i EXCEPT !.recovery = r] \in Intent
              /\ [i EXCEPT !.recovery = r].status = i.status
              /\ [i EXCEPT !.recovery = r].attempts = i.attempts
              /\ [i EXCEPT !.recovery = r].recovery = r
         /\ \A k \in 0 .. MaxAttempts :
              /\ [i EXCEPT !.attempts = k] \in Intent
              /\ [i EXCEPT !.attempts = k].status = i.status
              /\ [i EXCEPT !.attempts = k].attempts = k
         /\ \A l \in {"none", "recent", "old"} :
              /\ [i EXCEPT !.last = l] \in Intent
              /\ [i EXCEPT !.last = l].status = i.status
              /\ [i EXCEPT !.last = l].attempts = i.attempts
              /\ [i EXCEPT !.last = l].recovery = i.recovery
BY DEF Intent, IntentStatus, RecoveryStatus

\* An update of the row of one confirmation.
LEMMA IntentRow ==
  ASSUME intent \in [Confs -> Intent], NEW c \in Confs, NEW i \in Intent,
         intent' = [intent EXCEPT ![c] = i]
  PROVE  /\ intent' \in [Confs -> Intent]
         /\ intent'[c] = i
         /\ \A d \in Confs : d = c \/ intent'[d] = intent[d]
OBVIOUS

\* A new status, alone or with a new recovery status.
LEMMA StatusUpdate ==
  ASSUME intent \in [Confs -> Intent], NEW c \in Confs, NEW s \in IntentStatus,
         intent' = [intent EXCEPT ![c].status = s]
  PROVE  /\ intent' \in [Confs -> Intent]
         /\ intent'[c].status = s
         /\ intent'[c].attempts = intent[c].attempts
         /\ intent'[c].recovery = intent[c].recovery
         /\ \A d \in Confs : d = c \/ intent'[d] = intent[d]
<1> DEFINE i == [intent[c] EXCEPT !.status = s]
<1>1. intent[c] \in Intent
  OBVIOUS
<1>2. /\ i \in Intent /\ i.status = s
      /\ i.attempts = intent[c].attempts
      /\ i.recovery = intent[c].recovery
  BY <1>1, IntentUpdates
<1>3. intent' = [intent EXCEPT ![c] = i]
  OBVIOUS
<1> HIDE DEF i
<1> QED BY <1>1, <1>2, <1>3, IntentRow

LEMMA OutcomeUpdate ==
  ASSUME intent \in [Confs -> Intent], NEW c \in Confs, NEW s \in IntentStatus,
         NEW r \in RecoveryStatus,
         intent' = [intent EXCEPT ![c].status = s, ![c].recovery = r]
  PROVE  /\ intent' \in [Confs -> Intent]
         /\ intent'[c].status = s
         /\ intent'[c].attempts = intent[c].attempts
         /\ intent'[c].recovery = r
         /\ \A d \in Confs : d = c \/ intent'[d] = intent[d]
<1> DEFINE i0 == [intent[c] EXCEPT !.status = s]
           i == [i0 EXCEPT !.recovery = r]
<1>0. intent[c] \in Intent
  OBVIOUS
<1>1. i0 \in Intent /\ i0.status = s /\ i0.attempts = intent[c].attempts
  BY <1>0, IntentUpdates
<1>2. i \in Intent /\ i.status = s /\ i.attempts = intent[c].attempts /\ i.recovery = r
  <2> HIDE DEF i0
  <2> QED BY <1>1, IntentUpdates
<1>3. intent' = [intent EXCEPT ![c] = i]
  OBVIOUS
<1> HIDE DEF i, i0
<1> QED BY <1>2, <1>3, IntentRow

\* The statement that counts an attempt.
LEMMA StartUpdate ==
  ASSUME intent \in [Confs -> Intent], NEW c \in Confs, intent[c].attempts + 1 <= MaxAttempts,
         intent' = [intent EXCEPT ![c].status = "running", ![c].attempts = @ + 1]
  PROVE  /\ intent' \in [Confs -> Intent]
         /\ intent'[c].status = "running"
         /\ intent'[c].attempts = intent[c].attempts + 1
         /\ \A d \in Confs : d = c \/ intent'[d] = intent[d]
<1> DEFINE k == intent[c].attempts + 1
           i0 == [intent[c] EXCEPT !.status = "running"]
           i == [i0 EXCEPT !.attempts = k]
<1>0. intent[c] \in Intent
  OBVIOUS
<1>1. i0 \in Intent /\ i0.status = "running"
  BY <1>0, IntentUpdates DEF IntentStatus
<1>2. k \in 0 .. MaxAttempts
  BY DeliveryAssumption DEF Intent
<1>3. i \in Intent /\ i.status = "running" /\ i.attempts = k
  <2> HIDE DEF i0, k
  <2> QED BY <1>1, <1>2, IntentUpdates
<1>4. intent' = [intent EXCEPT ![c] = i]
  OBVIOUS
<1> HIDE DEF i, i0
<1> QED BY <1>3, <1>4, IntentRow

LEMMA ReportUpdates ==
  ASSUME NEW r \in Report
  PROVE  /\ \A s \in {"editing", "confirmed"} : [r EXCEPT !.status = s] \in Report
         /\ \A c \in Confs \union {NoConf} : [r EXCEPT !.conf = c] \in Report
         /\ \A l \in LogState : [r EXCEPT !.log = l] \in Report
BY DEF Report

\* Spending one unit of a budget leaves the others alone.
LEMMA SpendsBudget ==
  ASSUME NEW b \in Budget
  PROVE  /\ b.crashes > 0 => [b EXCEPT !.crashes = @ - 1] \in Budget
         /\ b.cancels > 0 => [b EXCEPT !.cancels = @ - 1] \in Budget
         /\ b.faults > 0 => [b EXCEPT !.faults = @ - 1] \in Budget
         /\ b.overlaps > 0 => [b EXCEPT !.overlaps = @ - 1] \in Budget
<1>1. b.crashes \in Nat /\ b.cancels \in Nat /\ b.faults \in Nat /\ b.overlaps \in Nat
  BY DEF Budget
<1>2. \A k \in Nat : k > 0 => k - 1 \in Nat
  OBVIOUS
<1>3. \A k \in Nat : /\ [b EXCEPT !.crashes = k] \in Budget /\ [b EXCEPT !.cancels = k] \in Budget
                     /\ [b EXCEPT !.faults = k] \in Budget /\ [b EXCEPT !.overlaps = k] \in Budget
  BY DEF Budget
<1> QED BY <1>1, <1>2, <1>3

LEMMA BudgetUpdates ==
  ASSUME TypeOK
  PROVE  /\ budget.faults > 0 => [budget EXCEPT !.faults = @ - 1] \in Budget
         /\ budget.overlaps > 0 => [budget EXCEPT !.overlaps = @ - 1] \in Budget
         /\ [budget EXCEPT !.overlaps = @ - 1].faults = budget.faults
         /\ [budget EXCEPT !.faults = @ - 1].faults = budget.faults - 1
         /\ [budget EXCEPT !.faults = @ - 1].overlaps = budget.overlaps
         /\ [budget EXCEPT !.overlaps = @ - 1].overlaps = budget.overlaps - 1
<1>1. budget \in Budget
  BY DEF TypeOK, Budget
<1>2. /\ [budget EXCEPT !.overlaps = @ - 1].faults = budget.faults
      /\ [budget EXCEPT !.faults = @ - 1].faults = budget.faults - 1
      /\ [budget EXCEPT !.faults = @ - 1].overlaps = budget.overlaps
      /\ [budget EXCEPT !.overlaps = @ - 1].overlaps = budget.overlaps - 1
  BY <1>1 DEF Budget
<1> QED BY <1>1, <1>2, SpendsBudget

\* So do a death and a cancel, which add to what they leave behind.
LEMMA LeavesBudget ==
  ASSUME TypeOK, Crash \/ \E c \in Confs, n \in Attempts : CancelJob(c, n)
  PROVE  budget' \in Budget /\ budget'.faults = budget.faults /\ budget'.overlaps = budget.overlaps
<1>1. budget \in Budget
  BY DEF TypeOK, Budget
<1>2. \A b \in Budget, F \in SUBSET Confs :
        /\ [b EXCEPT !.forgotten = @ \union F] \in Budget
        /\ [b EXCEPT !.forgotten = @ \union F].faults = b.faults
        /\ [b EXCEPT !.forgotten = @ \union F].overlaps = b.overlaps
  BY DEF Budget
<1>3. PICK b \in Budget, F \in SUBSET Confs :
        /\ b.faults = budget.faults /\ b.overlaps = budget.overlaps
        /\ budget' = [b EXCEPT !.forgotten = @ \union F]
  <2>1. CASE Crash
    <3> DEFINE b == [budget EXCEPT !.crashes = @ - 1]
               F == {c \in Confs : LeftByDeath(c)}
    <3>1. b \in Budget /\ b.faults = budget.faults /\ b.overlaps = budget.overlaps
      BY <1>1, <2>1, SpendsBudget DEF Crash, Budget
    <3>2. F \in SUBSET Confs
      OBVIOUS
    <3>3. budget' = [b EXCEPT !.forgotten = @ \union F]
      BY <1>1, <2>1 DEF Crash, Budget
    <3> HIDE DEF b, F
    <3> QED BY <3>1, <3>2, <3>3
  <2>2. CASE \E c \in Confs, n \in Attempts : CancelJob(c, n)
    <3>1. PICK c \in Confs :
            /\ budget.cancels > 0
            /\ budget' = [budget EXCEPT !.cancels = @ - 1, !.forgotten = @ \union {c}]
      BY <2>2 DEF CancelJob
    <3> DEFINE b == [budget EXCEPT !.cancels = @ - 1]
    <3>2. b \in Budget /\ b.faults = budget.faults /\ b.overlaps = budget.overlaps
      BY <1>1, <3>1, SpendsBudget DEF Budget
    <3>3. budget' = [b EXCEPT !.forgotten = @ \union {c}] /\ {c} \in SUBSET Confs
      BY <1>1, <3>1 DEF Budget
    <3> HIDE DEF b
    <3> QED BY <3>2, <3>3
  <2> QED BY <2>1, <2>2
<1> QED BY <1>2, <1>3

\* The initial states.
LEMMA InitInv == Init => IInv
<1> SUFFICES ASSUME Init PROVE IInv
  OBVIOUS
<1>1. TypeOK
  BY DeliveryAssumption
     DEF Init, TypeOK, Idle, NoIntent, Report, Intent, LogState, AttemptRow, JobRow, ExecPc,
         Request, QueryState
<1>2. /\ budget.faults <= MaxFaults /\ OneActive
  BY DeliveryAssumption DEF Init, OneActive, Active, Idle
<1>3. ASSUME NEW c \in Confs
      PROVE  QueryInStep(c) /\ (intent[c].status = "succeeded" => Landed(c) # {})
  BY DEF Init, QueryInStep, Idle, NoIntent
<1>4. ASSUME NEW c \in Confs, NEW n \in Attempts
      PROVE  JobInStep(c, n) /\ RequestInStep(c, n) /\ AbsentBefore(c, n)
  BY DEF Init, JobInStep, RequestInStep, AbsentBefore, MayExist, Active, Attempting, Result,
         Idle, NoIntent
<1> QED BY <1>1, <1>2, <1>3, <1>4 DEF IInv, DeliveryInv

----------------------------------------------------------------------------
(* The parts of the invariant an action leaves alone *)

\* Faults are only used up.
LEMMA FaultsFall ==
  ASSUME IInv, budget' \in Budget, budget'.faults <= budget.faults
  PROVE  /\ NoFault' => NoFault
         /\ NoFault' => budget'.faults = budget.faults
         /\ budget'.faults <= MaxFaults
<1>1. budget.faults \in Nat /\ budget'.faults \in Nat /\ budget.faults <= MaxFaults
  BY DEF IInv, TypeOK, DeliveryInv, Budget
<1> QED BY <1>1, DeliveryAssumption DEF NoFault

\* What the queries know does not depend on the jobs and their handlers.
LEMMA QueryFrame ==
  ASSUME IInv, UNCHANGED <<intent, attempt, prov, graced, query>>, NoFault' => NoFault,
         NEW c \in Confs
  PROVE  QueryInStep(c)' /\ (intent'[c].status = "succeeded" => Landed(c)' # {})
<1>1. QueryInStep(c) /\ (intent[c].status = "succeeded" => Landed(c) # {})
  BY DEF IInv, DeliveryInv
<1>2. Landed(c)' = Landed(c) /\ (Unresolved(c)' <=> Unresolved(c))
  BY DEF Landed, Unresolved
<1>3. \A n \in Attempts : MayExist(c, n)' <=> MayExist(c, n)
  BY DEF MayExist
<1> QED BY <1>1, <1>2, <1>3 DEF QueryInStep

LEMMA AbsentFrame ==
  ASSUME IInv, UNCHANGED <<intent, prov>>, NoFault' => NoFault,
         NEW c \in Confs, NEW n \in Attempts
  PROVE  AbsentBefore(c, n)'
<1>1. AbsentBefore(c, n)
  BY DEF IInv, DeliveryInv
<1> QED BY <1>1 DEF AbsentBefore, MayExist

LEMMA RequestFrame ==
  ASSUME IInv, UNCHANGED <<intent, exec, prov>>, NoFault' => NoFault,
         NEW c \in Confs, NEW n \in Attempts
  PROVE  RequestInStep(c, n)'
<1>1. RequestInStep(c, n)
  BY DEF IInv, DeliveryInv
<1> QED BY <1>1 DEF RequestInStep

LEMMA JobFrame ==
  ASSUME IInv, UNCHANGED <<intent, attempt, job, exec>>
  PROVE  OneActive' /\ \A c \in Confs, n \in Attempts : JobInStep(c, n)'
<1>1. OneActive /\ \A c \in Confs, n \in Attempts : JobInStep(c, n)
  BY DEF IInv, DeliveryInv
<1> QED BY <1>1 DEF OneActive, JobInStep, Active

\* Moving the handler of an active job.
LEMMA GotoFrame ==
  ASSUME IInv, NEW c \in Confs, NEW n \in Attempts, NEW s \in ExecPc, Goto(c, n, s)
  PROVE  /\ exec' \in [Confs -> [Attempts -> ExecPc]]
         /\ exec'[c][n] = s
         /\ \A d \in Confs, m \in Attempts : (d = c /\ m = n) \/ exec'[d][m] = exec[d][m]
         /\ \A d \in Confs : d = c \/ exec'[d] = exec[d]
         /\ UNCHANGED job /\ Active(c, n) => OneActive'
<1>1. exec \in [Confs -> [Attempts -> ExecPc]] /\ OneActive
  BY DEF IInv, TypeOK, DeliveryInv
<1>2. /\ exec' \in [Confs -> [Attempts -> ExecPc]]
      /\ exec'[c][n] = s
      /\ \A d \in Confs, m \in Attempts : (d = c /\ m = n) \/ exec'[d][m] = exec[d][m]
      /\ \A d \in Confs : d = c \/ exec'[d] = exec[d]
  BY <1>1 DEF Goto
<1>3. ASSUME UNCHANGED job, Active(c, n) PROVE OneActive'
  <2>1. \A d \in Confs, m \in Attempts : Active(d, m)' => Active(d, m)
    BY <1>2, <1>3 DEF Active
  <2> QED BY <1>1, <2>1 DEF OneActive
<1> QED BY <1>2, <1>3

----------------------------------------------------------------------------
(* The handler *)

\* Between claim, load, call and answer the handler changes nothing but its place.
LEMMA HandlerMoves ==
  ASSUME IInv, NEW c \in Confs, NEW n \in Attempts,
         Load(c, n) \/ PreflightFails(c, n) \/ Answer(c, n) \/ AnswerUnreadable(c, n)
           \/ RecordingFails(c, n)
  PROVE  IInv'
<1>1. /\ exec \in [Confs -> [Attempts -> ExecPc]] /\ prov \in [Confs -> [Attempts -> Request]]
      /\ budget \in Budget
      /\ \A d \in Confs, m \in Attempts : JobInStep(d, m) /\ RequestInStep(d, m)
  BY DEF IInv, TypeOK, DeliveryInv, Budget
<1>2. UNCHANGED <<report, intent, attempt, job, graced, prov, query>>
  BY DEF Load, PreflightFails, Answer, AnswerUnreadable, RecordingFails
<1>3. budget' \in Budget /\ (budget' = budget \/ budget'.faults = budget.faults - 1)
  BY <1>1, BudgetUpdates
     DEF IInv, Load, PreflightFails, Answer, AnswerUnreadable, RecordingFails
<1>4. /\ NoFault' => NoFault
      /\ NoFault' => budget' = budget
      /\ budget'.faults <= MaxFaults
  BY <1>1, <1>3, FaultsFall DEF Budget
<1>5. PICK t \in ExecPc :
        /\ Goto(c, n, t)
        /\ exec[c][n] \notin {"none", "mark"} /\ t \notin {"none", "mark", "claimed", "calling"}
        /\ t = "loaded" => exec[c][n] = "claimed"
        /\ t \in Attempting => exec[c][n] \in Attempting
        /\ t = "succeeded" => prov[c][n] = "landed"
        /\ t = "failed" /\ NoFault' => prov[c][n] \notin {"sent", "landed"}
  <2>1. CASE Load(c, n)
    BY <2>1 DEF Load, ExecPc, Attempting, Result
  <2>2. CASE PreflightFails(c, n)
    <3>1. prov[c][n] = "none"
      BY <1>1, <2>2 DEF PreflightFails, RequestInStep
    <3> QED BY <2>2, <3>1 DEF PreflightFails, ExecPc, Attempting, Result
  <2>3. CASE Answer(c, n)
    BY <2>3 DEF Answer, ExecPc, Attempting, Result
  <2>4. CASE AnswerUnreadable(c, n) \/ RecordingFails(c, n)
    <3>1. ~NoFault'
      BY <2>4, <1>1, <1>4 DEF AnswerUnreadable, RecordingFails, Budget
    <3> QED BY <2>4, <3>1 DEF AnswerUnreadable, RecordingFails, ExecPc, Attempting, Result
  <2> QED BY <2>1, <2>2, <2>3, <2>4
<1>6. /\ exec' \in [Confs -> [Attempts -> ExecPc]] /\ exec'[c][n] = t /\ OneActive'
      /\ \A d \in Confs, m \in Attempts : (d = c /\ m = n) \/ exec'[d][m] = exec[d][m]
  BY <1>2, <1>5, GotoFrame DEF Active
<1>7. TypeOK'
  BY <1>2, <1>3, <1>6 DEF IInv, TypeOK, Budget
<1>8. ASSUME NEW d \in Confs, NEW m \in Attempts PROVE JobInStep(d, m)'
  <2>1. CASE d = c /\ m = n
    BY <2>1, <1>1, <1>2, <1>5, <1>6 DEF JobInStep, Active
  <2>2. CASE ~(d = c /\ m = n)
    BY <2>2, <1>1, <1>2, <1>6 DEF JobInStep, Active
  <2> QED BY <2>1, <2>2
<1>9. ASSUME NEW d \in Confs, NEW m \in Attempts PROVE RequestInStep(d, m)'
  BY <1>1, <1>2, <1>4, <1>5, <1>6 DEF RequestInStep
<1>10. /\ \A d \in Confs : QueryInStep(d)' /\ (intent'[d].status = "succeeded" => Landed(d)' # {})
       /\ \A d \in Confs, m \in Attempts : AbsentBefore(d, m)'
  BY <1>2, <1>4, QueryFrame, AbsentFrame
<1> QED BY <1>4, <1>6, <1>7, <1>8, <1>9, <1>10 DEF IInv, DeliveryInv

\* A claim finds no other job of the type at work.
LEMMA ClaimStep ==
  ASSUME IInv, NEW c \in Confs, NEW n \in Attempts, Claim(c, n)
  PROVE  IInv'
<1>1. /\ exec \in [Confs -> [Attempts -> ExecPc]] /\ job \in [Confs -> [Attempts -> JobRow]]
      /\ \A d \in Confs, m \in Attempts : JobInStep(d, m) /\ RequestInStep(d, m)
  BY DEF IInv, TypeOK, DeliveryInv
<1>2. UNCHANGED <<report, intent, attempt, graced, prov, query, budget>> /\ job[c][n] = "queued"
  BY DEF Claim
<1>3. \A d \in Confs, m \in Attempts : ~Active(d, m)
  BY DEF Claim, Active, Orphan
<1>4. /\ exec' \in [Confs -> [Attempts -> ExecPc]] /\ exec'[c][n] = "claimed"
      /\ \A d \in Confs, m \in Attempts : (d = c /\ m = n) \/ exec'[d][m] = exec[d][m]
  BY GotoFrame DEF Claim, ExecPc
<1>5. /\ job' \in [Confs -> [Attempts -> JobRow]] /\ job'[c][n] = "running"
      /\ \A d \in Confs, m \in Attempts : (d = c /\ m = n) \/ job'[d][m] = job[d][m]
  BY <1>1 DEF Claim, JobRow
<1>6. TypeOK'
  BY <1>2, <1>4, <1>5 DEF IInv, TypeOK
<1>7. OneActive'
  BY <1>3, <1>4, <1>5 DEF OneActive, Active
<1>8. ASSUME NEW d \in Confs, NEW m \in Attempts PROVE JobInStep(d, m)'
  <2>1. CASE d = c /\ m = n
    BY <2>1, <1>1, <1>2, <1>4, <1>5 DEF JobInStep, Active, Attempting, Result
  <2>2. CASE ~(d = c /\ m = n)
    BY <2>2, <1>1, <1>2, <1>4, <1>5 DEF JobInStep, Active
  <2> QED BY <2>1, <2>2
<1>9. ASSUME NEW d \in Confs, NEW m \in Attempts PROVE RequestInStep(d, m)'
  BY <1>1, <1>2, <1>4 DEF RequestInStep, NoFault
<1>10. /\ \A d \in Confs : QueryInStep(d)' /\ (intent'[d].status = "succeeded" => Landed(d)' # {})
       /\ \A d \in Confs, m \in Attempts : AbsentBefore(d, m)'
  BY <1>2, QueryFrame, AbsentFrame DEF NoFault
<1> QED BY <1>2, <1>6, <1>7, <1>8, <1>9, <1>10 DEF IInv, DeliveryInv

\* The end of a job, of its execution or by the recovery after a crash.
LEMMA EndJobStep ==
  ASSUME IInv, NEW c \in Confs, NEW n \in Attempts, EndJob(c, n) \/ RecoverJob(c, n)
  PROVE  IInv'
<1>1. /\ exec \in [Confs -> [Attempts -> ExecPc]] /\ job \in [Confs -> [Attempts -> JobRow]]
      /\ OneActive
      /\ \A d \in Confs, m \in Attempts : JobInStep(d, m) /\ RequestInStep(d, m)
  BY DEF IInv, TypeOK, DeliveryInv
<1>2. UNCHANGED <<report, intent, attempt, graced, prov, query, budget>>
  BY DEF EndJob, RecoverJob
<1>3. Active(c, n)
  BY DEF EndJob, RecoverJob, Orphan, Active
<1>4. /\ exec' \in [Confs -> [Attempts -> ExecPc]] /\ exec'[c][n] \in {"none", "mark"}
      /\ \A d \in Confs, m \in Attempts : (d = c /\ m = n) \/ exec'[d][m] = exec[d][m]
  BY GotoFrame DEF EndJob, RecoverJob, ExecPc
<1>5. /\ job' \in [Confs -> [Attempts -> JobRow]] /\ job'[c][n] \in {"succeeded", "unknown"}
      /\ \A d \in Confs, m \in Attempts : (d = c /\ m = n) \/ job'[d][m] = job[d][m]
  <2>1. PICK r \in {"succeeded", "unknown"} : job' = [job EXCEPT ![c][n] = r]
    BY DEF EndJob, RecoverJob
  <2> QED BY <1>1, <2>1 DEF JobRow
<1>6. TypeOK'
  BY <1>2, <1>4, <1>5 DEF IInv, TypeOK
<1>7. OneActive'
  BY <1>1, <1>3, <1>4, <1>5 DEF OneActive, Active
<1>8. ASSUME NEW d \in Confs, NEW m \in Attempts PROVE JobInStep(d, m)'
  <2>1. CASE d = c /\ m = n
    <3>1. job[c][n] = "running"
      BY <1>1 DEF EndJob, RecoverJob, Orphan, JobInStep
    <3> QED BY <2>1, <3>1, <1>1, <1>2, <1>3, <1>4, <1>5 DEF JobInStep, Active, Attempting, Result
  <2>2. CASE ~(d = c /\ m = n)
    BY <2>2, <1>1, <1>2, <1>4, <1>5 DEF JobInStep, Active
  <2> QED BY <2>1, <2>2
<1>9. ASSUME NEW d \in Confs, NEW m \in Attempts PROVE RequestInStep(d, m)'
  BY <1>1, <1>2, <1>4 DEF RequestInStep, NoFault
<1>10. /\ \A d \in Confs : QueryInStep(d)' /\ (intent'[d].status = "succeeded" => Landed(d)' # {})
       /\ \A d \in Confs, m \in Attempts : AbsentBefore(d, m)'
  BY <1>2, QueryFrame, AbsentFrame DEF NoFault
<1> QED BY <1>2, <1>6, <1>7, <1>8, <1>9, <1>10 DEF IInv, DeliveryInv

\* The request leaves: nothing of the intent has landed before.
LEMMA SendStep ==
  ASSUME IInv, NEW c \in Confs, NEW n \in Attempts, Send(c, n)
  PROVE  IInv'
<1>1. /\ exec \in [Confs -> [Attempts -> ExecPc]] /\ prov \in [Confs -> [Attempts -> Request]]
      /\ \A d \in Confs, m \in Attempts :
           JobInStep(d, m) /\ RequestInStep(d, m) /\ AbsentBefore(d, m)
      /\ \A d \in Confs : QueryInStep(d) /\ (intent[d].status = "succeeded" => Landed(d) # {})
  BY DEF IInv, TypeOK, DeliveryInv
<1>2. UNCHANGED <<report, intent, attempt, job, graced, query, budget>> /\ exec[c][n] = "calling"
  BY DEF Send
<1>3. n = intent[c].attempts /\ intent[c].status = "running" /\ attempt[c][n] = "running"
  BY <1>1, <1>2 DEF JobInStep, Attempting
<1>4. /\ exec' \in [Confs -> [Attempts -> ExecPc]] /\ exec'[c][n] = "sent" /\ OneActive'
      /\ \A d \in Confs, m \in Attempts : (d = c /\ m = n) \/ exec'[d][m] = exec[d][m]
  BY GotoFrame DEF Send, ExecPc, Active
<1>5. /\ prov' \in [Confs -> [Attempts -> Request]] /\ prov'[c][n] = "sent" /\ prov[c][n] = "none"
      /\ \A d \in Confs, m \in Attempts : (d = c /\ m = n) \/ prov'[d][m] = prov[d][m]
  BY <1>1, <1>2 DEF Send, Request, RequestInStep
<1>6. TypeOK'
  BY <1>2, <1>4, <1>5 DEF IInv, TypeOK
<1>7. ASSUME NEW d \in Confs, NEW m \in Attempts PROVE JobInStep(d, m)'
  <2>1. CASE d = c /\ m = n
    BY <2>1, <1>1, <1>2, <1>4 DEF JobInStep, Active, Attempting
  <2>2. CASE ~(d = c /\ m = n)
    BY <2>2, <1>1, <1>2, <1>4 DEF JobInStep, Active
  <2> QED BY <2>1, <2>2
<1>8. ASSUME NEW d \in Confs, NEW m \in Attempts PROVE RequestInStep(d, m)' /\ AbsentBefore(d, m)'
  <2>1. CASE d = c /\ m = n
    BY <2>1, <1>2, <1>3, <1>4 DEF RequestInStep, AbsentBefore, Attempts
  <2>2. CASE ~(d = c /\ m = n)
    BY <2>2, <1>1, <1>2, <1>4, <1>5 DEF RequestInStep, AbsentBefore, MayExist, NoFault
  <2> QED BY <2>1, <2>2
<1>9. ASSUME NEW d \in Confs
      PROVE  QueryInStep(d)' /\ (intent'[d].status = "succeeded" => Landed(d)' # {})
  <2>1. Landed(d)' = Landed(d)
    BY <1>5 DEF Landed
  <2>2. CASE d = c
    BY <2>1, <2>2, <1>1, <1>2, <1>3 DEF QueryInStep, Unresolved, Result
  <2>3. CASE d # c
    BY <2>1, <2>3, <1>1, <1>2, <1>5 DEF QueryInStep, Unresolved, MayExist, NoFault
  <2> QED BY <2>2, <2>3
<1> QED BY <1>2, <1>4, <1>6, <1>7, <1>8, <1>9 DEF IInv, DeliveryInv

\* The next attempt starts: no request of an earlier one can still land.
LEMMA StartStep ==
  ASSUME IInv, NEW c \in Confs, NEW n \in Attempts, StartAttempt(c, n),
         intent[c].status = "pending", Current(c)
  PROVE  IInv'
<1>1. /\ exec \in [Confs -> [Attempts -> ExecPc]] /\ attempt \in [Confs -> [Attempts -> AttemptRow]]
      /\ intent \in [Confs -> Intent] /\ OneActive
      /\ \A d \in Confs, m \in Attempts :
           JobInStep(d, m) /\ RequestInStep(d, m) /\ AbsentBefore(d, m)
      /\ \A d \in Confs : QueryInStep(d) /\ (intent[d].status = "succeeded" => Landed(d) # {})
  BY DEF IInv, TypeOK, DeliveryInv
<1>2. /\ UNCHANGED <<report, job, graced, prov, query, budget>> /\ exec[c][n] = "loaded"
      /\ Goto(c, n, "calling")
      /\ attempt' = [attempt EXCEPT ![c][n] = "running"]
      /\ intent' = [intent EXCEPT ![c].status = "running", ![c].attempts = @ + 1]
  BY DEF StartAttempt
<1>3. n = intent[c].attempts + 1 /\ job[c][n] = "running" /\ Active(c, n)
  BY <1>1, <1>2 DEF JobInStep, Active
<1>4. /\ exec' \in [Confs -> [Attempts -> ExecPc]] /\ exec'[c][n] = "calling" /\ OneActive'
      /\ \A d \in Confs, m \in Attempts : (d = c /\ m = n) \/ exec'[d][m] = exec[d][m]
  BY <1>2, <1>3, GotoFrame DEF ExecPc
<1>5. /\ attempt' \in [Confs -> [Attempts -> AttemptRow]] /\ attempt'[c][n] = "running"
      /\ \A d \in Confs, m \in Attempts : (d = c /\ m = n) \/ attempt'[d][m] = attempt[d][m]
  BY <1>1, <1>2 DEF AttemptRow
<1>6. /\ intent' \in [Confs -> Intent]
      /\ intent'[c].status = "running" /\ intent'[c].attempts = n
      /\ \A d \in Confs : d = c \/ intent'[d] = intent[d]
  <2>1. intent[c].attempts + 1 <= MaxAttempts
    BY <1>3, DeliveryAssumption DEF Attempts
  <2> QED BY <1>1, <1>2, <1>3, <2>1, StartUpdate
<1>7. intent[c].attempts \in Nat /\ Attempts \subseteq Nat
  BY <1>1, DeliveryAssumption DEF Intent, Attempts
<1>8. TypeOK'
  BY <1>2, <1>4, <1>5, <1>6 DEF IInv, TypeOK
<1>9. ASSUME NEW d \in Confs, NEW m \in Attempts
      PROVE  JobInStep(d, m)' /\ RequestInStep(d, m)' /\ AbsentBefore(d, m)'
  <2>1. CASE d # c
    BY <2>1, <1>1, <1>2, <1>4, <1>5, <1>6
       DEF JobInStep, Active, RequestInStep, AbsentBefore, MayExist, NoFault
  <2>2. CASE d = c /\ m # n
    <3>1. ~Active(c, m) /\ job[c][m] # "queued"
      BY <1>1, <1>3, <2>2 DEF OneActive, JobInStep
    <3>2. JobInStep(c, m)'
      BY <1>2, <1>4, <1>6, <2>2, <3>1 DEF JobInStep, Active, Attempting, Result
    <3>3. RequestInStep(c, m)'
      BY <1>1, <1>2, <1>3, <1>4, <1>6, <1>7, <2>2 DEF RequestInStep, NoFault
    <3>4. AbsentBefore(c, m)'
      BY <1>1, <1>2 DEF AbsentBefore, MayExist, NoFault
    <3> QED BY <2>2, <3>2, <3>3, <3>4
  <2>3. CASE d = c /\ m = n
    <3>1. JobInStep(c, n)'
      BY <1>2, <1>3, <1>4, <1>5, <1>6, <1>7 DEF JobInStep, Active, Attempting
    <3>2. prov[c][n] = "none"
      BY <1>1, <1>3, <1>7 DEF RequestInStep
    <3> QED BY <1>2, <1>4, <1>6, <2>3, <3>1, <3>2 DEF RequestInStep, AbsentBefore, MayExist
  <2> QED BY <2>1, <2>2, <2>3
<1>10. ASSUME NEW d \in Confs
       PROVE  QueryInStep(d)' /\ (intent'[d].status = "succeeded" => Landed(d)' # {})
  <2>1. Landed(d)' = Landed(d)
    BY <1>2 DEF Landed
  <2>2. CASE d = c
    BY <2>1, <2>2, <1>1, <1>2, <1>5, <1>6 DEF QueryInStep, Unresolved, Result
  <2>3. CASE d # c
    <3>1. intent'[d] = intent[d] /\ \A m \in Attempts : attempt'[d][m] = attempt[d][m]
      BY <1>5, <1>6, <2>3
    <3>2. UNCHANGED <<graced, prov, query, budget>>
      BY <1>2
    <3> QED BY <1>1, <2>1, <3>1, <3>2 DEF QueryInStep, Unresolved, MayExist, NoFault
  <2> QED BY <2>2, <2>3
<1> QED BY <1>2, <1>4, <1>8, <1>9, <1>10 DEF IInv, DeliveryInv

\* An invalidated submission is cancelled, or left to whoever changed it.
LEMMA StartMissesStep ==
  ASSUME IInv, NEW c \in Confs, NEW n \in Attempts, StartAttempt(c, n),
         ~(intent[c].status = "pending" /\ Current(c))
  PROVE  IInv'
<1>1. /\ exec \in [Confs -> [Attempts -> ExecPc]] /\ intent \in [Confs -> Intent]
      /\ \A d \in Confs, m \in Attempts :
           JobInStep(d, m) /\ RequestInStep(d, m) /\ AbsentBefore(d, m)
      /\ \A d \in Confs : QueryInStep(d) /\ (intent[d].status = "succeeded" => Landed(d) # {})
  BY DEF IInv, TypeOK, DeliveryInv
<1>2. /\ UNCHANGED <<report, attempt, job, graced, prov, query, budget>> /\ exec[c][n] = "loaded"
      /\ \E s \in {"returned", "thrown"} : Goto(c, n, s)
      /\ \/ intent' = intent
         \/ intent[c].status = "pending" /\ intent' = [intent EXCEPT ![c].status = "cancelled"]
  BY DEF StartAttempt
<1>3. /\ exec' \in [Confs -> [Attempts -> ExecPc]] /\ exec'[c][n] \in {"returned", "thrown"}
      /\ OneActive'
      /\ \A d \in Confs, m \in Attempts : (d = c /\ m = n) \/ exec'[d][m] = exec[d][m]
  BY <1>2, GotoFrame DEF ExecPc, Active
<1>4. /\ intent' \in [Confs -> Intent]
      /\ \A d \in Confs :
           /\ intent'[d].attempts = intent[d].attempts
           /\ \/ intent'[d].status = intent[d].status
              \/ d = c /\ intent[d].status = "pending" /\ intent'[d].status = "cancelled"
  BY <1>1, <1>2, StatusUpdate DEF IntentStatus
<1>5. TypeOK'
  BY <1>2, <1>3, <1>4 DEF IInv, TypeOK
<1>6. ASSUME NEW d \in Confs, NEW m \in Attempts
      PROVE  JobInStep(d, m)' /\ RequestInStep(d, m)' /\ AbsentBefore(d, m)'
  <2>1. n = intent[c].attempts + 1 /\ job[c][n] = "running" /\ Active(c, n)
    BY <1>1, <1>2 DEF JobInStep, Active
  <2>2. CASE d = c /\ m = n
    BY <2>1, <2>2, <1>1, <1>2, <1>3, <1>4
       DEF JobInStep, Active, RequestInStep, AbsentBefore, MayExist, NoFault, Attempting, Result
  <2>3. CASE ~(d = c /\ m = n)
    <3>1. d = c => ~Active(d, m) /\ job[d][m] # "queued"
      BY <1>1, <2>1, <2>3 DEF IInv, DeliveryInv, OneActive, JobInStep
    <3> QED BY <2>3, <3>1, <1>1, <1>2, <1>3, <1>4
            DEF JobInStep, Active, RequestInStep, AbsentBefore, MayExist, NoFault, Attempting, Result
  <2> QED BY <2>2, <2>3
<1>7. ASSUME NEW d \in Confs
      PROVE  QueryInStep(d)' /\ (intent'[d].status = "succeeded" => Landed(d)' # {})
  <2>1. Landed(d)' = Landed(d)
    BY <1>2 DEF Landed
  <2> QED BY <2>1, <1>1, <1>2, <1>4 DEF QueryInStep, Unresolved, MayExist, NoFault
<1> QED BY <1>2, <1>3, <1>5, <1>6, <1>7 DEF IInv, DeliveryInv

----------------------------------------------------------------------------
(* Decisions on the fate of an attempt *)

\* The end of an attempt, its marking, a query result and a human decision end
\* what was under way for the intent.  Each must say that no request can have
\* landed or land before the intent may be retried, and that one has landed
\* before it succeeds.
LEMMA Decision ==
  ASSUME IInv, NEW c \in Confs,
         UNCHANGED <<job, prov, budget>>,
         \A d \in Confs : d = c \/ (/\ intent'[d] = intent[d] /\ attempt'[d] = attempt[d]
                                    /\ exec'[d] = exec[d] /\ graced'[d] = graced[d]
                                    /\ query'[d] = query[d]),
         intent[c].status \in {"running", "unknown", "needs_review"},
         intent'[c].status \in {"succeeded", "failed", "unknown", "needs_review"},
         intent'[c].attempts = intent[c].attempts,
         \A n \in Attempts :
           /\ exec'[c][n] \notin Attempting
           /\ \/ exec'[c][n] \in {exec[c][n], "none"}
              \/ exec'[c][n] \in {"returned", "thrown"} /\ exec[c][n] \notin {"none", "mark"},
         query'[c] = "none",
         graced'[c] = FALSE \/ (graced'[c] = graced[c] /\ attempt'[c] = attempt[c]),
         intent'[c].status = "failed" /\ NoFault => \A n \in Attempts : ~MayExist(c, n),
         intent'[c].status = "succeeded" => Landed(c) # {}
  PROVE  DeliveryInv'
<1>1. /\ OneActive /\ budget.faults <= MaxFaults
      /\ \A d \in Confs, m \in Attempts :
           JobInStep(d, m) /\ RequestInStep(d, m) /\ AbsentBefore(d, m)
      /\ \A d \in Confs : QueryInStep(d) /\ (intent[d].status = "succeeded" => Landed(d) # {})
  BY DEF IInv, DeliveryInv
<1>2. \A d \in Confs, m \in Attempts : Active(d, m)' => Active(d, m)
  BY DEF Active
<1>3. OneActive'
  BY <1>1, <1>2 DEF OneActive
<1>4. ASSUME NEW m \in Attempts PROVE JobInStep(c, m)'
  BY <1>1, <1>2 DEF JobInStep, Attempting
<1>5. ASSUME NEW m \in Attempts PROVE RequestInStep(c, m)' /\ AbsentBefore(c, m)'
  BY <1>1 DEF RequestInStep, AbsentBefore, MayExist, NoFault, Attempting, Result
<1>6. ASSUME NEW d \in Confs, d # c, NEW m \in Attempts
      PROVE  JobInStep(d, m)' /\ RequestInStep(d, m)' /\ AbsentBefore(d, m)'
  BY <1>1, <1>6 DEF JobInStep, RequestInStep, AbsentBefore, Active, MayExist, NoFault
<1>7. ASSUME NEW d \in Confs
      PROVE  QueryInStep(d)' /\ (intent'[d].status = "succeeded" => Landed(d)' # {})
  <2>1. Landed(d)' = Landed(d)
    BY DEF Landed
  <2>2. CASE d = c
    BY <2>1, <2>2, <1>1 DEF QueryInStep
  <2>3. CASE d # c
    BY <2>1, <2>3, <1>1 DEF QueryInStep, Unresolved, MayExist, NoFault
  <2> QED BY <2>2, <2>3
<1> QED BY <1>1, <1>3, <1>4, <1>5, <1>6, <1>7 DEF DeliveryInv

\* The end of an attempt is recorded.
LEMMA FinishStep ==
  ASSUME IInv, NEW c \in Confs, NEW n \in Attempts, FinishAttempt(c, n)
  PROVE  IInv'
<1> DEFINE result == exec[c][n]
           s == IF result = "unknown" THEN "thrown" ELSE "returned"
<1>1. /\ exec \in [Confs -> [Attempts -> ExecPc]] /\ attempt \in [Confs -> [Attempts -> AttemptRow]]
      /\ intent \in [Confs -> Intent] /\ graced \in [Confs -> BOOLEAN] /\ report \in Report
      /\ OneActive
      /\ \A d \in Confs, m \in Attempts :
           JobInStep(d, m) /\ RequestInStep(d, m) /\ AbsentBefore(d, m)
      /\ \A d \in Confs : QueryInStep(d)
  BY DEF IInv, TypeOK, DeliveryInv
<1>2. result \in Result /\ n = intent[c].attempts /\ intent[c].status = "running"
  BY <1>1 DEF FinishAttempt, JobInStep, Attempting
<1>3. /\ UNCHANGED <<job, prov, query, budget>> /\ Goto(c, n, s)
      /\ intent' = [intent EXCEPT ![c].status = result, ![c].recovery = RecoveryOf(result)]
      /\ attempt' = [attempt EXCEPT ![c][n] = result]
      /\ graced' = [graced EXCEPT ![c] = FALSE]
      /\ report' = [report EXCEPT !.log = LogOf(result)]
  BY <1>2 DEF FinishAttempt
<1>4. /\ exec' \in [Confs -> [Attempts -> ExecPc]] /\ exec'[c][n] = s
      /\ \A d \in Confs, m \in Attempts : (d = c /\ m = n) \/ exec'[d][m] = exec[d][m]
      /\ \A d \in Confs : d = c \/ exec'[d] = exec[d]
  BY <1>3, GotoFrame DEF ExecPc
<1>5. /\ attempt' \in [Confs -> [Attempts -> AttemptRow]]
      /\ graced' \in [Confs -> BOOLEAN] /\ graced'[c] = FALSE
      /\ \A d \in Confs : d = c \/ (attempt'[d] = attempt[d] /\ graced'[d] = graced[d])
  BY <1>1, <1>2, <1>3 DEF AttemptRow
<1>6. result \in IntentStatus /\ RecoveryOf(result) \in RecoveryStatus /\ LogOf(result) \in LogState
  BY <1>2 DEF Result, IntentStatus, RecoveryStatus, RecoveryOf, LogOf, LogState
<1>7. /\ intent' \in [Confs -> Intent] /\ intent'[c].status = result
      /\ intent'[c].attempts = intent[c].attempts
      /\ \A d \in Confs : d = c \/ intent'[d] = intent[d]
  <2> HIDE DEF result
  <2> QED BY <1>1, <1>3, <1>6, OutcomeUpdate
<1>8. report' \in Report
  BY <1>1, <1>3, <1>6, ReportUpdates
<1>9. TypeOK'
  BY <1>3, <1>4, <1>5, <1>7, <1>8 DEF IInv, TypeOK
<1>10. ASSUME NEW m \in Attempts
       PROVE  /\ exec'[c][m] \notin Attempting
              /\ \/ exec'[c][m] \in {exec[c][m], "none"}
                 \/ exec'[c][m] \in {"returned", "thrown"} /\ exec[c][m] \notin {"none", "mark"}
  <2>1. CASE m = n
    BY <2>1, <1>2, <1>4 DEF Attempting, Result
  <2>2. CASE m # n
    <3>1. ~Active(c, m)
      BY <1>1, <1>2, <2>2 DEF OneActive, Active, Result
    <3> QED BY <2>2, <3>1, <1>4 DEF Active, Attempting, Result
  <2> QED BY <2>1, <2>2
<1>11. query'[c] = "none"
  BY <1>1, <1>2, <1>3 DEF QueryInStep, Unresolved
<1>12. intent'[c].status = "failed" /\ NoFault => \A m \in Attempts : ~MayExist(c, m)
  BY <1>1, <1>2, <1>7 DEF RequestInStep, AbsentBefore, MayExist
<1>13. intent'[c].status = "succeeded" => Landed(c) # {}
  BY <1>1, <1>7 DEF RequestInStep, Landed
<1>14. DeliveryInv'
  <2>1. intent'[c].status \in {"succeeded", "failed", "unknown", "needs_review"}
    BY <1>2, <1>7 DEF Result
  <2>2. \A d \in Confs : d = c \/ (/\ intent'[d] = intent[d] /\ attempt'[d] = attempt[d]
                                   /\ exec'[d] = exec[d] /\ graced'[d] = graced[d]
                                   /\ query'[d] = query[d])
    BY <1>3, <1>4, <1>5, <1>7
  <2> HIDE DEF result, s
  <2> QED BY <1>2, <1>3, <1>5, <1>7, <1>10, <1>11, <1>12, <1>13, <2>1, <2>2, Decision
<1> QED BY <1>9, <1>14 DEF IInv

\* The marking of a target whose job ended unknown.
LEMMA MarkStep ==
  ASSUME IInv, NEW c \in Confs, NEW n \in Attempts, Mark(c, n)
  PROVE  IInv'
<1>1. /\ exec \in [Confs -> [Attempts -> ExecPc]] /\ intent \in [Confs -> Intent]
      /\ report \in Report /\ OneActive
      /\ \A d \in Confs, m \in Attempts :
           JobInStep(d, m) /\ RequestInStep(d, m) /\ AbsentBefore(d, m)
      /\ \A d \in Confs : QueryInStep(d)
  BY DEF IInv, TypeOK, DeliveryInv
<1>2. UNCHANGED <<attempt, job, graced, prov, query, budget>> /\ exec[c][n] = "mark"
  BY DEF Mark, MarkAs
<1>3. /\ exec' \in [Confs -> [Attempts -> ExecPc]] /\ exec'[c][n] = "none" /\ OneActive'
      /\ \A d \in Confs, m \in Attempts : (d = c /\ m = n) \/ exec'[d][m] = exec[d][m]
      /\ \A d \in Confs : d = c \/ exec'[d] = exec[d]
  <2>1. Goto(c, n, "none")
    BY DEF Mark, MarkAs
  <2>2. Active(c, n) /\ "none" \in ExecPc
    BY <1>2 DEF Active, ExecPc
  <2> QED BY <2>1, <2>2, <1>2, GotoFrame
<1>4. CASE intent[c].status = "running"
  <2>1. /\ intent' = [intent EXCEPT ![c].status = "unknown", ![c].recovery = "pending"]
        /\ report' = [report EXCEPT !.log = "unknown"]
    BY <1>4 DEF Mark, MarkAs, RecoveryOf
  <2>2. /\ intent' \in [Confs -> Intent] /\ intent'[c].status = "unknown"
        /\ intent'[c].attempts = intent[c].attempts
        /\ \A d \in Confs : d = c \/ intent'[d] = intent[d]
    BY <1>1, <2>1, OutcomeUpdate DEF IntentStatus, RecoveryStatus
  <2>3. TypeOK'
    <3>1. report' \in Report
      BY <1>1, <2>1, ReportUpdates DEF LogState
    <3> QED BY <1>2, <1>3, <2>2, <3>1 DEF IInv, TypeOK
  <2>4. ASSUME NEW m \in Attempts
        PROVE  exec'[c][m] \notin Attempting /\ exec'[c][m] \in {exec[c][m], "none"}
    <3>1. m = n \/ ~Active(c, m)
      BY <1>1, <1>2 DEF OneActive, Active
    <3> QED BY <3>1, <1>3 DEF Active, Attempting, Result
  <2>5. query'[c] = "none"
    BY <1>1, <1>2, <1>4 DEF QueryInStep, Unresolved
  <2>6. \A d \in Confs : d = c \/ (/\ intent'[d] = intent[d] /\ attempt'[d] = attempt[d]
                                   /\ exec'[d] = exec[d] /\ graced'[d] = graced[d]
                                   /\ query'[d] = query[d])
    BY <1>2, <1>3, <2>2
  <2>7. DeliveryInv'
    BY <1>2, <1>4, <2>2, <2>4, <2>5, <2>6, Decision
  <2> QED BY <2>3, <2>7 DEF IInv
<1>5. CASE intent[c].status # "running"
  <2>1. UNCHANGED <<report, intent>>
    BY <1>5 DEF Mark, MarkAs
  <2>2. TypeOK'
    BY <1>2, <1>3, <2>1 DEF IInv, TypeOK
  <2>3. ASSUME NEW d \in Confs, NEW m \in Attempts PROVE JobInStep(d, m)' /\ RequestInStep(d, m)'
    <3>1. CASE d = c /\ m = n
      BY <3>1, <1>1, <1>2, <1>3, <2>1
         DEF JobInStep, RequestInStep, Active, Attempting, Result
    <3>2. CASE ~(d = c /\ m = n)
      BY <3>2, <1>1, <1>2, <1>3, <2>1 DEF JobInStep, RequestInStep, Active, NoFault
    <3> QED BY <3>1, <3>2
  <2>4. /\ \A d \in Confs :
             QueryInStep(d)' /\ (intent'[d].status = "succeeded" => Landed(d)' # {})
        /\ \A d \in Confs, m \in Attempts : AbsentBefore(d, m)'
    BY <1>2, <2>1, QueryFrame, AbsentFrame DEF NoFault
  <2> QED BY <1>2, <1>3, <2>2, <2>3, <2>4 DEF IInv, DeliveryInv
<1> QED BY <1>4, <1>5

----------------------------------------------------------------------------
(* The recovery of an unknown result *)

LEMMA AnsweredFacts ==
  ASSUME NEW V, NEW complete \in BOOLEAN
  PROVE  /\ Answered(V, complete) \in QueryState \ {"none"}
         /\ Answered(V, complete) = "no_match" => V = {}
         /\ Answered(V, complete) = "one_match" => V # {}
<1>1. Cardinality({}) = 0
  BY FS_EmptySet
<1> QED BY <1>1 DEF Answered, QueryState

\* A query that finds nothing after the grace has seen the request of the last attempt.
LEMMA QueryStep ==
  ASSUME IInv, NEW c \in Confs, Query(c)
  PROVE  IInv'
<1>1. /\ query \in [Confs -> QueryState]
      /\ \A d \in Confs : QueryInStep(d) /\ (intent[d].status = "succeeded" => Landed(d) # {})
  BY DEF IInv, TypeOK, DeliveryInv
<1>2. PICK found \in Findable(c), complete \in BOOLEAN :
        query' = [query EXCEPT ![c] = Answered(found, complete)]
  BY DEF Query
<1>3. /\ UNCHANGED <<report, intent, attempt, job, exec, graced, prov, budget>>
      /\ Unresolved(c) /\ attempt[c][intent[c].attempts] \in Result
  BY DEF Query
<1>4. /\ found \subseteq Landed(c)
      /\ graced[c] /\ intent[c].attempts \in Landed(c) => found # {}
  BY <1>2 DEF Findable
<1>5. /\ query' \in [Confs -> QueryState]
      /\ query'[c] = Answered(found, complete)
      /\ \A d \in Confs : d = c \/ query'[d] = query[d]
  BY <1>1, <1>2, AnsweredFacts
<1>6. TypeOK'
  BY <1>3, <1>5 DEF IInv, TypeOK
<1>7. /\ OneActive' /\ \A d \in Confs, m \in Attempts : JobInStep(d, m)'
      /\ \A d \in Confs, m \in Attempts : RequestInStep(d, m)' /\ AbsentBefore(d, m)'
  BY <1>3, JobFrame, RequestFrame, AbsentFrame DEF NoFault
<1>8. ASSUME NEW d \in Confs
      PROVE  QueryInStep(d)' /\ (intent'[d].status = "succeeded" => Landed(d)' # {})
  <2>1. Landed(d)' = Landed(d)
    BY <1>3 DEF Landed
  <2>2. CASE d = c
    <3>1. Unresolved(c)' /\ (query'[c] = "one_match" => Landed(c)' # {})
      BY <1>3, <1>4, <1>5, <2>1, <2>2, AnsweredFacts DEF Unresolved
    <3>2. ASSUME NEW n \in Attempts, n = intent[c].attempts, graced[c]
          PROVE  /\ prov[c][n] # "sent"
                 /\ query'[c] = "no_match" => ~MayExist(c, n)
      <4>1. prov[c][n] # "sent"
        BY <1>1, <1>3, <3>2 DEF QueryInStep
      <4>2. query'[c] = "no_match" => found = {}
        BY <1>2, <1>5, AnsweredFacts
      <4> QED BY <1>4, <3>2, <4>1, <4>2 DEF MayExist, Landed
    <3> QED BY <1>1, <1>3, <2>1, <2>2, <3>1, <3>2 DEF QueryInStep, MayExist
  <2>3. CASE d # c
    BY <2>1, <2>3, <1>1, <1>3, <1>5 DEF QueryInStep, Unresolved, MayExist, NoFault
  <2> QED BY <2>2, <2>3
<1> QED BY <1>3, <1>6, <1>7, <1>8 DEF IInv, DeliveryInv

LEMMA JudgedUpdate ==
  ASSUME NEW i \in Intent,
         NEW o \in {"matched", "absence_confirmed", "ambiguous", "not_found"}
  PROVE  /\ Judged(i, o) \in Intent
         /\ Judged(i, o).status = StatusAfter(o)
         /\ Judged(i, o).attempts = i.attempts
<1> DEFINE l == IF o = "not_found" THEN "recent" ELSE i.last
           i1 == [i EXCEPT !.status = StatusAfter(o)]
           i2 == [i1 EXCEPT !.recovery = o]
           i3 == [i2 EXCEPT !.last = l]
<1>1. /\ StatusAfter(o) \in IntentStatus /\ o \in RecoveryStatus
      /\ l \in {"none", "recent", "old"}
  BY DEF StatusAfter, IntentStatus, RecoveryStatus, Intent
<1>2. i1 \in Intent /\ i1.status = StatusAfter(o) /\ i1.attempts = i.attempts
  BY <1>1, IntentUpdates
<1>3. i2 \in Intent /\ i2.status = StatusAfter(o) /\ i2.attempts = i.attempts
  <2> HIDE DEF i1
  <2> QED BY <1>1, <1>2, IntentUpdates
<1>4. i3 \in Intent /\ i3.status = StatusAfter(o) /\ i3.attempts = i.attempts
  <2> HIDE DEF i2, l
  <2> QED BY <1>1, <1>3, IntentUpdates
<1>5. Judged(i, o) = i3
  BY DEF Judged, Intent
<1> QED BY <1>4, <1>5

\* The answer of a query is judged, or the query fails.
LEMMA ReconcileStep ==
  ASSUME IInv, NEW c \in Confs, Reconcile(c)
  PROVE  IInv'
<1> DEFINE o == QueryOutcome(c)
<1>1. /\ query \in [Confs -> QueryState] /\ intent \in [Confs -> Intent] /\ report \in Report
      /\ exec \in [Confs -> [Attempts -> ExecPc]]
      /\ \A d \in Confs, m \in Attempts : JobInStep(d, m) /\ AbsentBefore(d, m)
      /\ \A d \in Confs : QueryInStep(d)
  BY DEF IInv, TypeOK, DeliveryInv
<1>2. /\ UNCHANGED <<attempt, job, exec, graced, prov, budget>>
      /\ query[c] # "none" /\ query' = [query EXCEPT ![c] = "none"]
  BY DEF Reconcile
<1>3. intent[c].status \in {"unknown", "needs_review"}
  BY <1>1, <1>2 DEF QueryInStep, Unresolved
<1>4. /\ query' \in [Confs -> QueryState] /\ query'[c] = "none"
      /\ \A d \in Confs : d = c \/ query'[d] = query[d]
  BY <1>1, <1>2 DEF QueryState
<1>5. /\ o \in {"matched", "absence_confirmed", "ambiguous", "not_found"}
      /\ o = "matched" => query[c] = "one_match"
      /\ o = "absence_confirmed" => query[c] = "no_match" /\ graced[c]
  BY DEF QueryOutcome
<1>6. /\ intent' \in [Confs -> Intent] /\ report' \in Report
      /\ \A d \in Confs : d = c \/ intent'[d] = intent[d]
      /\ intent'[c].attempts = intent[c].attempts
      /\ intent'[c].status \in {StatusAfter(o), intent[c].status}
  <2>1. CASE /\ intent' = [intent EXCEPT ![c] = Judged(@, o)]
             /\ report' = [report EXCEPT !.log =
                  CASE o = "matched" -> "submitted"
                    [] o = "absence_confirmed" -> "failed"
                    [] OTHER -> @]
    <3>1. intent[c] \in Intent
      BY <1>1
    <3>2. /\ Judged(intent[c], o) \in Intent
          /\ Judged(intent[c], o).status = StatusAfter(o)
          /\ Judged(intent[c], o).attempts = intent[c].attempts
      <4> HIDE DEF o
      <4> QED BY <1>5, <3>1, JudgedUpdate
    <3>3. PICK l \in LogState : report' = [report EXCEPT !.log = l]
      <4>1. CASE o = "matched"
        BY <2>1, <4>1 DEF LogState
      <4>2. CASE o = "absence_confirmed"
        BY <2>1, <4>2 DEF LogState
      <4>3. CASE o \notin {"matched", "absence_confirmed"}
        <5>1. report.log \in LogState /\ report' = [report EXCEPT !.log = report.log]
          <6> HIDE DEF o
          <6> QED BY <1>1, <2>1, <4>3 DEF Report
        <5> QED BY <5>1
      <4> QED BY <4>1, <4>2, <4>3
    <3>4. report' \in Report
      BY <1>1, <3>3, ReportUpdates
    <3>5. intent' = [intent EXCEPT ![c] = Judged(intent[c], o)]
      BY <2>1
    <3> HIDE DEF o
    <3> QED BY <1>1, <3>2, <3>4, <3>5, IntentRow
  <2>2. CASE intent' = [intent EXCEPT ![c].recovery = "pending"] /\ UNCHANGED report
    <3> DEFINE i == [intent[c] EXCEPT !.recovery = "pending"]
    <3>1. intent[c] \in Intent
      BY <1>1
    <3>2. i \in Intent /\ i.status = intent[c].status /\ i.attempts = intent[c].attempts
      BY <3>1, IntentUpdates DEF RecoveryStatus
    <3>3. intent' = [intent EXCEPT ![c] = i]
      BY <2>2
    <3> HIDE DEF i, o
    <3> QED BY <1>1, <2>2, <3>2, <3>3, IntentRow
  <2> QED BY <2>1, <2>2 DEF Reconcile
<1>7. TypeOK'
  BY <1>2, <1>4, <1>6 DEF IInv, TypeOK
<1>8. intent'[c].status \in {"succeeded", "failed", "unknown", "needs_review"}
  BY <1>3, <1>5, <1>6 DEF StatusAfter
<1>9. intent'[c].status = "failed" /\ NoFault => \A m \in Attempts : ~MayExist(c, m)
  <2>1. intent'[c].status = "failed" => o = "absence_confirmed"
    <3> HIDE DEF o
    <3> QED BY <1>3, <1>5, <1>6 DEF StatusAfter
  <2> HIDE DEF o
  <2> QED BY <1>1, <1>5, <2>1 DEF QueryInStep, AbsentBefore
<1>10. intent'[c].status = "succeeded" => Landed(c) # {}
  <2>1. intent'[c].status = "succeeded" => o = "matched"
    <3> HIDE DEF o
    <3> QED BY <1>3, <1>5, <1>6 DEF StatusAfter
  <2> HIDE DEF o
  <2> QED BY <1>1, <1>5, <2>1 DEF QueryInStep
<1>11. \A m \in Attempts : exec'[c][m] \notin Attempting /\ exec'[c][m] = exec[c][m]
  BY <1>1, <1>2, <1>3 DEF JobInStep
<1>12. \A d \in Confs : d = c \/ (/\ intent'[d] = intent[d] /\ attempt'[d] = attempt[d]
                                  /\ exec'[d] = exec[d] /\ graced'[d] = graced[d]
                                  /\ query'[d] = query[d])
  BY <1>2, <1>4, <1>6
<1>13. DeliveryInv'
  BY <1>2, <1>3, <1>4, <1>6, <1>8, <1>9, <1>10, <1>11, <1>12, Decision
<1> QED BY <1>7, <1>13 DEF IInv

\* A human decision on an unknown result.
LEMMA ResolveStep ==
  ASSUME IInv, NEW c \in Confs, NEW delivered \in BOOLEAN, Resolve(c, delivered)
  PROVE  IInv'
<1> DEFINE s == IF delivered THEN "succeeded" ELSE "failed"
           r == IF delivered THEN "manual_succeeded" ELSE "manual_absence_confirmed"
           l == IF delivered THEN "submitted" ELSE "failed"
<1>1. /\ query \in [Confs -> QueryState] /\ intent \in [Confs -> Intent] /\ report \in Report
      /\ \A d \in Confs, m \in Attempts : JobInStep(d, m)
  BY DEF IInv, TypeOK, DeliveryInv
<1>2. /\ UNCHANGED <<attempt, job, exec, graced, prov, budget>>
      /\ query' = [query EXCEPT ![c] = "none"]
      /\ intent[c].status \in {"unknown", "needs_review"}
      /\ intent' = [intent EXCEPT ![c].status = s, ![c].recovery = r]
      /\ report' = [report EXCEPT !.log = l]
      /\ IF delivered THEN Landed(c) # {} ELSE \A n \in Attempts : ~MayExist(c, n)
  BY DEF Resolve, Unresolved, MayExist
<1>3. /\ query' \in [Confs -> QueryState] /\ query'[c] = "none"
      /\ \A d \in Confs : d = c \/ query'[d] = query[d]
  BY <1>1, <1>2 DEF QueryState
<1>4. s \in IntentStatus /\ r \in RecoveryStatus /\ l \in LogState /\ s \in {"succeeded", "failed"}
  BY DEF IntentStatus, RecoveryStatus, LogState
<1>5. /\ intent' \in [Confs -> Intent] /\ report' \in Report
      /\ intent'[c].status = s /\ intent'[c].attempts = intent[c].attempts
      /\ \A d \in Confs : d = c \/ intent'[d] = intent[d]
  <2> HIDE DEF s, r, l
  <2> QED BY <1>1, <1>2, <1>4, OutcomeUpdate, ReportUpdates
<1>6. TypeOK'
  BY <1>2, <1>3, <1>5 DEF IInv, TypeOK
<1>7. \A m \in Attempts : exec'[c][m] \notin Attempting /\ exec'[c][m] = exec[c][m]
  BY <1>1, <1>2 DEF JobInStep
<1>8. /\ intent'[c].status = "failed" => \A m \in Attempts : ~MayExist(c, m)
      /\ intent'[c].status = "succeeded" => Landed(c) # {}
  BY <1>2, <1>5
<1>9. \A d \in Confs : d = c \/ (/\ intent'[d] = intent[d] /\ attempt'[d] = attempt[d]
                                 /\ exec'[d] = exec[d] /\ graced'[d] = graced[d]
                                 /\ query'[d] = query[d])
  BY <1>2, <1>3, <1>5
<1>10. DeliveryInv'
  <2> HIDE DEF s, r, l
  <2> QED BY <1>2, <1>3, <1>4, <1>5, <1>7, <1>8, <1>9, Decision
<1> QED BY <1>6, <1>10 DEF IInv

----------------------------------------------------------------------------
(* The report, its intents and their jobs *)

\* A submission and a controlled retry queue the job of the next attempt.
LEMMA EnqueueStep ==
  ASSUME IInv, NEW c \in Confs, SubmitLog(c) \/ Retry(c)
  PROVE  IInv'
<1> DEFINE n == intent[c].attempts + 1
<1>1. /\ job \in [Confs -> [Attempts -> JobRow]] /\ intent \in [Confs -> Intent] /\ report \in Report
      /\ \A d \in Confs, m \in Attempts :
           JobInStep(d, m) /\ RequestInStep(d, m) /\ AbsentBefore(d, m)
      /\ \A d \in Confs : QueryInStep(d) /\ (intent[d].status = "succeeded" => Landed(d) # {})
      /\ OneActive
  BY DEF IInv, TypeOK, DeliveryInv
<1>2. intent[c].attempts \in Nat /\ Attempts \subseteq Nat \ {0} /\ 1 \in Attempts
  BY <1>1, DeliveryAssumption DEF Intent, Attempts
<1>3. /\ UNCHANGED <<attempt, exec, graced, prov, query, budget>>
      /\ intent' = [intent EXCEPT ![c].status = "pending"]
      /\ report' = [report EXCEPT !.log = "submitting"]
      /\ intent[c].status \in {"absent", "failed"}
  BY DEF SubmitLog, Retry
<1>4. n \in Attempts /\ job' = [job EXCEPT ![c][n] = "queued"]
  <2>1. CASE SubmitLog(c)
    <3>1. intent[c].attempts = 0
      BY <1>1, <1>2, <2>1 DEF SubmitLog, JobInStep
    <3> QED BY <1>2, <2>1, <3>1 DEF SubmitLog
  <2>2. CASE Retry(c)
    BY <1>2, <2>2, DeliveryAssumption DEF Retry, Attempts
  <2> QED BY <2>1, <2>2
<1>5. n > intent[c].attempts /\ n \in Nat
  BY <1>2
<1> HIDE DEF n
<1>6. /\ job' \in [Confs -> [Attempts -> JobRow]] /\ job'[c][n] = "queued"
      /\ \A d \in Confs, m \in Attempts : (d = c /\ m = n) \/ job'[d][m] = job[d][m]
  BY <1>1, <1>4 DEF JobRow
<1>7. /\ intent' \in [Confs -> Intent] /\ intent'[c].status = "pending"
      /\ intent'[c].attempts = intent[c].attempts
      /\ \A d \in Confs : d = c \/ intent'[d] = intent[d]
  BY <1>1, <1>3, StatusUpdate DEF IntentStatus
<1>8. TypeOK'
  <2>1. report' \in Report
    BY <1>1, <1>3, ReportUpdates DEF LogState
  <2> QED BY <1>3, <1>6, <1>7, <2>1 DEF IInv, TypeOK
<1>9. ~Active(c, n)
  BY <1>1, <1>3, <1>4, <1>5 DEF JobInStep
<1>10. OneActive'
  <2>1. \A d \in Confs, m \in Attempts : Active(d, m)' => Active(d, m)
    BY <1>3, <1>6 DEF Active
  <2> QED BY <1>1, <2>1 DEF OneActive
<1>11. ASSUME NEW d \in Confs, NEW m \in Attempts PROVE JobInStep(d, m)'
  <2>1. CASE d # c
    BY <2>1, <1>1, <1>3, <1>6, <1>7 DEF JobInStep, Active
  <2>2. CASE d = c /\ m # n
    BY <2>2, <1>1, <1>3, <1>6, <1>7 DEF JobInStep, Active, Attempting
  <2>3. CASE d = c /\ m = n
    <3>1. exec'[c][n] = "none" /\ job'[c][n] = "queued"
      BY <1>3, <1>6, <1>9 DEF Active
    <3>2. n = intent'[c].attempts + 1
      BY <1>7 DEF n
    <3> QED BY <2>3, <1>7, <3>1, <3>2 DEF JobInStep, Active, Attempting, Result
  <2> QED BY <2>1, <2>2, <2>3
<1>12. ASSUME NEW d \in Confs, NEW m \in Attempts PROVE RequestInStep(d, m)' /\ AbsentBefore(d, m)'
  <2>1. CASE d # c
    BY <2>1, <1>1, <1>3, <1>7 DEF RequestInStep, AbsentBefore, MayExist, NoFault
  <2>2. CASE d = c
    <3>1. RequestInStep(c, m)'
      BY <1>1, <1>3, <1>7 DEF RequestInStep, NoFault
    <3>2. NoFault => ~MayExist(c, m)
      BY <1>1, <1>2, <1>3 DEF AbsentBefore, JobInStep
    <3> QED BY <2>2, <1>3, <3>1, <3>2 DEF AbsentBefore, MayExist, NoFault
  <2> QED BY <2>1, <2>2
<1>13. ASSUME NEW d \in Confs
       PROVE  QueryInStep(d)' /\ (intent'[d].status = "succeeded" => Landed(d)' # {})
  <2>1. Landed(d)' = Landed(d)
    BY <1>3 DEF Landed
  <2> QED BY <2>1, <1>1, <1>3, <1>7 DEF QueryInStep, Unresolved, MayExist, NoFault
<1> QED BY <1>1, <1>3, <1>8, <1>10, <1>11, <1>12, <1>13 DEF IInv, DeliveryInv

\* Confirming and adopting touch the report only.
LEMMA ReportStep ==
  ASSUME IInv, NEW c \in Confs, Confirm(c) \/ Adopt(c)
  PROVE  IInv'
<1>1. UNCHANGED <<intent, attempt, job, exec, graced, prov, query>>
  BY DEF Confirm, Adopt, Unconfirm
<1>2. budget' \in Budget /\ budget'.faults = budget.faults
  BY BudgetUpdates DEF IInv, TypeOK, Confirm, Adopt, Unconfirm, Budget
<1>3. report' \in Report
  <2>1. report \in Report
    BY DEF IInv, TypeOK
  <2>2. CASE Confirm(c)
    BY <2>1, <2>2 DEF Confirm, Report
  <2>3. CASE Adopt(c)
    BY <2>3 DEF Adopt, Unconfirm, Report, LogState
  <2> QED BY <2>2, <2>3
<1>4. TypeOK'
  BY <1>1, <1>2, <1>3 DEF IInv, TypeOK, Budget
<1>5. NoFault' => NoFault
  BY <1>2 DEF NoFault
<1>6. DeliveryInv'
  BY <1>1, <1>2, <1>5, JobFrame, RequestFrame, AbsentFrame, QueryFrame DEF IInv, DeliveryInv
<1> QED BY <1>4, <1>6 DEF IInv

\* An edit cancels a pending intent and its queued job, and nothing else.
LEMMA EditStep ==
  ASSUME IInv, NEW c \in Confs, Edit(c)
  PROVE  IInv'
<1>1. /\ job \in [Confs -> [Attempts -> JobRow]] /\ intent \in [Confs -> Intent]
      /\ \A d \in Confs, m \in Attempts :
           JobInStep(d, m) /\ RequestInStep(d, m) /\ AbsentBefore(d, m)
      /\ \A d \in Confs : QueryInStep(d) /\ (intent[d].status = "succeeded" => Landed(d) # {})
      /\ OneActive
  BY DEF IInv, TypeOK, DeliveryInv
<1>2. UNCHANGED <<attempt, exec, graced, prov, query>>
  BY DEF Edit, Unconfirm
<1>3. budget' \in Budget /\ budget'.faults = budget.faults
  BY BudgetUpdates DEF IInv, TypeOK, Edit, Unconfirm, Budget
<1>4. report' \in Report
  BY DEF Edit, Unconfirm, Report, LogState
<1>5. CASE intent[c].status # "pending"
  <2>1. UNCHANGED <<intent, job>>
    BY <1>5 DEF Edit
  <2>2. TypeOK'
    BY <1>2, <1>3, <1>4, <2>1 DEF IInv, TypeOK, Budget
  <2>3. NoFault' => NoFault
    BY <1>3 DEF NoFault
  <2>4. DeliveryInv'
    BY <1>2, <1>3, <2>1, <2>3, JobFrame, RequestFrame, AbsentFrame, QueryFrame
       DEF IInv, DeliveryInv
  <2> QED BY <2>2, <2>4 DEF IInv
<1>6. CASE intent[c].status = "pending"
  <2>1. /\ intent' = [intent EXCEPT ![c].status = "cancelled"]
        /\ job' = [job EXCEPT ![c] =
             [n \in Attempts |-> IF job[c][n] = "queued" THEN "cancelled" ELSE job[c][n]]]
    BY <1>6 DEF Edit
  <2>2. /\ intent' \in [Confs -> Intent] /\ intent'[c].status = "cancelled"
        /\ intent'[c].attempts = intent[c].attempts
        /\ \A d \in Confs : d = c \/ intent'[d] = intent[d]
    BY <1>1, <2>1, StatusUpdate DEF IntentStatus
  <2>3. /\ job' \in [Confs -> [Attempts -> JobRow]]
        /\ \A m \in Attempts : job'[c][m] = IF job[c][m] = "queued" THEN "cancelled" ELSE job[c][m]
        /\ \A d \in Confs : d = c \/ job'[d] = job[d]
    <3> DEFINE f == [n \in Attempts |-> IF job[c][n] = "queued" THEN "cancelled" ELSE job[c][n]]
    <3>1. f \in [Attempts -> JobRow]
      BY <1>1 DEF JobRow
    <3>2. \A m \in Attempts : f[m] = IF job[c][m] = "queued" THEN "cancelled" ELSE job[c][m]
      OBVIOUS
    <3>3. job' = [job EXCEPT ![c] = f]
      BY <2>1
    <3> HIDE DEF f
    <3>4. job' \in [Confs -> [Attempts -> JobRow]] /\ job'[c] = f
          /\ \A d \in Confs : d = c \/ job'[d] = job[d]
      BY <1>1, <3>1, <3>3
    <3> QED BY <3>2, <3>4
  <2>4. TypeOK'
    BY <1>2, <1>3, <1>4, <2>2, <2>3 DEF IInv, TypeOK, Budget
  <2>5. \A d \in Confs, m \in Attempts : Active(d, m)' <=> Active(d, m)
    BY <1>2, <2>3 DEF Active
  <2>6. OneActive'
    BY <1>1, <2>5 DEF OneActive
  <2>7. ASSUME NEW d \in Confs, NEW m \in Attempts
        PROVE  JobInStep(d, m)' /\ RequestInStep(d, m)' /\ AbsentBefore(d, m)'
    <3>1. CASE d # c
      BY <3>1, <1>1, <1>2, <1>3, <2>2, <2>3, <2>5
         DEF JobInStep, RequestInStep, AbsentBefore, MayExist, NoFault
    <3>2. CASE d = c
      <4>1. JobInStep(c, m)'
        BY <1>1, <1>2, <1>6, <2>2, <2>3, <2>5 DEF JobInStep
      <4> QED BY <3>2, <4>1, <1>1, <1>2, <1>3, <1>6, <2>2
              DEF RequestInStep, AbsentBefore, MayExist, NoFault
    <3> QED BY <3>1, <3>2
  <2>8. ASSUME NEW d \in Confs
        PROVE  QueryInStep(d)' /\ (intent'[d].status = "succeeded" => Landed(d)' # {})
    <3>1. Landed(d)' = Landed(d)
      BY <1>2 DEF Landed
    <3> QED BY <3>1, <1>1, <1>2, <1>3, <1>6, <2>2 DEF QueryInStep, Unresolved, MayExist, NoFault
  <2> QED BY <1>1, <1>3, <2>4, <2>6, <2>7, <2>8 DEF IInv, DeliveryInv
<1> QED BY <1>5, <1>6

\* A cancelled job was only queued.
LEMMA CancelStep ==
  ASSUME IInv, NEW c \in Confs, NEW n \in Attempts, CancelJob(c, n)
  PROVE  IInv'
<1>1. /\ job \in [Confs -> [Attempts -> JobRow]] /\ OneActive
      /\ \A d \in Confs, m \in Attempts : JobInStep(d, m)
  BY DEF IInv, TypeOK, DeliveryInv
<1>2. /\ UNCHANGED <<report, intent, attempt, exec, graced, prov, query>>
      /\ job[c][n] = "queued"
  BY DEF CancelJob
<1>3. budget' \in Budget /\ budget'.faults = budget.faults
  BY LeavesBudget DEF IInv
<1>4. NoFault' => NoFault
  BY <1>3 DEF NoFault
<1>5. /\ job' \in [Confs -> [Attempts -> JobRow]] /\ job'[c][n] = "cancelled"
      /\ \A d \in Confs, m \in Attempts : (d = c /\ m = n) \/ job'[d][m] = job[d][m]
  BY <1>1 DEF CancelJob, JobRow
<1>6. TypeOK'
  BY <1>2, <1>3, <1>5 DEF IInv, TypeOK, Budget
<1>7. OneActive'
  <2>1. \A d \in Confs, m \in Attempts : Active(d, m)' => Active(d, m)
    BY <1>2, <1>5 DEF Active
  <2> QED BY <1>1, <2>1 DEF OneActive
<1>8. ASSUME NEW d \in Confs, NEW m \in Attempts PROVE JobInStep(d, m)'
  BY <1>1, <1>2, <1>5 DEF JobInStep, Active
<1> QED BY <1>2, <1>3, <1>4, <1>6, <1>7, <1>8, RequestFrame, AbsentFrame, QueryFrame
        DEF IInv, DeliveryInv

\* A request that is settled was sent; one that landed stays.
LEMMA SettleStep ==
  ASSUME IInv, NEW c \in Confs, NEW n \in Attempts, Settle(c, n)
  PROVE  IInv'
<1>1. /\ prov \in [Confs -> [Attempts -> Request]]
      /\ \A d \in Confs, m \in Attempts : RequestInStep(d, m) /\ AbsentBefore(d, m)
      /\ \A d \in Confs : QueryInStep(d) /\ (intent[d].status = "succeeded" => Landed(d) # {})
  BY DEF IInv, TypeOK, DeliveryInv
<1>2. UNCHANGED <<report, intent, attempt, job, exec, graced, query, budget>> /\ prov[c][n] = "sent"
  BY DEF Settle
<1>3. /\ prov' \in [Confs -> [Attempts -> Request]] /\ prov'[c][n] \in {"landed", "refused", "lost"}
      /\ \A d \in Confs, m \in Attempts : (d = c /\ m = n) \/ prov'[d][m] = prov[d][m]
  <2>1. PICK r \in {"landed", "refused", "lost"} : prov' = [prov EXCEPT ![c][n] = r]
    BY DEF Settle
  <2> QED BY <1>1, <2>1 DEF Request
<1>4. TypeOK'
  BY <1>2, <1>3 DEF IInv, TypeOK
<1>5. /\ \A d \in Confs, m \in Attempts : MayExist(d, m)' => MayExist(d, m)
      /\ \A d \in Confs, m \in Attempts : prov[d][m] # "sent" => prov'[d][m] = prov[d][m]
  BY <1>2, <1>3 DEF MayExist
<1>6. ASSUME NEW d \in Confs, NEW m \in Attempts PROVE RequestInStep(d, m)' /\ AbsentBefore(d, m)'
  BY <1>1, <1>2, <1>5 DEF RequestInStep, AbsentBefore, MayExist, NoFault
<1>7. ASSUME NEW d \in Confs
      PROVE  QueryInStep(d)' /\ (intent'[d].status = "succeeded" => Landed(d)' # {})
  <2>1. Landed(d) # {} => Landed(d)' # {}
    BY <1>5 DEF Landed
  <2>2. \A m \in Attempts : prov[d][m] # "sent" => prov'[d][m] # "sent"
    BY <1>5
  <2> QED BY <2>1, <2>2, <1>1, <1>2, <1>5 DEF QueryInStep, Unresolved, NoFault
<1> QED BY <1>2, <1>4, <1>6, <1>7, JobFrame DEF IInv, DeliveryInv

\* The grace ends only when the last request is settled, and not during a query.
LEMMA GraceStep ==
  ASSUME IInv, NEW c \in Confs, GracePasses(c)
  PROVE  IInv'
<1>1. /\ graced \in [Confs -> BOOLEAN] /\ budget \in Budget
      /\ \A d \in Confs : QueryInStep(d) /\ (intent[d].status = "succeeded" => Landed(d) # {})
  BY DEF IInv, TypeOK, DeliveryInv, Budget
<1>2. /\ UNCHANGED <<report, intent, attempt, job, exec, prov, query>>
      /\ graced' = [graced EXCEPT ![c] = TRUE] /\ prov[c][intent[c].attempts] # "sent"
  BY DEF GracePasses
<1>3. /\ budget' \in Budget
      /\ budget' = budget \/ budget'.faults = budget.faults - 1
      /\ query[c] # "none" => budget'.faults = budget.faults - 1
  BY <1>1, BudgetUpdates DEF IInv, GracePasses
<1>4. /\ NoFault' => NoFault
      /\ NoFault' => query[c] = "none"
      /\ budget'.faults <= MaxFaults
  BY <1>1, <1>3, FaultsFall DEF Budget
<1>5. TypeOK'
  <2>1. graced' \in [Confs -> BOOLEAN]
    BY <1>1, <1>2
  <2> QED BY <1>2, <1>3, <2>1 DEF IInv, TypeOK, Budget
<1>6. ASSUME NEW d \in Confs
      PROVE  QueryInStep(d)' /\ (intent'[d].status = "succeeded" => Landed(d)' # {})
  <2>1. Landed(d)' = Landed(d)
    BY <1>2 DEF Landed
  <2>2. CASE d = c
    BY <2>1, <2>2, <1>1, <1>2, <1>4 DEF QueryInStep, Unresolved
  <2>3. CASE d # c
    <3>1. graced'[d] = graced[d]
      BY <2>3, <1>1, <1>2
    <3> QED BY <2>1, <3>1, <1>1, <1>2, <1>4 DEF QueryInStep, Unresolved, MayExist
  <2> QED BY <2>2, <2>3
<1> QED BY <1>2, <1>4, <1>5, <1>6, JobFrame, RequestFrame, AbsentFrame DEF IInv, DeliveryInv

\* That the gap between two queries has passed changes no part of the invariant.
LEMMA GapStep ==
  ASSUME IInv, NEW c \in Confs, GapPasses(c)
  PROVE  IInv'
<1>1. /\ intent \in [Confs -> Intent] /\ OneActive /\ budget.faults <= MaxFaults
      /\ \A d \in Confs, m \in Attempts :
           JobInStep(d, m) /\ RequestInStep(d, m) /\ AbsentBefore(d, m)
      /\ \A d \in Confs : QueryInStep(d) /\ (intent[d].status = "succeeded" => Landed(d) # {})
  BY DEF IInv, TypeOK, DeliveryInv
<1>2. /\ UNCHANGED <<report, attempt, job, exec, graced, prov, query, budget>>
      /\ intent' = [intent EXCEPT ![c].last = "old"]
  BY DEF GapPasses
<1>3. /\ intent' \in [Confs -> Intent]
      /\ \A d \in Confs : /\ intent'[d].status = intent[d].status
                          /\ intent'[d].attempts = intent[d].attempts
  <2> DEFINE i == [intent[c] EXCEPT !.last = "old"]
  <2>1. intent[c] \in Intent
    BY <1>1
  <2>2. i \in Intent /\ i.status = intent[c].status /\ i.attempts = intent[c].attempts
    BY <2>1, IntentUpdates
  <2>3. intent' = [intent EXCEPT ![c] = i]
    BY <1>2
  <2> HIDE DEF i
  <2> QED BY <1>1, <2>2, <2>3, IntentRow
<1>4. TypeOK'
  BY <1>2, <1>3 DEF IInv, TypeOK
<1>5. OneActive'
  BY <1>1, <1>2 DEF OneActive, Active
<1>6. ASSUME NEW d \in Confs, NEW m \in Attempts
      PROVE  JobInStep(d, m)' /\ RequestInStep(d, m)' /\ AbsentBefore(d, m)'
  BY <1>1, <1>2, <1>3 DEF JobInStep, Active, RequestInStep, AbsentBefore, MayExist, NoFault
<1>7. ASSUME NEW d \in Confs
      PROVE  QueryInStep(d)' /\ (intent'[d].status = "succeeded" => Landed(d)' # {})
  <2>1. Landed(d)' = Landed(d)
    BY <1>2 DEF Landed
  <2> QED BY <2>1, <1>1, <1>2, <1>3 DEF QueryInStep, Unresolved, MayExist, NoFault
<1> QED BY <1>1, <1>2, <1>4, <1>5, <1>6, <1>7 DEF IInv, DeliveryInv

\* A crash loses the handlers and the queries; a running job stays active.
LEMMA CrashStep ==
  ASSUME IInv, Crash
  PROVE  IInv'
<1>1. /\ OneActive /\ budget.faults <= MaxFaults
      /\ \A d \in Confs, m \in Attempts : JobInStep(d, m) /\ RequestInStep(d, m)
      /\ \A d \in Confs : QueryInStep(d) /\ (intent[d].status = "succeeded" => Landed(d) # {})
  BY DEF IInv, TypeOK, DeliveryInv
<1>2. /\ UNCHANGED <<report, intent, attempt, job, graced, prov>>
      /\ exec' \in [Confs -> [Attempts -> ExecPc]] /\ query' \in [Confs -> QueryState]
      /\ \A d \in Confs : query'[d] = "none"
      /\ \A d \in Confs, m \in Attempts : exec'[d][m] = "none"
  BY DEF Crash, Idle, ExecPc, QueryState
<1>3. budget' \in Budget /\ budget'.faults = budget.faults
  BY LeavesBudget DEF IInv
<1>4. NoFault' => NoFault
  BY <1>3 DEF NoFault
<1>5. TypeOK'
  BY <1>2, <1>3 DEF IInv, TypeOK, Budget
<1>6. OneActive'
  <2>1. \A d \in Confs, m \in Attempts : Active(d, m)' => Active(d, m)
    BY <1>2 DEF Active
  <2> QED BY <1>1, <2>1 DEF OneActive
<1>7. ASSUME NEW d \in Confs, NEW m \in Attempts PROVE JobInStep(d, m)' /\ RequestInStep(d, m)'
  BY <1>1, <1>2 DEF JobInStep, RequestInStep, Active, Attempting, Result
<1>8. ASSUME NEW d \in Confs
      PROVE  QueryInStep(d)' /\ (intent'[d].status = "succeeded" => Landed(d)' # {})
  <2>1. Landed(d)' = Landed(d)
    BY <1>2 DEF Landed
  <2> QED BY <2>1, <1>1, <1>2 DEF QueryInStep
<1> QED BY <1>1, <1>2, <1>3, <1>4, <1>5, <1>6, <1>7, <1>8, AbsentFrame DEF IInv, DeliveryInv

----------------------------------------------------------------------------
(* One open submission *)

\* Writing the log state leaves the confirmation of the report alone.
LEMMA LogUpdate ==
  ASSUME report \in Report, NEW l, report' = [report EXCEPT !.log = l]
  PROVE  report'.status = report.status /\ report'.conf = report.conf
BY DEF Report

\* What a step may do to the statuses without touching the confirmation: an open
\* submission stays open or ends, any other one does not become open.
LEMMA OpenFrame ==
  ASSUME OpenInv, report'.status = report.status, report'.conf = report.conf,
         budget'.overlaps = budget.overlaps,
         \A d \in Confs :
           \/ intent'[d].status = intent[d].status
           \/ /\ intent[d].status # "absent"
              /\ intent'[d].status \notin {"absent", "running", "unknown", "needs_review"}
           \/ /\ intent[d].status \in {"running", "unknown", "needs_review"}
              /\ intent'[d].status \in {"unknown", "needs_review"}
  PROVE  OpenInv'
BY DEF OpenInv, OneOpenSubmission, Unresolved, Current

\* The end, the marking and the recovery of an attempt, and its controlled retry.
LEMMA DecisionOpen ==
  ASSUME IInv, OpenInv, NEW c \in Confs,
         \/ \E n \in Attempts : FinishAttempt(c, n) \/ Mark(c, n)
         \/ Reconcile(c) \/ Retry(c) \/ \E delivered \in BOOLEAN : Resolve(c, delivered)
  PROVE  OpenInv'
<1>1. report \in Report /\ intent \in [Confs -> Intent] /\ QueryInStep(c)
  BY DEF IInv, TypeOK, DeliveryInv
<1>2. UNCHANGED budget
  BY DEF FinishAttempt, Mark, MarkAs, Reconcile, Retry, Resolve
<1>3. UNCHANGED report \/ \E l : report' = [report EXCEPT !.log = l]
  BY DEF FinishAttempt, Mark, MarkAs, Reconcile, Retry, Resolve
<1>4. report'.status = report.status /\ report'.conf = report.conf
  BY <1>1, <1>3, LogUpdate
<1>5. \/ UNCHANGED intent
      \/ /\ intent[c].status = "running"
         /\ \E s \in Result : intent' = [intent EXCEPT ![c].status = s, ![c].recovery = RecoveryOf(s)]
      \/ /\ Unresolved(c)
         /\ \/ intent' = [intent EXCEPT ![c] = Judged(intent[c], QueryOutcome(c))]
            \/ intent' = [intent EXCEPT ![c].recovery = "pending"]
            \/ \E s \in {"succeeded", "failed"}, r \in RecoveryStatus :
                 intent' = [intent EXCEPT ![c].status = s, ![c].recovery = r]
      \/ intent[c].status = "failed" /\ intent' = [intent EXCEPT ![c].status = "pending"]
  <2>1. ASSUME NEW n \in Attempts, FinishAttempt(c, n)
        PROVE  UNCHANGED intent \/
               (/\ intent[c].status = "running"
                /\ \E s \in Result :
                     intent' = [intent EXCEPT ![c].status = s, ![c].recovery = RecoveryOf(s)])
    BY <2>1 DEF FinishAttempt
  <2>2. ASSUME NEW n \in Attempts, Mark(c, n)
        PROVE  UNCHANGED intent \/
               (/\ intent[c].status = "running"
                /\ \E s \in Result :
                     intent' = [intent EXCEPT ![c].status = s, ![c].recovery = RecoveryOf(s)])
    BY <2>2 DEF Mark, MarkAs, Result
  <2>3. CASE Reconcile(c)
    BY <2>3, <1>1 DEF Reconcile, QueryInStep
  <2>4. CASE Retry(c)
    BY <2>4 DEF Retry
  <2>5. ASSUME NEW delivered \in BOOLEAN, Resolve(c, delivered)
        PROVE  /\ Unresolved(c)
               /\ \E s \in {"succeeded", "failed"}, r \in RecoveryStatus :
                    intent' = [intent EXCEPT ![c].status = s, ![c].recovery = r]
    BY <2>5 DEF Resolve, RecoveryStatus
  <2> QED BY <2>1, <2>2, <2>3, <2>4, <2>5
<1>6. /\ \A d \in Confs : d = c \/ intent'[d] = intent[d]
      /\ \/ intent'[c].status = intent[c].status
         \/ /\ intent[c].status # "absent"
            /\ intent'[c].status \notin {"absent", "running", "unknown", "needs_review"}
         \/ /\ intent[c].status \in {"running", "unknown", "needs_review"}
            /\ intent'[c].status \in {"unknown", "needs_review"}
  <2>1. CASE UNCHANGED intent
    BY <2>1
  <2>2. ASSUME intent[c].status = "running", NEW s \in Result,
               intent' = [intent EXCEPT ![c].status = s, ![c].recovery = RecoveryOf(s)]
        PROVE  <1>6!1 /\ <1>6!2
    <3>1. s \in IntentStatus /\ RecoveryOf(s) \in RecoveryStatus
      BY DEF Result, IntentStatus, RecoveryOf, RecoveryStatus
    <3> QED BY <1>1, <2>2, <3>1, OutcomeUpdate DEF Result
  <2>3. ASSUME Unresolved(c), intent' = [intent EXCEPT ![c] = Judged(intent[c], QueryOutcome(c))]
        PROVE  <1>6!1 /\ <1>6!2
    <3> DEFINE o == QueryOutcome(c)
    <3>1. o \in {"matched", "absence_confirmed", "ambiguous", "not_found"}
      BY DEF QueryOutcome
    <3>2. StatusAfter(o) \in {"succeeded", "failed", "needs_review", "unknown"}
      BY <3>1 DEF StatusAfter
    <3>3. intent[c] \in Intent
      BY <1>1
    <3> HIDE DEF o
    <3>4. Judged(intent[c], o) \in Intent /\ Judged(intent[c], o).status = StatusAfter(o)
      BY <3>1, <3>3, JudgedUpdate
    <3>5. intent'[c].status = StatusAfter(o) /\ \A d \in Confs : d = c \/ intent'[d] = intent[d]
      BY <1>1, <2>3, <3>4, IntentRow DEF o
    <3> QED BY <2>3, <3>2, <3>5 DEF Unresolved
  <2>4. ASSUME Unresolved(c), intent' = [intent EXCEPT ![c].recovery = "pending"]
        PROVE  <1>6!1 /\ <1>6!2
    <3> DEFINE i == [intent[c] EXCEPT !.recovery = "pending"]
    <3>1. i.status = intent[c].status
      BY <1>1 DEF Intent
    <3>2. intent'[c] = i /\ \A d \in Confs : d = c \/ intent'[d] = intent[d]
      BY <1>1, <2>4
    <3> HIDE DEF i
    <3> QED BY <3>1, <3>2
  <2>5. ASSUME Unresolved(c), NEW s \in {"succeeded", "failed"}, NEW r \in RecoveryStatus,
               intent' = [intent EXCEPT ![c].status = s, ![c].recovery = r]
        PROVE  <1>6!1 /\ <1>6!2
    <3>1. s \in IntentStatus
      BY DEF IntentStatus
    <3> QED BY <1>1, <2>5, <3>1, OutcomeUpdate DEF Unresolved
  <2>6. ASSUME intent[c].status = "failed", intent' = [intent EXCEPT ![c].status = "pending"]
        PROVE  <1>6!1 /\ <1>6!2
    BY <1>1, <2>6, StatusUpdate DEF IntentStatus
  <2> QED BY <1>5, <2>1, <2>2, <2>3, <2>4, <2>5, <2>6
<1> QED BY <1>2, <1>4, <1>6, OpenFrame

\* Steps that touch neither the report nor the status of an intent.
LEMMA OtherOpen ==
  ASSUME IInv, OpenInv, NEW c \in Confs, NEW n \in Attempts,
         \/ Crash \/ GracePasses(c) \/ GapPasses(c) \/ Query(c)
         \/ Claim(c, n) \/ Load(c, n) \/ PreflightFails(c, n) \/ Send(c, n) \/ Answer(c, n)
         \/ EndJob(c, n) \/ RecoverJob(c, n) \/ AnswerUnreadable(c, n) \/ RecordingFails(c, n)
         \/ CancelJob(c, n) \/ Settle(c, n)
  PROVE  OpenInv'
<1>1. UNCHANGED report /\ (UNCHANGED intent \/ intent' = [intent EXCEPT ![c].last = "old"])
  BY DEF Crash, GracePasses, GapPasses, Query, Claim, Load, PreflightFails, Send, Answer, EndJob,
         RecoverJob, AnswerUnreadable, RecordingFails, CancelJob, Settle
<1>2. budget'.overlaps = budget.overlaps
  <2>1. \/ UNCHANGED budget
        \/ Crash \/ CancelJob(c, n)
        \/ budget' = [budget EXCEPT !.faults = @ - 1]
    BY DEF GracePasses, GapPasses, Query, Claim, Load, PreflightFails, Send, Answer, EndJob,
           RecoverJob, AnswerUnreadable, RecordingFails, CancelJob, Settle
  <2> QED BY <2>1, BudgetUpdates, LeavesBudget DEF IInv
<1>3. \A d \in Confs : intent'[d].status = intent[d].status
  <2>1. CASE UNCHANGED intent
    BY <2>1
  <2>2. CASE intent' = [intent EXCEPT ![c].last = "old"]
    <3> DEFINE i == [intent[c] EXCEPT !.last = "old"]
    <3>1. intent \in [Confs -> Intent]
      BY DEF IInv, TypeOK
    <3>2. i.status = intent[c].status
      BY <3>1 DEF Intent
    <3>3. intent'[c] = i /\ \A d \in Confs : d = c \/ intent'[d] = intent[d]
      BY <2>2, <3>1
    <3> HIDE DEF i
    <3> QED BY <3>2, <3>3
  <2> QED BY <1>1, <2>1, <2>2
<1> QED BY <1>1, <1>2, <1>3, OpenFrame

\* A submission starts only for the current confirmation.
LEMMA StartOpen ==
  ASSUME IInv, OpenInv, NEW c \in Confs, NEW n \in Attempts, StartAttempt(c, n)
  PROVE  OpenInv'
<1>1. /\ intent \in [Confs -> Intent] /\ JobInStep(c, n)
      /\ UNCHANGED <<report, budget>> /\ exec[c][n] = "loaded"
  BY DEF IInv, TypeOK, DeliveryInv, StartAttempt
<1>2. CASE intent[c].status = "pending" /\ Current(c)
  <2>1. intent' = [intent EXCEPT ![c].status = "running", ![c].attempts = @ + 1]
    BY <1>2 DEF StartAttempt
  <2>2. intent[c].attempts + 1 <= MaxAttempts
    BY <1>1, DeliveryAssumption DEF JobInStep, Attempts
  <2>3. intent'[c].status = "running" /\ \A d \in Confs : d = c \/ intent'[d] = intent[d]
    BY <1>1, <2>1, <2>2, StartUpdate
  <2> QED BY <1>1, <1>2, <2>3 DEF OpenInv, OneOpenSubmission, Unresolved, Current
<1>3. CASE intent[c].status = "pending" /\ ~Current(c)
  <2>1. intent' = [intent EXCEPT ![c].status = "cancelled"]
    BY <1>3 DEF StartAttempt
  <2>2. intent'[c].status = "cancelled" /\ \A d \in Confs : d = c \/ intent'[d] = intent[d]
    BY <1>1, <2>1, StatusUpdate DEF IntentStatus
  <2> QED BY <1>1, <1>3, <2>2, OpenFrame
<1>4. CASE intent[c].status # "pending"
  <2>1. UNCHANGED intent
    BY <1>4 DEF StartAttempt
  <2> QED BY <1>1, <2>1, OpenFrame
<1> QED BY <1>2, <1>3, <1>4

\* A submission is accepted only if no intent is unresolved.
LEMMA SubmitOpen ==
  ASSUME IInv, OpenInv, NEW c \in Confs, SubmitLog(c)
  PROVE  OpenInv'
<1>1. intent \in [Confs -> Intent] /\ report \in Report
  BY DEF IInv, TypeOK
<1>2. /\ intent'[c].status = "pending" /\ \A d \in Confs : d = c \/ intent'[d] = intent[d]
  BY <1>1, StatusUpdate DEF SubmitLog, IntentStatus
<1>3. report'.status = report.status /\ report'.conf = report.conf
  BY <1>1, LogUpdate DEF SubmitLog
<1>4. UNCHANGED budget /\ \A d \in Confs : ~Unresolved(d)
  BY DEF SubmitLog
<1>5. \A d \in Confs : ~Unresolved(d)'
  BY <1>2, <1>4 DEF Unresolved
<1> QED BY <1>2, <1>3, <1>4, <1>5 DEF OpenInv, OneOpenSubmission, Unresolved, Current

\* A new confirmation has no intent; ending one costs an overlap while it runs.
LEMMA ConfirmOpen ==
  ASSUME IInv, OpenInv, NEW c \in Confs, Confirm(c)
  PROVE  OpenInv'
<1>1. report.status = "editing" /\ intent[c].status = "absent" /\ UNCHANGED <<intent, budget>>
  BY DEF Confirm
<1>2. report'.conf = c
  BY DEF Confirm, IInv, TypeOK, Report
<1> QED BY <1>1, <1>2 DEF OpenInv, OneOpenSubmission, Unresolved, Current

LEMMA UnconfirmOpen ==
  ASSUME IInv, OpenInv, NEW c \in Confs, Edit(c) \/ Adopt(c)
  PROVE  OpenInv'
<1>1. /\ intent \in [Confs -> Intent] /\ budget \in Budget
  BY DEF IInv, TypeOK, Budget
<1>2. Unconfirm(c) /\ report.conf = c /\ report'.status = "editing"
  BY DEF Edit, Adopt, Unconfirm
<1>3. \A d \in Confs :
        \/ intent'[d].status = intent[d].status
        \/ intent[d].status = "pending" /\ intent'[d].status = "cancelled"
  <2>1. UNCHANGED intent \/
        (intent[c].status = "pending" /\ intent' = [intent EXCEPT ![c].status = "cancelled"])
    BY DEF Edit, Adopt
  <2> QED BY <1>1, <2>1, StatusUpdate DEF IntentStatus
<1>4. /\ intent[c].status = "running" => budget'.overlaps = budget.overlaps - 1
      /\ intent[c].status # "running" => budget' = budget
      /\ budget.overlaps \in Nat
  BY <1>1, <1>2, BudgetUpdates DEF Unconfirm, IInv, Budget
<1>5. budget.overlaps <= MaxOverlaps /\ OneOpenSubmission
  BY DEF OpenInv
<1>6. budget'.overlaps <= MaxOverlaps
  BY <1>4, <1>5, DeliveryAssumption
<1>7. budget'.overlaps = MaxOverlaps =>
        budget.overlaps = MaxOverlaps /\ intent[c].status # "running"
  BY <1>4, <1>5, DeliveryAssumption
<1>8. \A d \in Confs : intent'[d].status \in {"running", "unknown", "needs_review"} =>
                         intent'[d].status = intent[d].status
  BY <1>3
<1>9. OneOpenSubmission'
  BY <1>5, <1>7, <1>8 DEF OneOpenSubmission
<1>10. budget'.overlaps = MaxOverlaps => \A d \in Confs : intent'[d].status # "running"
  BY <1>2, <1>7, <1>8 DEF OpenInv, Current
<1> QED BY <1>2, <1>6, <1>9, <1>10 DEF OpenInv, Current

LEMMA OpenStep == IInv /\ OpenInv /\ [Next]_vars => OpenInv'
<1> SUFFICES ASSUME IInv, OpenInv, [Next]_vars PROVE OpenInv'
  OBVIOUS
<1>1. CASE UNCHANGED vars
  <2>1. UNCHANGED <<report, intent, budget>>
    BY <1>1 DEF vars
  <2> QED BY <2>1, OpenFrame
<1>2. CASE Crash
  <2>1. UNCHANGED <<report, intent>> /\ budget'.overlaps = budget.overlaps
    BY <1>2, LeavesBudget DEF Crash, IInv
  <2> QED BY <2>1, OpenFrame
<1>3. ASSUME NEW c \in Confs, Confirm(c) \/ Edit(c) \/ Adopt(c) \/ SubmitLog(c) PROVE OpenInv'
  BY <1>3, ConfirmOpen, UnconfirmOpen, SubmitOpen
<1>4. ASSUME NEW c \in Confs, Recovery(c) \/ GracePasses(c) \/ GapPasses(c) PROVE OpenInv'
  <2>1. 1 \in Attempts
    BY DeliveryAssumption DEF Attempts
  <2>2. Query(c) \/ GracePasses(c) \/ GapPasses(c) => OpenInv'
    BY <2>1, OtherOpen
  <2> QED BY <1>4, <2>2, DecisionOpen DEF Recovery
<1>5. ASSUME NEW c \in Confs, NEW n \in Attempts, Handler(c, n) PROVE OpenInv'
  BY <1>5, OtherOpen, StartOpen, DecisionOpen DEF Handler
<1>6. ASSUME NEW c \in Confs, NEW n \in Attempts,
             AnswerUnreadable(c, n) \/ RecordingFails(c, n) \/ CancelJob(c, n) \/ Settle(c, n)
      PROVE  OpenInv'
  BY <1>6, OtherOpen
<1> QED BY <1>1, <1>2, <1>3, <1>4, <1>5, <1>6 DEF Next

----------------------------------------------------------------------------
(* The theorems *)

\* Every step keeps the invariant.
LEMMA NextInv == IInv /\ [Next]_vars => IInv'
<1> SUFFICES ASSUME IInv, [Next]_vars PROVE IInv'
  OBVIOUS
<1>1. CASE UNCHANGED vars
  <2>1. UNCHANGED <<report, intent, attempt, job, exec, graced, prov, query, budget>>
    BY <1>1 DEF vars
  <2>2. TypeOK' /\ NoFault' = NoFault
    BY <2>1 DEF IInv, TypeOK, NoFault
  <2> QED BY <2>1, <2>2, JobFrame, RequestFrame, AbsentFrame, QueryFrame DEF IInv, DeliveryInv
<1>2. CASE Crash
  BY <1>2, CrashStep
<1>3. ASSUME NEW c \in Confs, Confirm(c) \/ Edit(c) \/ Adopt(c) \/ SubmitLog(c) PROVE IInv'
  BY <1>3, ReportStep, EditStep, EnqueueStep
<1>4. ASSUME NEW c \in Confs, Recovery(c) PROVE IInv'
  BY <1>4, QueryStep, ReconcileStep, EnqueueStep, ResolveStep DEF Recovery
<1>5. ASSUME NEW c \in Confs, GracePasses(c) \/ GapPasses(c) PROVE IInv'
  BY <1>5, GraceStep, GapStep
<1>6. ASSUME NEW c \in Confs, NEW n \in Attempts, Handler(c, n) PROVE IInv'
  <2>1. StartAttempt(c, n) => IInv'
    BY StartStep, StartMissesStep
  <2> QED BY <1>6, <2>1, ClaimStep, HandlerMoves, SendStep, FinishStep, EndJobStep, MarkStep
          DEF Handler
<1>7. ASSUME NEW c \in Confs, NEW n \in Attempts,
             AnswerUnreadable(c, n) \/ RecordingFails(c, n) \/ CancelJob(c, n) \/ Settle(c, n)
      PROVE  IInv'
  BY <1>7, HandlerMoves, CancelStep, SettleStep
<1> QED BY <1>1, <1>2, <1>3, <1>4, <1>5, <1>6, <1>7 DEF Next

\* The inductive invariant holds in every reachable state.
THEOREM DeliveryInvariant == Spec => []IInv
BY InitInv, NextInv, PTL DEF Spec

\* Every reachable state is well typed.
THEOREM DeliveryTypes == Spec => []TypeOK
<1>1. IInv => TypeOK
  BY DEF IInv
<1> QED BY <1>1, DeliveryInvariant, PTL

\* A result that may be retried is proved absent: while no answer was unreadable
\* and no query late, no request of a failed or pending intent has landed or can.
THEOREM RetryableResults == Spec => []RetryableIsAbsent
<1>1. IInv => RetryableIsAbsent
  BY DEF IInv, DeliveryInv, AbsentBefore, MayExist, RetryableIsAbsent
<1> QED BY <1>1, DeliveryInvariant, PTL

\* Success is never claimed without a log in DingTalk, whatever fails.
THEOREM RealSuccess == Spec => []SuccessIsReal
<1>1. IInv => SuccessIsReal
  BY DEF IInv, DeliveryInv, SuccessIsReal
<1> QED BY <1>1, DeliveryInvariant, PTL

\* A formal log is created at most once for a confirmed version, for any number
\* of attempts, crashes, queries, decisions and retries.
THEOREM AtMostOneLog == Spec => []NoDuplicateLog
<1>1. IInv => NoDuplicateLog
  <2> SUFFICES ASSUME IInv, NoFault, NEW c \in Confs PROVE Cardinality(Landed(c)) <= 1
    BY DEF NoDuplicateLog
  <2>1. Landed(c) \subseteq {intent[c].attempts}
    BY DEF IInv, DeliveryInv, AbsentBefore, MayExist, Landed
  <2>2. IsFiniteSet({intent[c].attempts}) /\ Cardinality({intent[c].attempts}) = 1
    BY FS_Singleton
  <2> QED BY <2>1, <2>2, FS_Subset
<1> QED BY <1>1, DeliveryInvariant, PTL

\* Editing and confirming again never opens a second submission while the fate of
\* an earlier one is open, as long as no report is edited during its submission.
THEOREM AtMostOneOpen == Spec => []OneOpenSubmission
<1>1. Init => OpenInv
  BY DeliveryAssumption
     DEF Init, OpenInv, OneOpenSubmission, NoIntent, Unresolved, Current
<1>2. OpenInv => OneOpenSubmission
  BY DEF OpenInv
<1> QED BY <1>1, <1>2, OpenStep, DeliveryInvariant, PTL DEF Spec

----------------------------------------------------------------------------
(* Backup and the restore of one (Backup), for any number of backups and     *)
(* any bounds. The database whose reports are delivered is the one that the  *)
(* next start has put in place; the names below are those of Backup, but for *)
(* exec and budget, which Delivery has too.                                  *)
CONSTANTS None, MaxBackups, Bounds
VARIABLES main, wal, backup, copies, pending, app, moved, code, working, page, left, allowed
Db == INSTANCE Backup WITH exec <- working, budget <- allowed

\* The statements of the application leave a content a content, and change what they name.
LEMMA Contents ==
  ASSUME Db!BackupAssumption, NEW c \in Db!Content
  PROVE  /\ c # None
         /\ \A a \in Db!Artifacts, s \in Db!Statuses :
              /\ Db!Row(c, a, s) \in Db!Content
              /\ Db!Row(c, a, s).running = c.running
              /\ \A b \in Db!Artifacts : Db!Row(c, a, s).row[b] = IF b = a THEN s ELSE c.row[b]
         /\ \A js \in SUBSET Db!Jobs :
              /\ Db!Queue(c, js) \in Db!Content
              /\ Db!Queue(c, js).row = c.row /\ Db!Queue(c, js).running = c.running
         /\ \A j \in Db!Jobs :
              LET d == [c EXCEPT !.queued = @ \ {j}, !.running = @ \union {j}]
              IN d \in Db!Content /\ d.row = c.row /\ d.running = c.running \union {j}
         /\ \A js \in SUBSET Db!Jobs :
              LET d == [c EXCEPT !.running = @ \ js]
              IN d \in Db!Content /\ d.row = c.row /\ d.running = c.running \ js
         /\ LET d == [c EXCEPT !.writes = @ + 1]
            IN d \in Db!Content /\ d.row = c.row /\ d.running = c.running
         /\ \A n \in Nat :
              LET d == [c EXCEPT !.schema = n]
              IN d \in Db!Content /\ d.row = c.row /\ d.running = c.running
<1>1. c # None BY DEF Db!BackupAssumption
<1>2. ASSUME NEW a \in Db!Artifacts, NEW s \in Db!Statuses
      PROVE  /\ Db!Row(c, a, s) \in Db!Content
             /\ Db!Row(c, a, s).running = c.running
             /\ \A b \in Db!Artifacts : Db!Row(c, a, s).row[b] = IF b = a THEN s ELSE c.row[b]
  BY DEF Db!Row, Db!Content
<1>3. \A js \in SUBSET Db!Jobs :
         /\ Db!Queue(c, js) \in Db!Content
         /\ Db!Queue(c, js).row = c.row /\ Db!Queue(c, js).running = c.running
  BY DEF Db!Queue, Db!Content
<1>4. ASSUME NEW j \in Db!Jobs
      PROVE  LET d == [c EXCEPT !.queued = @ \ {j}, !.running = @ \union {j}]
             IN d \in Db!Content /\ d.row = c.row /\ d.running = c.running \union {j}
  BY DEF Db!Content
<1>5. ASSUME NEW js \in SUBSET Db!Jobs
      PROVE  LET d == [c EXCEPT !.running = @ \ js]
             IN d \in Db!Content /\ d.row = c.row /\ d.running = c.running \ js
  BY DEF Db!Content
<1>6. LET d == [c EXCEPT !.writes = @ + 1]
      IN d \in Db!Content /\ d.row = c.row /\ d.running = c.running
  BY DEF Db!Content
<1>7. ASSUME NEW n \in Nat
      PROVE  LET d == [c EXCEPT !.schema = n]
             IN d \in Db!Content /\ d.row = c.row /\ d.running = c.running
  BY DEF Db!Content
<1> QED BY <1>1, <1>2, <1>3, <1>4, <1>5, <1>6, <1>7

LEMMA JobParts ==
  ASSUME NEW j \in Db!Jobs
  PROVE  /\ j[1] \in Db!Types
         /\ j[1] # "create" => j[2] \in Db!Artifacts /\ j = <<j[1], j[2]>>
BY DEF Db!Jobs, Db!Types

-----------------------------------------------------------------------------
(* The inductive invariant. *)

Making == {"begun", "vacuumed", "renamed", "made"}
Kept(a) == backup[a].is \in {"whole", "damaged"}

\* A file has a content once it is written.
FilesInv == \A a \in Db!Artifacts : backup[a].of = None <=> backup[a].is \in {"none", "begun"}

\* The rows of a content that say that a backup was made.
Known(c) == \A a \in Db!Artifacts : c.row[a] \in Db!Made => Kept(a) /\ backup[a].of # None

\* Where the database is in each step of a start.
PlaceInv ==
  /\ app = "up" => main # None
  /\ app \in {"hashed", "copied", "moved", "cleared", "switched"} => pending # None
  /\ app \in {"hashed", "copied", "moved", "cleared", "switched", "down"} => pending = left.pending
  /\ app = "ready" => pending = None
  /\ app \in {"moved", "cleared"} => main = None
  /\ app \in {"cleared", "switched"} => wal = None
  /\ app = "switched" => main = backup[pending.backup].of
  /\ moved # None => app \in {"moved", "cleared", "switched"} /\ <<allowed.starts, moved>> \in copies
  /\ pending # None => Kept(pending.backup)

\* How the database that was left relates to what the steps of a start have done.
LeftInv ==
  app # "up" =>
    /\ left.pending = None => main # None /\ Db!Live = left.live
    /\ left.pending # None => Kept(left.pending.backup)
    /\ app = "ready" /\ left.pending # None => main = backup[left.pending.backup].of /\ wal = None
    /\ left.moved # None => left.moved >= allowed.starts
    /\ app \in {"hashed", "copied"} => left.moved # allowed.starts
    /\ app \in {"moved", "cleared", "switched", "ready"} /\ left.pending # None => left.moved # None
    /\ moved # None /\ left.moved = allowed.starts => moved = left.main

\* What a job has done, by where it is.
Sound(t) ==
  working[t] # None =>
    LET e == working[t]
    IN /\ app = "up" /\ e.job[1] = t /\ e.job \in Db!Live.running
       /\ e.at \in Making => t # "verify" /\ e.of # None
       /\ e.at = "checked" => t = "restore"
       /\ e.at = "hashed" => t = "verify" /\ Db!Live.row[e.job[2]] \in Db!Made
       /\ e.at \in {"begun", "vacuumed", "renamed"} => Db!Live.row[e.of] = "running"
       /\ e.at = "begun" => backup[e.of].is = "begun"
       /\ e.at = "vacuumed" => backup[e.of].is = "temporary"
       /\ e.at \in {"renamed", "made"} => Kept(e.of)

SafeSnapshot ==
  working["restore"] # None =>
    LET e == working["restore"]
        a == e.job[2]
    IN /\ e.at \in {"checked"} \union Making => Db!Live.row[a] \in Db!Made
       /\ e.at \in Making => e.of # a
       /\ e.at \in {"vacuumed", "renamed", "made"} =>
            e.job \in backup[e.of].of.running /\ backup[e.of].of.row[a] \in Db!Made

\* A backup and the safety backup of a restore may be made at the same time.
ApartInv ==
  /\ working["create"] # None /\ working["create"].at \in Making
  /\ working["restore"] # None /\ working["restore"].at \in Making
  => working["create"].of # working["restore"].of

JobsInv == (\A t \in Db!Types : Sound(t)) /\ SafeSnapshot /\ ApartInv

\* Where the database file is that was left.
FileInv ==
  /\ app # "up" => IF left.moved = None THEN main = left.main ELSE <<left.moved, left.main>> \in copies
  /\ app = "ready" /\ left.pending # None => left.moved # None

\* Where the content is that was left; a log is there only until the first start has moved its file.
LogInv ==
  app # "up" /\ left.pending # None =>
    /\ Db!Same(left.main, left.live) \/ wal = left.live \/ left.lost = left.live
    /\ wal # None => wal = left.live
    /\ main # None /\ wal # None => left.moved = None
    /\ moved # None /\ wal # None => left.moved = allowed.starts

RestoreInv ==
  /\ Db!TypeOK /\ FilesInv /\ Db!RowsHaveFiles /\ Db!PendingIsSafe
  /\ PlaceInv /\ LeftInv /\ FileInv /\ LogInv /\ JobsInv

-----------------------------------------------------------------------------
\* A file that was made stays what it is, whole or damaged.
Lasting == \A a \in Db!Artifacts : Kept(a) => Kept(a)' /\ backup'[a].of = backup[a].of

LEMMA FilesLast ==
  ASSUME Db!BackupAssumption, RestoreInv, Db!Next
  PROVE  Lasting /\ FilesInv'
<1> USE DEF RestoreInv
<1>1. backup \in [Db!Artifacts -> Db!File] BY DEF Db!TypeOK
<1>2. CASE UNCHANGED backup
  <2>1. \A a \in Db!Artifacts : backup'[a] = backup[a] BY <1>2
  <2> QED BY <2>1 DEF Lasting, Kept, FilesInv
<1>3. ASSUME NEW a \in Db!Artifacts, Db!Damage(a) PROVE Lasting /\ FilesInv'
  <2>1. \A b \in Db!Artifacts : /\ backup'[b].of = backup[b].of
                                /\ backup'[b].is = IF b = a THEN "damaged" ELSE backup[b].is
    BY <1>1, <1>3 DEF Db!Damage, Db!File
  <2>2. backup[a].is = "whole" BY <1>3 DEF Db!Damage
  <2> QED BY <2>1, <2>2 DEF Lasting, Kept, FilesInv
<1>4. ASSUME NEW t \in Db!Types, Db!CreateBegins(t) PROVE Lasting /\ FilesInv'
  <2>1. PICK a \in Db!Artifacts : backup[a].is = "none" /\ backup' = [backup EXCEPT ![a].is = "begun"]
    BY <1>4 DEF Db!CreateBegins
  <2>2. \A b \in Db!Artifacts : /\ backup'[b].of = backup[b].of
                                /\ backup'[b].is = IF b = a THEN "begun" ELSE backup[b].is
    BY <1>1, <2>1 DEF Db!File
  <2> QED BY <2>1, <2>2 DEF Lasting, Kept, FilesInv
<1>5. ASSUME NEW t \in Db!Types, working[t] # None, working[t].at \in Making
      PROVE  working[t].of \in Db!Artifacts /\ t # "verify"
  BY <1>5 DEF Db!TypeOK, Db!Execution, JobsInv, Sound
<1>6. ASSUME NEW t \in Db!Types, Db!CreateCopies(t) PROVE Lasting /\ FilesInv'
  <2> DEFINE o == working[t].of
  <2>1. working[t] # None /\ working[t].at = "begun" /\ app = "up"
    BY <1>6 DEF Db!CreateCopies, Db!At
  <2>2. o \in Db!Artifacts BY <1>5, <2>1 DEF Making
  <2>3. backup[o].is = "begun" BY <2>1 DEF JobsInv, Sound
  <2>4. Db!Live # None BY <2>1 DEF PlaceInv, Db!Live
  <2>5. \A b \in Db!Artifacts : /\ backup'[b].of = IF b = o THEN Db!Live ELSE backup[b].of
                                /\ backup'[b].is = IF b = o THEN "temporary" ELSE backup[b].is
    BY <1>1, <1>6, <2>2 DEF Db!CreateCopies
  <2> QED BY <2>3, <2>4, <2>5 DEF Lasting, Kept, FilesInv
<1>7. ASSUME NEW t \in Db!Types, Db!CreateRenames(t) PROVE Lasting /\ FilesInv'
  <2> DEFINE o == working[t].of
  <2>1. working[t] # None /\ working[t].at = "vacuumed" BY <1>7 DEF Db!CreateRenames, Db!At
  <2>2. o \in Db!Artifacts BY <1>5, <2>1 DEF Making
  <2>3. backup[o].is = "temporary" BY <2>1 DEF JobsInv, Sound
  <2>4. \A b \in Db!Artifacts : /\ backup'[b].of = backup[b].of
                                /\ backup'[b].is = IF b = o THEN "whole" ELSE backup[b].is
    BY <1>1, <1>7, <2>2 DEF Db!CreateRenames, Db!File
  <2> QED BY <2>2, <2>3, <2>4 DEF Lasting, Kept, FilesInv
<1>8. ASSUME NEW t \in Db!Types, Db!CreateFails(t) PROVE Lasting /\ FilesInv'
  <2> DEFINE o == working[t].of
  <2>1. working[t] # None /\ working[t].at \in Making BY <1>8 DEF Db!CreateFails, Db!At, Making
  <2>2. o \in Db!Artifacts BY <1>5, <2>1
  <2>3. \A b \in Db!Artifacts :
          backup'[b] = IF b = o /\ backup[b].is = "temporary" THEN [Db!NoFile EXCEPT !.is = "begun"]
                       ELSE backup[b]
    BY <1>1, <1>8, <2>2 DEF Db!CreateFails
  <2> QED BY <2>3 DEF Lasting, Kept, FilesInv, Db!NoFile
<1>9. UNCHANGED backup \/ (\E a \in Db!Artifacts : Db!Damage(a))
        \/ (\E t \in Db!Types : Db!CreateBegins(t) \/ Db!CreateCopies(t) \/ Db!CreateRenames(t) \/ Db!CreateFails(t))
  BY DEF Db!Next, Db!jobVars, Db!startVars, Db!Write, Db!AutoCheckpoint, Db!RequestBackup,
         Db!ScheduleDailyBackup, Db!RequestVerify, Db!OpenRestore, Db!RequestRestore,
         Db!CancelPendingRestore, Db!Claim, Db!CreateSucceeds, Db!Throws, Db!Settles,
         Db!VerifyHashes, Db!VerifySucceeds, Db!PrepareChecks, Db!PrepareWrites, Db!Stop, Db!Crash,
         Db!Upgrade, Db!Migrate, Db!Start, Db!CopyBackup, Db!MoveDatabase, Db!ClearLog, Db!Switch,
         Db!Applied, Db!StartFails, Db!Connect
<1> QED BY <1>2, <1>3, <1>4, <1>6, <1>7, <1>8, <1>9

-----------------------------------------------------------------------------
(* The steps of the application. *)

\* A statement and a checkpoint change what the application reads as they say, and leave the file.
LEMMA Statements ==
  ASSUME Db!BackupAssumption, Db!TypeOK, main # None
  PROVE  /\ Db!Live \in Db!Content /\ Db!Live \in Db!Contents
         /\ \A c \in Db!Content : Db!Store(c) =>
              /\ Db!Live' = c /\ main' = main /\ main' # None /\ wal' \in Db!Content
         /\ Db!Checkpoint => /\ Db!Live' = Db!Live /\ main' # None
                             /\ main' \in Db!Content /\ wal' = None
         /\ UNCHANGED <<main, wal>> => Db!Live' = Db!Live /\ main' # None
<1>1. main \in Db!Content /\ wal \in Db!Content \union {None} BY DEF Db!TypeOK
<1>2. None \notin Db!Content BY DEF Db!BackupAssumption
<1>3. Db!Live \in Db!Content /\ Db!Live \in Db!Contents
  BY <1>1, <1>2 DEF Db!Live, Db!Contents
<1>4. ASSUME NEW c \in Db!Content, Db!Store(c)
      PROVE Db!Live' = c /\ main' = main /\ main' # None /\ wal' \in Db!Content
  BY <1>2, <1>4 DEF Db!Store, Db!Live
<1>5. ASSUME Db!Checkpoint
      PROVE Db!Live' = Db!Live /\ main' # None /\ main' \in Db!Content /\ wal' = None
  BY <1>2, <1>3, <1>5 DEF Db!Checkpoint, Db!Live
<1> QED BY <1>3, <1>4, <1>5 DEF Db!Live

\* What a step of a job of type t about the backup o leaves to the other jobs.
Frame(t, o) ==
  /\ app = "up" /\ app' = "up"
  /\ \A a \in Db!Artifacts : Db!Live.row[a] \in Db!Made => Db!Live'.row[a] \in Db!Made
  /\ \A a \in Db!Artifacts : a # o /\ Db!Live.row[a] = "running" => Db!Live'.row[a] = "running"
  /\ \A a \in Db!Artifacts : a # o => \/ backup'[a] = backup[a]
                                      \/ Kept(a)
  /\ \A j \in Db!Live.running : j[1] # t => j \in Db!Live'.running

LEMMA OthersGoOn ==
  ASSUME Db!TypeOK, JobsInv, Lasting, NEW t, NEW o, Frame(t, o),
         NEW u \in Db!Types, u # t, working'[u] = working[u],
         working[u] # None /\ working[u].at \in Making => working[u].of # o
  PROVE  Sound(u)' /\ (u = "restore" => SafeSnapshot')
<1>1. CASE working[u] = None BY <1>1 DEF Sound, SafeSnapshot
<1>2. CASE working[u] # None
  <2> DEFINE e == working[u]
  <2>1. /\ e \in Db!Execution /\ e.job \in Db!Jobs
        /\ e.of \in Db!Artifacts \union {None}
    BY <1>2 DEF Db!TypeOK, Db!Execution
  <2>2. e.job[1] = u /\ (u # "create" => e.job[2] \in Db!Artifacts)
    BY <1>2, <2>1, JobParts DEF JobsInv, Sound
  <2>3. e.job \in Db!Live'.running
    BY <1>2, <2>2 DEF JobsInv, Sound, Frame
  <2>4. ASSUME e.at \in Making
        PROVE  /\ e.of \in Db!Artifacts /\ e.of # o
               /\ Db!Live.row[e.of] = "running" => Db!Live'.row[e.of] = "running"
               /\ backup[e.of].is \in {"begun", "temporary"} => backup'[e.of] = backup[e.of]
               /\ Kept(e.of) => Kept(e.of)' /\ backup'[e.of].of = backup[e.of].of
    <3>1. e.of \in Db!Artifacts /\ e.of # o
      BY <1>2, <2>1, <2>4 DEF JobsInv, Sound
    <3> QED BY <3>1 DEF Frame, Lasting, Kept
  <2>5. Sound(u)'
    <3>1. app' = "up" BY DEF Frame
    <3>2. e.at = "hashed" => Db!Live'.row[e.job[2]] \in Db!Made
      BY <1>2, <2>2 DEF JobsInv, Sound, Frame
    <3> QED BY <1>2, <2>2, <2>3, <2>4, <3>1, <3>2 DEF JobsInv, Sound, Kept, Making
  <2>6. ASSUME u = "restore" PROVE SafeSnapshot'
    <3>1. e.at \in {"checked"} \union Making => Db!Live'.row[e.job[2]] \in Db!Made
      BY <1>2, <2>2, <2>6 DEF JobsInv, SafeSnapshot, Frame
    <3>2. e.at \in {"vacuumed", "renamed", "made"} => backup'[e.of].of = backup[e.of].of
      BY <1>2, <2>4 DEF JobsInv, Sound, Making, Kept
    <3> QED BY <1>2, <2>6, <3>1, <3>2 DEF JobsInv, SafeSnapshot
  <2> QED BY <2>5, <2>6
<1> QED BY <1>1, <1>2

\* The parts of the invariant that a step of the application does not reach.
LEMMA AppStepKeeps ==
  ASSUME Db!BackupAssumption, RestoreInv, Lasting, app = "up", app' = "up", main' # None,
         UNCHANGED moved, pending' = pending \/ pending' = None
  PROVE  PlaceInv' /\ LeftInv' /\ FileInv' /\ LogInv' /\ Db!PendingIsSafe'
<1>1. PlaceInv' /\ LeftInv' /\ FileInv' /\ LogInv'
  <2>1. moved' = None BY DEF RestoreInv, PlaceInv
  <2>2. pending' # None => Kept(pending.backup)'
    <3>1. pending # None => pending.backup \in Db!Artifacts /\ Kept(pending.backup)
      BY DEF RestoreInv, Db!TypeOK, Db!Manifest, PlaceInv
    <3> QED BY <3>1 DEF Lasting, Kept
  <2> QED BY <2>1, <2>2 DEF PlaceInv, LeftInv, FileInv, LogInv
<1>2. Db!PendingIsSafe'
  <2>1. CASE pending' = None BY <2>1 DEF Db!PendingIsSafe
  <2>2. CASE pending' = pending /\ pending # None
    <3>1. pending.safety \in Db!Artifacts BY <2>2 DEF RestoreInv, Db!TypeOK, Db!Manifest
    <3>2. Kept(pending.safety) BY <2>2 DEF RestoreInv, Db!PendingIsSafe, Kept
    <3>3. /\ backup'[pending.safety].is \in {"whole", "damaged"}
          /\ backup'[pending.safety].of = backup[pending.safety].of
      BY <3>1, <3>2 DEF Lasting, Kept
    <3> QED BY <2>2, <3>3 DEF RestoreInv, Db!PendingIsSafe, Kept
  <2> QED BY <2>1, <2>2
<1> QED BY <1>1, <1>2

\* The rows tell the truth as long as each new content only says of a backup what was true, or that
\* it was made when it is there.
LEMMA RowsStayTrue ==
  ASSUME Db!BackupAssumption, RestoreInv, Lasting,
         \A c \in Db!Contents' : c \in Db!Contents \/ Known(c)'
  PROVE  Db!RowsHaveFiles'
<1>1. ASSUME NEW c \in Db!Contents PROVE Known(c)'
  BY <1>1 DEF Known, Lasting, RestoreInv, Db!RowsHaveFiles, Kept
<1> QED BY <1>1 DEF Known, Db!RowsHaveFiles, Kept

LEMMA AppByParts ==
  ASSUME Db!BackupAssumption, RestoreInv, Db!Next, app = "up", UNCHANGED Db!startVars,
         main' \in {main, Db!Live}, wal' \in {wal, None, Db!Live'}, Known(Db!Live)',
         \A a \in Db!Artifacts : backup'[a].of \in {backup[a].of, Db!Live, None},
         pending' = pending \/ pending' = None, Db!TypeOK', JobsInv'
  PROVE  RestoreInv'
<1>1. main # None /\ Db!TypeOK BY DEF RestoreInv, PlaceInv
<1>2. Db!Live \in Db!Contents /\ Db!Live # None
  BY <1>1, Statements DEF Db!BackupAssumption
<1>3. main' # None BY <1>1, <1>2
<1>4. Lasting /\ FilesInv' BY FilesLast
<1>5. UNCHANGED <<copies, app, moved, left>> BY DEF Db!startVars
<1>6. PlaceInv' /\ LeftInv' /\ FileInv' /\ LogInv' /\ Db!PendingIsSafe'
  BY <1>3, <1>4, <1>5, AppStepKeeps
<1>7. \A c \in Db!Contents' : c \in Db!Contents \/ Known(c)'
  <2>1. SUFFICES ASSUME NEW c \in Db!Contents', c # Db!Live' PROVE c \in Db!Contents
    BY DEF Known
  <2>2. \/ c = main' \/ c = wal' \/ (\E a \in Db!Artifacts : c = backup'[a].of)
        \/ c \in {d[2] : d \in copies}
    BY <1>5, <2>1 DEF Db!Contents
  <2>3. c # None BY <2>1 DEF Db!Contents
  <2> QED BY <1>1, <1>2, <2>1, <2>2, <2>3 DEF Db!Contents
<1>8. Db!RowsHaveFiles' BY <1>4, <1>7, RowsStayTrue
<1> QED BY <1>4, <1>6, <1>8 DEF RestoreInv

\* What a content says stays true while its rows say no more.
LEMMA SameRows ==
  ASSUME RestoreInv, Lasting, NEW c \in Db!Contents, Db!Live'.row = c.row
  PROVE  Known(Db!Live)'
BY DEF RestoreInv, Lasting, Known, Db!RowsHaveFiles, Kept

LEMMA JobsByParts ==
  ASSUME Db!TypeOK, JobsInv, Lasting, NEW t, NEW o, Frame(t, o),
         \A u \in Db!Types : u # t => /\ working'[u] = working[u]
                                      /\ working[u] # None /\ working[u].at \in Making => working[u].of # o,
         t \in Db!Types => Sound(t)', t = "restore" => SafeSnapshot',
         t \in Db!Types /\ working'[t] # None /\ working'[t].at \in Making =>
           \/ working'[t].of = o
           \/ working[t] # None /\ working[t].at \in Making /\ working'[t].of = working[t].of
  PROVE  JobsInv'
<1>1. \A u \in Db!Types : u # t => Sound(u)' /\ (u = "restore" => SafeSnapshot')
  BY OthersGoOn
<1>2. (\A u \in Db!Types : Sound(u)') /\ SafeSnapshot'
  BY <1>1 DEF Db!Types
<1>3. ApartInv'
  BY DEF JobsInv, ApartInv, Db!Types
<1> QED BY <1>2, <1>3 DEF JobsInv

\* What the pages and the other components do leaves the jobs, the files and the rows alone.
LEMMA RequestsKeep ==
  ASSUME Db!BackupAssumption, RestoreInv, Db!Next,
         \/ Db!Write \/ Db!AutoCheckpoint \/ Db!RequestBackup \/ Db!ScheduleDailyBackup
         \/ (\E a \in Db!Artifacts : Db!RequestVerify(a) \/ Db!OpenRestore(a))
         \/ Db!RequestRestore \/ Db!CancelPendingRestore
  PROVE  RestoreInv'
<1> USE DEF Db!jobVars, Db!startVars
<1>1. app = "up" /\ main # None /\ Db!TypeOK
  BY DEF RestoreInv, PlaceInv, Db!Write, Db!AutoCheckpoint, Db!RequestBackup, Db!ScheduleDailyBackup,
         Db!RequestVerify, Db!OpenRestore, Db!RequestRestore, Db!CancelPendingRestore
<1>2. Db!Live \in Db!Content /\ Db!Live \in Db!Contents BY <1>1, Statements
<1>3. /\ UNCHANGED <<backup, working>> /\ UNCHANGED Db!startVars
      /\ pending' = pending \/ pending' = None
  BY DEF Db!Write, Db!AutoCheckpoint, Db!RequestBackup, Db!ScheduleDailyBackup,
         Db!RequestVerify, Db!OpenRestore, Db!RequestRestore, Db!CancelPendingRestore
<1>4. /\ page' \in Db!Artifacts \union {None} /\ allowed' \in Db!Budget
  <2>1. page \in Db!Artifacts \union {None} /\ allowed \in Db!Budget BY <1>1 DEF Db!TypeOK
  <2>2. page' \in Db!Artifacts \union {None}
    BY <2>1 DEF Db!Write, Db!AutoCheckpoint, Db!RequestBackup, Db!ScheduleDailyBackup,
         Db!RequestVerify, Db!OpenRestore, Db!RequestRestore, Db!CancelPendingRestore
  <2>3. allowed' = allowed \/ Db!Spend("writes") \/ Db!Spend("requests")
    BY DEF Db!Write, Db!AutoCheckpoint, Db!RequestBackup, Db!ScheduleDailyBackup, Db!Enqueue,
         Db!RequestVerify, Db!OpenRestore, Db!RequestRestore, Db!CancelPendingRestore
  <2> QED BY <2>1, <2>2, <2>3 DEF Db!Spend, Db!Budget
<1> DEFINE Same == /\ Db!Live'.row = Db!Live.row /\ Db!Live'.running = Db!Live.running
                   /\ main' \in {main, Db!Live} /\ wal' \in {wal, None, Db!Live'}
                   /\ main' \in Db!Content /\ wal' \in Db!Content \union {None}
<1>5. Same
  <2>1. main \in Db!Content /\ wal \in Db!Content \union {None} BY <1>1 DEF Db!TypeOK
  <2>2. ASSUME NEW c \in Db!Content, Db!Store(c), c.row = Db!Live.row, c.running = Db!Live.running
        PROVE  Same
    BY <1>1, <2>1, <2>2, Statements DEF Db!Store
  <2>3. ASSUME Db!Checkpoint PROVE Same BY <1>1, <1>2, <2>3, Statements DEF Db!Checkpoint
  <2>4. ASSUME UNCHANGED <<main, wal>> PROVE Same BY <2>1, <2>4 DEF Db!Live
  <2>5. ASSUME NEW j \in Db!Jobs, Db!Enqueue(j) PROVE Same
    <3>1. Db!Store(Db!Queue(Db!Live, {j})) BY <2>5 DEF Db!Enqueue
    <3> QED BY <1>2, <2>2, <3>1, Contents
  <2>6. ASSUME Db!Write PROVE Same
    <3>1. Db!Store([Db!Live EXCEPT !.writes = Db!Live.writes + 1]) BY <2>6 DEF Db!Write
    <3> QED BY <1>2, <2>2, <3>1, Contents
  <2>7. /\ \A a \in Db!Artifacts : <<"verify", a>> \in Db!Jobs /\ <<"restore", a>> \in Db!Jobs
        /\ <<"create", "manual">> \in Db!Jobs /\ <<"create", "daily">> \in Db!Jobs
    BY DEF Db!Jobs
  <2>8. page \in Db!Artifacts \union {None} BY <1>1 DEF Db!TypeOK
  <2> QED BY <2>3, <2>4, <2>5, <2>6, <2>7, <2>8 DEF Db!AutoCheckpoint, Db!RequestBackup,
           Db!ScheduleDailyBackup, Db!RequestVerify, Db!OpenRestore, Db!RequestRestore,
           Db!CancelPendingRestore
<1>6. Lasting BY FilesLast
<1>7. JobsInv'
  <2>1. Frame("none", None) BY <1>1, <1>3, <1>5 DEF Frame
  <2>2. "none" \notin Db!Types BY DEF Db!Types
  <2>3. \A u \in Db!Types : /\ working'[u] = working[u]
                            /\ working[u] # None /\ working[u].at \in Making => working[u].of # None
    BY <1>3 DEF RestoreInv, JobsInv, Sound
  <2> QED BY <1>1, <1>6, <2>1, <2>2, <2>3, JobsByParts DEF RestoreInv
<1>8. Db!TypeOK' BY <1>1, <1>3, <1>4, <1>5 DEF Db!TypeOK
<1>9. Known(Db!Live)' BY <1>2, <1>5, <1>6, SameRows
<1> QED BY <1>1, <1>3, <1>5, <1>7, <1>8, <1>9, AppByParts

LEMMA DamageKeeps ==
  ASSUME Db!BackupAssumption, RestoreInv, Db!Next, NEW a \in Db!Artifacts, Db!Damage(a)
  PROVE  RestoreInv'
<1>1. /\ UNCHANGED <<main, wal, pending, working, page>> /\ UNCHANGED Db!startVars /\ Db!Spend("damages")
      /\ backup[a].is = "whole" /\ backup' = [backup EXCEPT ![a].is = "damaged"]
  BY DEF Db!Damage
<1>2. Db!TypeOK /\ backup \in [Db!Artifacts -> Db!File] BY DEF RestoreInv, Db!TypeOK
<1>3. \A b \in Db!Artifacts : /\ backup'[b].of = backup[b].of
                              /\ backup'[b].is = IF b = a THEN "damaged" ELSE backup[b].is
                              /\ b # a => backup'[b] = backup[b]
  BY <1>1, <1>2 DEF Db!File
<1>4. Lasting /\ FilesInv' BY FilesLast
<1>5. Db!TypeOK'
  <2>1. backup' \in [Db!Artifacts -> Db!File] BY <1>1, <1>2 DEF Db!File
  <2>2. allowed' \in Db!Budget BY <1>1, <1>2 DEF Db!TypeOK, Db!Spend, Db!Budget
  <2> QED BY <1>1, <1>2, <2>1, <2>2 DEF Db!TypeOK, Db!startVars
<1>6. \A b \in Db!Artifacts : Kept(b) <=> Kept(b)'
  BY <1>1, <1>3 DEF Kept
<1>7. Db!Live' = Db!Live BY <1>1 DEF Db!Live
<1>8. Db!RowsHaveFiles'
  <2>1. Db!Contents' = Db!Contents BY <1>1, <1>3 DEF Db!Contents, Db!startVars
  <2> QED BY <1>4, <2>1, RowsStayTrue
<1>9. Db!PendingIsSafe' /\ PlaceInv' /\ LeftInv' /\ FileInv' /\ LogInv'
  <2>1. /\ pending # None => pending.backup \in Db!Artifacts /\ pending.safety \in Db!Artifacts
        /\ left.pending # None => left.pending.backup \in Db!Artifacts
    BY <1>2 DEF Db!TypeOK, Db!Manifest
  <2>2. allowed'.starts = allowed.starts BY <1>1, <1>2 DEF Db!TypeOK, Db!Spend, Db!Budget
  <2>3. UNCHANGED <<copies, app, moved, code, left, main, wal, pending>> BY <1>1 DEF Db!startVars
  <2>4. Db!PendingIsSafe' BY <1>3, <2>1, <2>3 DEF RestoreInv, Db!PendingIsSafe
  <2>5. PlaceInv' BY <1>3, <2>1, <2>2, <2>3 DEF RestoreInv, PlaceInv, Kept
  <2>6. LeftInv' BY <1>3, <1>7, <2>1, <2>2, <2>3 DEF RestoreInv, LeftInv, Kept
  <2>7. FileInv' BY <2>3 DEF RestoreInv, FileInv
  <2>8. LogInv' BY <2>2, <2>3 DEF RestoreInv, LogInv, Db!Same
  <2> QED BY <2>4, <2>5, <2>6, <2>7, <2>8
<1>10. JobsInv'
  <2>1. \A t \in Db!Types : working[t] # None =>
          /\ working[t].of \in Db!Artifacts \union {None}
          /\ working[t].at \in Making => working[t].of # None
    BY <1>2 DEF Db!TypeOK, Db!Execution, RestoreInv, JobsInv, Sound
  <2>2. ASSUME NEW t \in Db!Types PROVE Sound(t)'
    BY <1>1, <1>3, <1>7, <2>1 DEF RestoreInv, JobsInv, Sound, Kept, Making, Db!startVars
  <2>3. "restore" \in Db!Types BY DEF Db!Types
  <2>4. SafeSnapshot'
    BY <1>1, <1>3, <1>7, <2>1, <2>3 DEF RestoreInv, JobsInv, SafeSnapshot, Making
  <2> QED BY <1>1, <2>2, <2>4 DEF RestoreInv, JobsInv, ApartInv
<1> QED BY <1>4, <1>5, <1>8, <1>9, <1>10 DEF RestoreInv

-----------------------------------------------------------------------------
(* The steps of the jobs. *)

LEMMA JobStepByParts ==
  ASSUME Db!BackupAssumption, RestoreInv, Db!Next, UNCHANGED Db!startVars, UNCHANGED <<page, pending>>,
         NEW t \in Db!Types, NEW o, Frame(t, o),
         \A u \in Db!Types : u # t => /\ working'[u] = working[u]
                                      /\ working[u] # None /\ working[u].at \in Making => working[u].of # o,
         Sound(t)', t = "restore" => SafeSnapshot',
         working'[t] # None /\ working'[t].at \in Making =>
           \/ working'[t].of = o
           \/ working[t] # None /\ working[t].at \in Making /\ working'[t].of = working[t].of,
         main' \in {main, Db!Live}, wal' \in {wal, None, Db!Live'}, Known(Db!Live)', Db!Live' \in Db!Content,
         \A a \in Db!Artifacts : backup'[a].of \in {backup[a].of, Db!Live, None},
         backup' \in [Db!Artifacts -> Db!File], allowed' \in Db!Budget,
         working' \in [Db!Types -> Db!Execution \union {None}]
  PROVE  RestoreInv'
<1>1. app = "up" /\ main # None /\ Db!TypeOK BY DEF Frame, RestoreInv, PlaceInv
<1>2. Db!Live \in Db!Content BY <1>1, Statements
<1>3. main' \in Db!Content /\ wal' \in Db!Content \union {None} BY <1>1, <1>2 DEF Db!TypeOK
<1>4. Db!TypeOK' BY <1>1, <1>3 DEF Db!TypeOK, Db!startVars
<1>5. Lasting BY FilesLast
<1>6. JobsInv' BY <1>1, <1>5, JobsByParts DEF RestoreInv
<1> QED BY <1>1, <1>4, <1>6, AppByParts

LEMMA StepOfJob ==
  ASSUME Db!BackupAssumption, RestoreInv, NEW t \in Db!Types, NEW s, Db!At(t, s)
  PROVE  /\ app = "up" /\ main # None /\ Db!Live \in Db!Content /\ Db!Live \in Db!Contents
         /\ working[t] # None /\ working[t].at = s
         /\ working[t] \in Db!Execution /\ working[t].job \in Db!Jobs
         /\ working[t].job[1] = t /\ working[t].job \in Db!Live.running
         /\ t # "create" => Db!Target(t) \in Db!Artifacts /\ Db!Target(t) = working[t].job[2]
         /\ s \in Making => /\ working[t].of \in Db!Artifacts /\ working[t].of # None /\ t # "verify"
                            /\ \A u \in Db!Types : u # t /\ working[u] # None /\ working[u].at \in Making
                                 => working[u].of # working[t].of
         /\ \A u \in Db!Types : working[u] # None /\ working[u].at \in Making => working[u].of # None
<1>1. Db!TypeOK BY DEF RestoreInv
<1>2. app = "up" /\ working[t] # None /\ working[t].at = s BY DEF Db!At
<1>3. main # None BY <1>2 DEF RestoreInv, PlaceInv
<1>4. working[t] \in Db!Execution /\ working[t].job \in Db!Jobs
  BY <1>1, <1>2 DEF Db!TypeOK, Db!Execution
<1>5. working[t].job[1] = t /\ working[t].job \in Db!Live.running
  BY <1>2 DEF RestoreInv, JobsInv, Sound
<1>6. t # "create" => Db!Target(t) \in Db!Artifacts /\ Db!Target(t) = working[t].job[2]
  BY <1>4, <1>5, JobParts DEF Db!Target
<1>7. s \in Making => /\ working[t].of \in Db!Artifacts /\ working[t].of # None /\ t # "verify"
                      /\ \A u \in Db!Types : u # t /\ working[u] # None /\ working[u].at \in Making
                           => working[u].of # working[t].of
  BY <1>2, <1>4 DEF Db!Execution, RestoreInv, JobsInv, Sound, ApartInv, Db!Types
<1>8. \A u \in Db!Types : working[u] # None /\ working[u].at \in Making => working[u].of # None
  BY DEF RestoreInv, JobsInv, Sound
<1>9. Db!Live \in Db!Content /\ Db!Live \in Db!Contents BY <1>1, <1>3, Statements
<1> QED BY <1>2, <1>3, <1>4, <1>5, <1>6, <1>7, <1>8, <1>9

LEMMA Goes ==
  ASSUME Db!TypeOK, NEW t \in Db!Types, working[t] # None, NEW s, Db!Goes(t, s),
         s \in {"start", "begun", "vacuumed", "renamed", "made", "hashed", "checked", "done", "failed"}
  PROVE  /\ working' \in [Db!Types -> Db!Execution \union {None}]
         /\ working'[t].at = s /\ working'[t].job = working[t].job /\ working'[t].of = working[t].of
         /\ \A u \in Db!Types : u # t => working'[u] = working[u]
<1>1. working[t] \in Db!Execution BY DEF Db!TypeOK
<1>2. working' = [working EXCEPT ![t] = [working[t] EXCEPT !.at = s]]
  BY DEF Db!Goes
<1>3. [working[t] EXCEPT !.at = s] \in Db!Execution BY <1>1 DEF Db!Execution
<1>4. working'[t] = [working[t] EXCEPT !.at = s] /\ \A u \in Db!Types : u # t => working'[u] = working[u]
  BY <1>2 DEF Db!TypeOK
<1> QED BY <1>1, <1>2, <1>3, <1>4 DEF Db!TypeOK, Db!Execution

LEMMA ClaimKeeps ==
  ASSUME Db!BackupAssumption, RestoreInv, Db!Next, NEW j \in Db!Jobs, Db!Claim(j)
  PROVE  RestoreInv'
<1> DEFINE t == j[1]
           d == [Db!Live EXCEPT !.queued = @ \ {j}, !.running = @ \union {j}]
           e == [job |-> j, at |-> "start", of |-> None]
<1>1. /\ app = "up" /\ working[t] = None /\ Db!Store(d) /\ working' = [working EXCEPT ![t] = e]
      /\ UNCHANGED <<backup, pending, page, allowed>> /\ UNCHANGED Db!startVars
  BY DEF Db!Claim
<1>2. main # None /\ Db!TypeOK BY <1>1 DEF RestoreInv, PlaceInv
<1>3. t \in Db!Types BY JobParts
<1>4. Db!Live \in Db!Content /\ Db!Live \in Db!Contents BY <1>2, Statements
<1>5. d \in Db!Content /\ d.row = Db!Live.row /\ d.running = Db!Live.running \union {j} BY <1>4, Contents
<1>6. Db!Live' = d /\ main' = main /\ wal' = d
  BY <1>1, <1>2, <1>5, Statements DEF Db!Store
<1> HIDE DEF d
<1>7. /\ working' \in [Db!Types -> Db!Execution \union {None}] /\ working'[t] = e
      /\ \A u \in Db!Types : u # t => working'[u] = working[u]
  BY <1>1, <1>2, <1>3 DEF Db!TypeOK, Db!Execution
<1>8. Frame(t, None) BY <1>1, <1>5, <1>6 DEF Frame, Db!startVars
<1>9. Sound(t)' BY <1>1, <1>5, <1>6, <1>7 DEF Sound, Making, Db!startVars
<1>10. t = "restore" => SafeSnapshot' BY <1>7 DEF SafeSnapshot, Making
<1>11. Known(Db!Live)'
  <2>1. Lasting BY FilesLast
  <2> QED BY <1>4, <1>5, <1>6, <2>1, SameRows
<1>12. \A u \in Db!Types : working[u] # None /\ working[u].at \in Making => working[u].of # None
  BY DEF RestoreInv, JobsInv, Sound
<1>13. working'[t].at \notin Making BY <1>7 DEF Making
<1>14. backup \in [Db!Artifacts -> Db!File] /\ allowed \in Db!Budget BY <1>2 DEF Db!TypeOK
<1> QED BY <1>1, <1>3, <1>5, <1>6, <1>7, <1>8, <1>9, <1>10, <1>11, <1>12, <1>13, <1>14, JobStepByParts

LEMMA CreateBeginsKeeps ==
  ASSUME Db!BackupAssumption, RestoreInv, Db!Next, NEW t \in Db!Types, Db!CreateBegins(t)
  PROVE  RestoreInv'
<1> DEFINE s == IF t = "restore" THEN "checked" ELSE "start"
<1>1. /\ Db!At(t, s) /\ t # "verify" /\ UNCHANGED <<pending, page, allowed>> /\ UNCHANGED Db!startVars
  BY DEF Db!CreateBegins
<1>2. PICK a \in Db!Artifacts :
        /\ backup[a].is = "none" /\ backup' = [backup EXCEPT ![a].is = "begun"]
        /\ Db!Store(Db!Row(Db!Live, a, "running"))
        /\ working' = [working EXCEPT ![t] = [working[t] EXCEPT !.at = "begun", !.of = a]]
  BY DEF Db!CreateBegins
<1>3. /\ app = "up" /\ main # None /\ Db!Live \in Db!Content /\ Db!Live \in Db!Contents
      /\ working[t] # None /\ working[t].at = s /\ working[t] \in Db!Execution
      /\ working[t].job \in Db!Jobs /\ working[t].job[1] = t /\ working[t].job \in Db!Live.running
      /\ t # "create" => working[t].job[2] \in Db!Artifacts
      /\ Db!TypeOK
  BY <1>1, StepOfJob DEF RestoreInv
<1> DEFINE d == Db!Row(Db!Live, a, "running")
<1>4. /\ d \in Db!Content /\ d.running = Db!Live.running
      /\ \A b \in Db!Artifacts : d.row[b] = IF b = a THEN "running" ELSE Db!Live.row[b]
  <2>1. "running" \in Db!Statuses BY DEF Db!Statuses
  <2>2. \A x \in Db!Artifacts, y \in Db!Statuses :
          /\ Db!Row(Db!Live, x, y) \in Db!Content
          /\ Db!Row(Db!Live, x, y).running = Db!Live.running
          /\ \A b \in Db!Artifacts : Db!Row(Db!Live, x, y).row[b] = IF b = x THEN y ELSE Db!Live.row[b]
    BY <1>3, Contents
  <2> QED BY <2>1, <2>2
<1>5. Db!Live' = d /\ main' = main /\ wal' = d BY <1>2, <1>3, <1>4, Statements DEF Db!Store
<1> HIDE DEF d
<1>6. /\ working' \in [Db!Types -> Db!Execution \union {None}]
      /\ working'[t] = [working[t] EXCEPT !.at = "begun", !.of = a]
      /\ working'[t].job = working[t].job /\ working'[t].at = "begun" /\ working'[t].of = a
      /\ \A u \in Db!Types : u # t => working'[u] = working[u]
  <2>1. [working[t] EXCEPT !.at = "begun", !.of = a] \in Db!Execution BY <1>3 DEF Db!Execution
  <2> QED BY <1>2, <1>3, <2>1 DEF Db!TypeOK, Db!Execution
<1>7. /\ backup' \in [Db!Artifacts -> Db!File]
      /\ \A b \in Db!Artifacts : /\ backup'[b].of = backup[b].of
                                 /\ backup'[b].is = IF b = a THEN "begun" ELSE backup[b].is
                                 /\ b # a => backup'[b] = backup[b]
  BY <1>2, <1>3 DEF Db!TypeOK, Db!File
<1>8. Db!Live.row[a] \notin Db!Made
  BY <1>2, <1>3 DEF RestoreInv, Db!RowsHaveFiles
<1>9. Frame(t, a) BY <1>1, <1>3, <1>4, <1>5, <1>7, <1>8 DEF Frame, Db!startVars
<1>10. Sound(t)'
  <2>1. a # None BY DEF Db!BackupAssumption
  <2> QED BY <1>1, <1>3, <1>4, <1>5, <1>6, <1>7, <2>1 DEF Sound, Making, Db!startVars
<1>11. t = "restore" => SafeSnapshot'
  <2>1. SUFFICES ASSUME t = "restore" PROVE SafeSnapshot' OBVIOUS
  <2>2. Db!Live.row[working[t].job[2]] \in Db!Made
    BY <1>3, <2>1 DEF RestoreInv, JobsInv, SafeSnapshot
  <2>3. a # working[t].job[2] BY <1>8, <2>2
  <2> QED BY <1>3, <1>4, <1>5, <1>6, <2>1, <2>2, <2>3 DEF SafeSnapshot
<1>12. Known(Db!Live)'
  <2>1. Lasting BY FilesLast
  <2>2. Known(Db!Live) BY <1>3 DEF RestoreInv, Db!RowsHaveFiles, Known, Kept
  <2> QED BY <1>4, <1>5, <2>1, <2>2 DEF Known, Lasting, Db!Made
<1>13. \A u \in Db!Types : u # t /\ working[u] # None /\ working[u].at \in Making => working[u].of # a
  <2>1. SUFFICES ASSUME NEW u \in Db!Types, working[u] # None, working[u].at \in Making, working[u].of = a
                 PROVE FALSE
    OBVIOUS
  <2> QED BY <1>2, <2>1 DEF RestoreInv, JobsInv, Sound, Kept, Making
<1>14. allowed' \in Db!Budget BY <1>1, <1>3 DEF Db!TypeOK
<1>15. Db!Live' \in Db!Content /\ main' \in {main, Db!Live} /\ wal' \in {wal, None, Db!Live'}
  BY <1>4, <1>5
<1>16. \A b \in Db!Artifacts : backup'[b].of \in {backup[b].of, Db!Live, None} BY <1>7
<1>17. Db!TypeOK' BY <1>1, <1>3, <1>4, <1>5, <1>6, <1>7, <1>14 DEF Db!TypeOK, Db!startVars
<1>18. JobsInv'
  <2>1. Lasting BY FilesLast
  <2>2. \A u \in Db!Types : u # t => /\ working'[u] = working[u]
                                     /\ working[u] # None /\ working[u].at \in Making => working[u].of # a
    BY <1>6, <1>13
  <2>3. working'[t].of = a BY <1>6
  <2>4. Db!TypeOK /\ JobsInv BY DEF RestoreInv
  <2> QED BY <1>9, <1>10, <1>11, <2>1, <2>2, <2>3, <2>4, JobsByParts
<1>19. UNCHANGED Db!startVars /\ UNCHANGED pending BY <1>1
<1> QED BY <1>3, <1>12, <1>15, <1>16, <1>17, <1>18, <1>19, AppByParts

LEMMA CreateCopiesKeeps ==
  ASSUME Db!BackupAssumption, RestoreInv, Db!Next, NEW t \in Db!Types, Db!CreateCopies(t)
  PROVE  RestoreInv'
<1> DEFINE o == working[t].of
<1>1. /\ Db!At(t, "begun") /\ Db!Goes(t, "vacuumed")
      /\ backup' = [backup EXCEPT ![o] = [is |-> "temporary", of |-> Db!Live]]
      /\ UNCHANGED <<main, wal, pending, page, allowed>> /\ UNCHANGED Db!startVars
  BY DEF Db!CreateCopies
<1>2. /\ app = "up" /\ main # None /\ Db!Live \in Db!Content /\ Db!Live \in Db!Contents
      /\ working[t] # None /\ working[t].at = "begun" /\ Db!TypeOK
      /\ working[t].job[1] = t /\ working[t].job \in Db!Live.running
      /\ t # "create" => working[t].job[2] \in Db!Artifacts
      /\ o \in Db!Artifacts /\ o # None /\ t # "verify"
      /\ \A u \in Db!Types : u # t /\ working[u] # None /\ working[u].at \in Making => working[u].of # o
  BY <1>1, StepOfJob DEF RestoreInv, Making
<1>3. /\ working' \in [Db!Types -> Db!Execution \union {None}]
      /\ working'[t].at = "vacuumed" /\ working'[t].job = working[t].job /\ working'[t].of = o
      /\ \A u \in Db!Types : u # t => working'[u] = working[u]
  BY <1>1, <1>2, Goes
<1>4. /\ backup' \in [Db!Artifacts -> Db!File] /\ backup'[o] = [is |-> "temporary", of |-> Db!Live]
      /\ \A b \in Db!Artifacts : b # o => backup'[b] = backup[b]
  <2>1. [is |-> "temporary", of |-> Db!Live] \in Db!File BY <1>2 DEF Db!File
  <2> QED BY <1>1, <1>2, <2>1 DEF Db!TypeOK
<1>5. Db!Live' = Db!Live BY <1>1 DEF Db!Live
<1>6. Frame(t, o) BY <1>1, <1>2, <1>4, <1>5 DEF Frame, Db!startVars
<1>7. Db!Live.row[o] = "running" BY <1>2 DEF RestoreInv, JobsInv, Sound
<1>8. Sound(t)' BY <1>1, <1>2, <1>3, <1>4, <1>5, <1>7 DEF Sound, Making, Db!startVars
<1>9. t = "restore" => SafeSnapshot'
  BY <1>2, <1>3, <1>4, <1>5 DEF RestoreInv, JobsInv, SafeSnapshot, Making
<1>10. Known(Db!Live)'
  <2>1. Lasting BY FilesLast
  <2> QED BY <1>2, <1>5, <2>1, SameRows
<1>11. allowed' \in Db!Budget BY <1>1, <1>2 DEF Db!TypeOK
<1>12. \A a \in Db!Artifacts : backup'[a].of \in {backup[a].of, Db!Live, None} BY <1>4
<1> QED BY <1>1, <1>2, <1>3, <1>4, <1>5, <1>6, <1>8, <1>9, <1>10, <1>11, <1>12, JobStepByParts

LEMMA CreateRenamesKeeps ==
  ASSUME Db!BackupAssumption, RestoreInv, Db!Next, NEW t \in Db!Types, Db!CreateRenames(t)
  PROVE  RestoreInv'
<1> DEFINE o == working[t].of
<1>1. /\ Db!At(t, "vacuumed") /\ Db!Goes(t, "renamed") /\ backup' = [backup EXCEPT ![o].is = "whole"]
      /\ UNCHANGED <<main, wal, pending, page, allowed>> /\ UNCHANGED Db!startVars
  BY DEF Db!CreateRenames
<1>2. /\ app = "up" /\ main # None /\ Db!Live \in Db!Content /\ Db!Live \in Db!Contents
      /\ working[t] # None /\ working[t].at = "vacuumed" /\ Db!TypeOK
      /\ working[t].job[1] = t /\ working[t].job \in Db!Live.running
      /\ t # "create" => working[t].job[2] \in Db!Artifacts
      /\ o \in Db!Artifacts /\ o # None /\ t # "verify"
      /\ \A u \in Db!Types : u # t /\ working[u] # None /\ working[u].at \in Making => working[u].of # o
  BY <1>1, StepOfJob DEF RestoreInv, Making
<1>3. /\ working' \in [Db!Types -> Db!Execution \union {None}]
      /\ working'[t].at = "renamed" /\ working'[t].job = working[t].job /\ working'[t].of = o
      /\ \A u \in Db!Types : u # t => working'[u] = working[u]
  BY <1>1, <1>2, Goes
<1>4. /\ backup' \in [Db!Artifacts -> Db!File]
      /\ \A b \in Db!Artifacts : /\ backup'[b].of = backup[b].of
                                 /\ backup'[b].is = IF b = o THEN "whole" ELSE backup[b].is
                                 /\ b # o => backup'[b] = backup[b]
  BY <1>1, <1>2 DEF Db!TypeOK, Db!File
<1>5. Db!Live' = Db!Live BY <1>1 DEF Db!Live
<1>6. Frame(t, o) BY <1>1, <1>2, <1>4, <1>5 DEF Frame, Db!startVars
<1>7. Db!Live.row[o] = "running" BY <1>2 DEF RestoreInv, JobsInv, Sound
<1>8. Sound(t)' BY <1>1, <1>2, <1>3, <1>4, <1>5, <1>7 DEF Sound, Making, Kept, Db!startVars
<1>9. t = "restore" => SafeSnapshot'
  BY <1>2, <1>3, <1>4, <1>5 DEF RestoreInv, JobsInv, SafeSnapshot, Making
<1>10. Known(Db!Live)'
  <2>1. Lasting BY FilesLast
  <2> QED BY <1>2, <1>5, <2>1, SameRows
<1>11. allowed' \in Db!Budget BY <1>1, <1>2 DEF Db!TypeOK
<1> QED BY <1>1, <1>2, <1>3, <1>4, <1>5, <1>6, <1>8, <1>9, <1>10, <1>11, JobStepByParts

\* A statement about one row.
LEMMA RowStored ==
  ASSUME Db!BackupAssumption, RestoreInv, Db!Next, app = "up",
         NEW a \in Db!Artifacts, NEW s \in Db!Statuses, Db!Store(Db!Row(Db!Live, a, s)),
         s \in Db!Made => Kept(a) /\ backup[a].of # None
  PROVE  /\ Db!Live' \in Db!Content /\ main' \in {main, Db!Live} /\ wal' \in {wal, None, Db!Live'}
         /\ Db!Live'.running = Db!Live.running /\ Known(Db!Live)'
         /\ \A b \in Db!Artifacts : Db!Live'.row[b] = IF b = a THEN s ELSE Db!Live.row[b]
<1> DEFINE d == Db!Row(Db!Live, a, s)
<1>1. main # None /\ Db!TypeOK BY DEF RestoreInv, PlaceInv
<1>2. Db!Live \in Db!Content /\ Db!Live \in Db!Contents BY <1>1, Statements
<1>3. \A x \in Db!Artifacts, y \in Db!Statuses :
        /\ Db!Row(Db!Live, x, y) \in Db!Content
        /\ Db!Row(Db!Live, x, y).running = Db!Live.running
        /\ \A b \in Db!Artifacts : Db!Row(Db!Live, x, y).row[b] = IF b = x THEN y ELSE Db!Live.row[b]
  BY <1>2, Contents
<1>4. /\ d \in Db!Content /\ d.running = Db!Live.running
      /\ \A b \in Db!Artifacts : d.row[b] = IF b = a THEN s ELSE Db!Live.row[b]
  BY <1>3
<1>5. Db!Live' = d /\ main' = main /\ wal' = d BY <1>1, <1>4, Statements DEF Db!Store
<1> HIDE DEF d
<1>6. Known(Db!Live)'
  <2>1. Lasting BY FilesLast
  <2>2. Known(Db!Live) BY <1>2 DEF RestoreInv, Db!RowsHaveFiles, Known, Kept
  <2> QED BY <1>4, <1>5, <2>1, <2>2 DEF Known, Lasting
<1> QED BY <1>4, <1>5, <1>6

LEMMA CreateSucceedsKeeps ==
  ASSUME Db!BackupAssumption, RestoreInv, Db!Next, NEW t \in Db!Types, Db!CreateSucceeds(t)
  PROVE  RestoreInv'
<1> DEFINE o == working[t].of
<1>1. /\ Db!At(t, "renamed") /\ Db!Goes(t, "made") /\ Db!Store(Db!Row(Db!Live, o, "succeeded"))
      /\ UNCHANGED <<backup, pending, page, allowed>> /\ UNCHANGED Db!startVars
  BY DEF Db!CreateSucceeds
<1>2. /\ app = "up" /\ main # None
      /\ working[t] # None /\ working[t].at = "renamed" /\ Db!TypeOK
      /\ working[t].job[1] = t /\ working[t].job \in Db!Live.running
      /\ t # "create" => working[t].job[2] \in Db!Artifacts
      /\ o \in Db!Artifacts /\ o # None /\ t # "verify"
      /\ \A u \in Db!Types : u # t /\ working[u] # None /\ working[u].at \in Making => working[u].of # o
  BY <1>1, StepOfJob DEF RestoreInv, Making
<1>3. /\ working' \in [Db!Types -> Db!Execution \union {None}]
      /\ working'[t].at = "made" /\ working'[t].job = working[t].job /\ working'[t].of = o
      /\ \A u \in Db!Types : u # t => working'[u] = working[u]
  BY <1>1, <1>2, Goes
<1>4. Kept(o) /\ Db!Live.row[o] = "running" /\ backup[o].of # None
  BY <1>2 DEF RestoreInv, JobsInv, Sound, FilesInv, Kept
<1>5. /\ Db!Live' \in Db!Content /\ main' \in {main, Db!Live} /\ wal' \in {wal, None, Db!Live'}
      /\ Db!Live'.running = Db!Live.running /\ Known(Db!Live)'
      /\ \A b \in Db!Artifacts : Db!Live'.row[b] = IF b = o THEN "succeeded" ELSE Db!Live.row[b]
  <2>1. "succeeded" \in Db!Statuses BY DEF Db!Statuses
  <2> QED BY <1>1, <1>2, <1>4, <2>1, RowStored
<1>6. Frame(t, o) BY <1>1, <1>2, <1>4, <1>5 DEF Frame, Db!startVars, Db!Made
<1>7. Sound(t)' BY <1>1, <1>2, <1>3, <1>4, <1>5 DEF Sound, Making, Kept, Db!startVars
<1>8. t = "restore" => SafeSnapshot'
  <2>1. SUFFICES ASSUME t = "restore" PROVE SafeSnapshot' OBVIOUS
  <2>2. /\ Db!Live.row[working[t].job[2]] \in Db!Made /\ working[t].of # working[t].job[2]
        /\ working[t].job \in backup[o].of.running
        /\ backup[o].of.row[working[t].job[2]] \in Db!Made
    BY <1>2, <2>1 DEF RestoreInv, JobsInv, SafeSnapshot, Making
  <2>3. Db!Live'.row[working[t].job[2]] = Db!Live.row[working[t].job[2]]
    BY <1>2, <1>5, <2>1, <2>2
  <2> QED BY <1>1, <1>3, <2>1, <2>2, <2>3 DEF SafeSnapshot
<1>9. allowed' \in Db!Budget /\ backup' \in [Db!Artifacts -> Db!File] BY <1>1, <1>2 DEF Db!TypeOK
<1> QED BY <1>1, <1>2, <1>3, <1>5, <1>6, <1>7, <1>8, <1>9, JobStepByParts

LEMMA CreateFailsKeeps ==
  ASSUME Db!BackupAssumption, RestoreInv, Db!Next, NEW t \in Db!Types, Db!CreateFails(t)
  PROVE  RestoreInv'
<1> DEFINE o == working[t].of
           r == IF working[t].at = "made" THEN "failed_late" ELSE "failed"
<1>1. /\ Db!Goes(t, "failed") /\ Db!Store(Db!Row(Db!Live, o, r))
      /\ backup' = [backup EXCEPT ![o] = IF backup[o].is = "temporary" THEN [Db!NoFile EXCEPT !.is = "begun"]
                                         ELSE backup[o]]
      /\ UNCHANGED <<pending, page, allowed>> /\ UNCHANGED Db!startVars
  BY DEF Db!CreateFails
<1>2. PICK s \in Making : Db!At(t, s) BY DEF Db!CreateFails, Making
<1>3. /\ app = "up" /\ main # None
      /\ working[t] # None /\ working[t].at = s /\ Db!TypeOK
      /\ working[t].job[1] = t /\ working[t].job \in Db!Live.running
      /\ o \in Db!Artifacts /\ o # None /\ t # "verify"
      /\ \A u \in Db!Types : u # t /\ working[u] # None /\ working[u].at \in Making => working[u].of # o
  BY <1>2, StepOfJob DEF RestoreInv
<1>4. /\ working' \in [Db!Types -> Db!Execution \union {None}]
      /\ working'[t].at = "failed" /\ working'[t].job = working[t].job
      /\ \A u \in Db!Types : u # t => working'[u] = working[u]
  BY <1>1, <1>3, Goes
<1>5. /\ s = "made" => Kept(o) /\ backup[o].of # None
      /\ s # "made" => Db!Live.row[o] = "running"
  BY <1>3 DEF RestoreInv, JobsInv, Sound, FilesInv, Kept, Making
<1>6. /\ Db!Live' \in Db!Content /\ main' \in {main, Db!Live} /\ wal' \in {wal, None, Db!Live'}
      /\ Db!Live'.running = Db!Live.running /\ Known(Db!Live)'
      /\ \A b \in Db!Artifacts : Db!Live'.row[b] = IF b = o THEN r ELSE Db!Live.row[b]
  <2>1. r \in Db!Statuses BY DEF Db!Statuses
  <2>2. r \in Db!Made => Kept(o) /\ backup[o].of # None BY <1>3, <1>5 DEF Db!Made
  <2> HIDE DEF r
  <2> QED BY <1>1, <1>3, <2>1, <2>2, RowStored
<1>7. /\ backup' \in [Db!Artifacts -> Db!File]
      /\ \A b \in Db!Artifacts : /\ backup'[b].of \in {backup[b].of, Db!Live, None}
                                 /\ b # o => backup'[b] = backup[b]
  <2>1. [Db!NoFile EXCEPT !.is = "begun"] = [is |-> "begun", of |-> None] BY DEF Db!NoFile
  <2>2. [is |-> "begun", of |-> None] \in Db!File BY DEF Db!File
  <2> QED BY <1>1, <1>3, <2>1, <2>2 DEF Db!TypeOK
<1>8. Frame(t, o)
  <2>1. \A a \in Db!Artifacts : Db!Live.row[a] \in Db!Made => Db!Live'.row[a] \in Db!Made
    BY <1>3, <1>5, <1>6 DEF Db!Made
  <2> HIDE DEF r
  <2> QED BY <1>1, <1>3, <1>6, <1>7, <2>1 DEF Frame, Db!startVars
<1>9. Sound(t)'
  <2> HIDE DEF r
  <2> QED BY <1>1, <1>3, <1>4, <1>6 DEF Sound, Making, Db!startVars
<1>10. t = "restore" => SafeSnapshot' BY <1>4 DEF SafeSnapshot, Making
<1>11. allowed' \in Db!Budget /\ working'[t].at \notin Making BY <1>1, <1>3, <1>4 DEF Db!TypeOK, Making
<1> HIDE DEF r
<1> QED BY <1>1, <1>3, <1>4, <1>6, <1>7, <1>8, <1>9, <1>10, <1>11, JobStepByParts

LEMMA VerifyHashesKeeps ==
  ASSUME Db!BackupAssumption, RestoreInv, Db!Next, Db!VerifyHashes
  PROVE  RestoreInv'
<1> DEFINE a == Db!Target("verify")
           good == Db!Live.row[a] \in Db!Made /\ backup[a].is = "whole"
           bad == Db!Live.row[a] \in Db!Made /\ backup[a].is = "damaged"
           s == IF good THEN "hashed" ELSE "failed"
<1>1. /\ Db!At("verify", "start") /\ Db!Goes("verify", s)
      /\ IF bad THEN Db!Store(Db!Row(Db!Live, a, "verification_failed")) ELSE UNCHANGED <<main, wal>>
      /\ UNCHANGED <<backup, pending, page, allowed>> /\ UNCHANGED Db!startVars
  BY DEF Db!VerifyHashes
<1>2. "verify" \in Db!Types BY DEF Db!Types
<1>3. /\ app = "up" /\ main # None /\ Db!Live \in Db!Content /\ Db!Live \in Db!Contents
      /\ working["verify"] # None /\ Db!TypeOK
      /\ working["verify"].job[1] = "verify" /\ working["verify"].job \in Db!Live.running
      /\ a \in Db!Artifacts /\ a = working["verify"].job[2]
      /\ \A u \in Db!Types : working[u] # None /\ working[u].at \in Making => working[u].of # None
  BY <1>1, <1>2, StepOfJob DEF RestoreInv
<1>4. /\ working' \in [Db!Types -> Db!Execution \union {None}]
      /\ working'["verify"].at = s /\ working'["verify"].job = working["verify"].job
      /\ \A u \in Db!Types : u # "verify" => working'[u] = working[u]
  <2>1. s \in {"hashed", "failed"} OBVIOUS
  <2> HIDE DEF s
  <2> QED BY <1>1, <1>2, <1>3, <2>1, Goes
<1> HIDE DEF a
<1>5. /\ Db!Live' \in Db!Content /\ main' \in {main, Db!Live} /\ wal' \in {wal, None, Db!Live'}
      /\ Db!Live'.running = Db!Live.running /\ Known(Db!Live)'
      /\ \A b \in Db!Artifacts :
           Db!Live'.row[b] = IF b = a /\ bad THEN "verification_failed" ELSE Db!Live.row[b]
  <2>1. CASE bad
    <3>1. "verification_failed" \in Db!Statuses BY DEF Db!Statuses
    <3>2. Kept(a) /\ backup[a].of # None BY <1>3, <2>1 DEF RestoreInv, FilesInv, Kept
    <3>3. Db!Store(Db!Row(Db!Live, a, "verification_failed")) BY <1>1, <2>1
    <3> QED BY <1>3, <2>1, <3>1, <3>2, <3>3, RowStored
  <2>2. CASE ~bad
    <3>1. Db!Live' = Db!Live BY <1>1, <2>2 DEF Db!Live
    <3>2. Lasting BY FilesLast
    <3> QED BY <1>1, <1>3, <2>2, <3>1, <3>2, SameRows
  <2> QED BY <2>1, <2>2
<1>6. Frame("verify", None)
  <2>1. \A b \in Db!Artifacts : Db!Live.row[b] \in Db!Made => Db!Live'.row[b] \in Db!Made
    BY <1>5 DEF Db!Made
  <2>2. \A b \in Db!Artifacts : Db!Live.row[b] = "running" => Db!Live'.row[b] = "running"
    BY <1>5 DEF Db!Made
  <2> QED BY <1>1, <1>3, <1>5, <2>1, <2>2 DEF Frame, Db!startVars
<1>7. Sound("verify")'
  <2>1. s = "hashed" => Db!Live'.row[a] \in Db!Made BY <1>3, <1>5
  <2>2. s \in {"hashed", "failed"} OBVIOUS
  <2> HIDE DEF s
  <2> QED BY <1>1, <1>3, <1>4, <1>5, <2>1, <2>2 DEF Sound, Making, Db!startVars
<1>8. working'["verify"].at \notin Making BY <1>4 DEF Making
<1>9. allowed' \in Db!Budget /\ backup' \in [Db!Artifacts -> Db!File] BY <1>1, <1>3 DEF Db!TypeOK
<1> QED BY <1>1, <1>2, <1>3, <1>4, <1>5, <1>6, <1>7, <1>8, <1>9, JobStepByParts

LEMMA VerifySucceedsKeeps ==
  ASSUME Db!BackupAssumption, RestoreInv, Db!Next, Db!VerifySucceeds
  PROVE  RestoreInv'
<1> DEFINE a == Db!Target("verify")
<1>1. /\ Db!At("verify", "hashed") /\ Db!Goes("verify", "done") /\ Db!Store(Db!Row(Db!Live, a, "verified"))
      /\ UNCHANGED <<backup, pending, page, allowed>> /\ UNCHANGED Db!startVars
  BY DEF Db!VerifySucceeds
<1>2. "verify" \in Db!Types BY DEF Db!Types
<1>3. /\ app = "up" /\ main # None /\ Db!Live \in Db!Content /\ Db!Live \in Db!Contents
      /\ working["verify"] # None /\ Db!TypeOK /\ working["verify"].at = "hashed"
      /\ working["verify"].job[1] = "verify" /\ working["verify"].job \in Db!Live.running
      /\ a \in Db!Artifacts /\ a = working["verify"].job[2]
      /\ \A u \in Db!Types : working[u] # None /\ working[u].at \in Making => working[u].of # None
  BY <1>1, <1>2, StepOfJob DEF RestoreInv
<1>4. /\ working' \in [Db!Types -> Db!Execution \union {None}]
      /\ working'["verify"].at = "done" /\ working'["verify"].job = working["verify"].job
      /\ \A u \in Db!Types : u # "verify" => working'[u] = working[u]
  BY <1>1, <1>2, <1>3, Goes
<1> HIDE DEF a
<1>5. Db!Live.row[a] \in Db!Made BY <1>2, <1>3 DEF RestoreInv, JobsInv, Sound
<1>6. Kept(a) /\ backup[a].of # None BY <1>3, <1>5 DEF RestoreInv, Db!RowsHaveFiles, Kept
<1>7. /\ Db!Live' \in Db!Content /\ main' \in {main, Db!Live} /\ wal' \in {wal, None, Db!Live'}
      /\ Db!Live'.running = Db!Live.running /\ Known(Db!Live)'
      /\ \A b \in Db!Artifacts : Db!Live'.row[b] = IF b = a THEN "verified" ELSE Db!Live.row[b]
  <2>1. "verified" \in Db!Statuses BY DEF Db!Statuses
  <2> QED BY <1>1, <1>3, <1>6, <2>1, RowStored
<1>8. Frame("verify", None) BY <1>1, <1>3, <1>5, <1>7 DEF Frame, Db!startVars, Db!Made
<1>9. Sound("verify")' BY <1>1, <1>3, <1>4, <1>7 DEF Sound, Making, Db!startVars
<1>10. working'["verify"].at \notin Making BY <1>4 DEF Making
<1>11. allowed' \in Db!Budget /\ backup' \in [Db!Artifacts -> Db!File] BY <1>1, <1>3 DEF Db!TypeOK
<1> QED BY <1>1, <1>2, <1>3, <1>4, <1>7, <1>8, <1>9, <1>10, <1>11, JobStepByParts

\* A step of a job that makes nothing and writes no statement.
LEMMA SilentJobStep ==
  ASSUME Db!BackupAssumption, RestoreInv, Db!Next, NEW t \in Db!Types, NEW from, NEW to, Db!At(t, from), Db!Goes(t, to),
         to \in {"checked", "done", "failed"}, UNCHANGED <<main, wal>> \/ Db!Checkpoint,
         UNCHANGED <<backup, pending, page, allowed>>, UNCHANGED Db!startVars,
         to = "checked" => t = "restore" /\ Db!Live.row[Db!Target(t)] \in Db!Made
  PROVE  RestoreInv'
<1>1. /\ app = "up" /\ main # None /\ Db!Live \in Db!Content /\ Db!Live \in Db!Contents
      /\ working[t] # None /\ Db!TypeOK
      /\ working[t].job[1] = t /\ working[t].job \in Db!Live.running
      /\ t # "create" => Db!Target(t) = working[t].job[2]
      /\ \A u \in Db!Types : working[u] # None /\ working[u].at \in Making => working[u].of # None
  BY StepOfJob DEF RestoreInv
<1>2. /\ working' \in [Db!Types -> Db!Execution \union {None}]
      /\ working'[t].at = to /\ working'[t].job = working[t].job
      /\ \A u \in Db!Types : u # t => working'[u] = working[u]
  BY <1>1, Goes
<1>3. /\ Db!Live' = Db!Live /\ main' \in {main, Db!Live} /\ wal' \in {wal, None, Db!Live'}
  BY <1>1, Statements DEF Db!Checkpoint
<1>4. Frame(t, None) BY <1>1, <1>3 DEF Frame, Db!startVars
<1>5. Sound(t)' BY <1>1, <1>2, <1>3 DEF Sound, Making, Db!startVars
<1>6. t = "restore" => SafeSnapshot' BY <1>1, <1>2, <1>3 DEF SafeSnapshot, Making
<1>7. Known(Db!Live)'
  <2>1. Lasting BY FilesLast
  <2> QED BY <1>1, <1>3, <2>1, SameRows
<1>8. /\ working'[t].at \notin Making
      /\ allowed' \in Db!Budget /\ backup' \in [Db!Artifacts -> Db!File]
  BY <1>1, <1>2 DEF Db!TypeOK, Making
<1> QED BY <1>1, <1>2, <1>3, <1>4, <1>5, <1>6, <1>7, <1>8, JobStepByParts

LEMMA PrepareChecksKeeps ==
  ASSUME Db!BackupAssumption, RestoreInv, Db!Next, Db!PrepareChecks
  PROVE  RestoreInv'
<1> DEFINE a == Db!Target("restore")
           good == pending = None /\ Db!Compatible(a) /\ backup[a].is = "whole"
           replay == pending # None /\ Db!Live.row[a] = "verified" /\ pending.backup = a
           to == IF good THEN "checked" ELSE IF replay THEN "done" ELSE "failed"
<1>1. /\ Db!At("restore", "start") /\ Db!Goes("restore", to)
      /\ UNCHANGED <<main, wal>> \/ Db!Checkpoint
      /\ UNCHANGED <<backup, pending, page, allowed>> /\ UNCHANGED Db!startVars
  BY DEF Db!PrepareChecks
<1>2. to \in {"checked", "done", "failed"} OBVIOUS
<1>3. to = "checked" => Db!Live.row[a] \in Db!Made BY DEF Db!Compatible, Db!Made
<1>4. "restore" \in Db!Types BY DEF Db!Types
<1> HIDE DEF to
<1> QED BY <1>1, <1>2, <1>3, <1>4, SilentJobStep

LEMMA ThrowsKeeps ==
  ASSUME Db!BackupAssumption, RestoreInv, Db!Next, NEW t \in Db!Types, Db!Throws(t)
  PROVE  RestoreInv'
<1>1. PICK s : Db!At(t, s) BY DEF Db!Throws
<1> QED BY <1>1, SilentJobStep DEF Db!Throws

LEMMA SettlesKeeps ==
  ASSUME Db!BackupAssumption, RestoreInv, Db!Next, NEW t \in Db!Types, Db!Settles(t)
  PROVE  RestoreInv'
<1>1. PICK s : Db!At(t, s) BY DEF Db!Settles
<1>2. PICK again \in SUBSET {working[t].job} :
        /\ IF again = {} THEN UNCHANGED allowed
           ELSE t = "create" /\ working[t].at = "failed" /\ Db!Spend("requests")
        /\ Db!Store(Db!Queue([Db!Live EXCEPT !.running = @ \ {working[t].job}], again))
  BY DEF Db!Settles
<1>3. /\ working' = [working EXCEPT ![t] = None]
      /\ UNCHANGED <<backup, pending, page>> /\ UNCHANGED Db!startVars
  BY DEF Db!Settles
<1>4. /\ app = "up" /\ main # None /\ Db!Live \in Db!Content /\ Db!Live \in Db!Contents
      /\ working[t] # None /\ Db!TypeOK /\ working[t].job \in Db!Jobs /\ working[t].job[1] = t
      /\ \A u \in Db!Types : working[u] # None /\ working[u].at \in Making => working[u].of # None
  BY <1>1, StepOfJob DEF RestoreInv
<1> DEFINE d == [Db!Live EXCEPT !.running = @ \ {working[t].job}]
           q == Db!Queue(d, again)
<1>5. d \in Db!Content /\ d.row = Db!Live.row /\ d.running = Db!Live.running \ {working[t].job}
  BY <1>4 DEF Db!Content
<1>6. q \in Db!Content /\ q.row = d.row /\ q.running = d.running
  <2> HIDE DEF d
  <2>1. again \in SUBSET Db!Jobs BY <1>4
  <2> QED BY <1>5, <2>1, Contents
<1>7. Db!Live' = q /\ main' \in {main, Db!Live} /\ wal' \in {wal, None, Db!Live'}
  BY <1>2, <1>4, <1>6, Statements DEF Db!Store
<1> HIDE DEF d, q
<1>8. /\ working' \in [Db!Types -> Db!Execution \union {None}] /\ working'[t] = None
      /\ \A u \in Db!Types : u # t => working'[u] = working[u]
  BY <1>3, <1>4 DEF Db!TypeOK
<1>9. Frame(t, None) BY <1>3, <1>4, <1>5, <1>6, <1>7 DEF Frame, Db!startVars
<1>10. Sound(t)' /\ (t = "restore" => SafeSnapshot') BY <1>8 DEF Sound, SafeSnapshot
<1>11. Known(Db!Live)'
  <2>1. Lasting BY FilesLast
  <2> QED BY <1>4, <1>5, <1>6, <1>7, <2>1, SameRows
<1>12. /\ allowed' \in Db!Budget /\ backup' \in [Db!Artifacts -> Db!File]
  BY <1>2, <1>3, <1>4 DEF Db!TypeOK, Db!Spend, Db!Budget
<1> QED BY <1>3, <1>4, <1>6, <1>7, <1>8, <1>9, <1>10, <1>11, <1>12, JobStepByParts

\* The manifest is written: the safety backup is the snapshot of a database that asks for the restore.
LEMMA PrepareWritesKeeps ==
  ASSUME Db!BackupAssumption, RestoreInv, Db!Next, Db!PrepareWrites
  PROVE  RestoreInv'
<1> DEFINE e == working["restore"]
           m == [backup |-> Db!Target("restore"), safety |-> e.of]
<1>1. /\ Db!At("restore", "made") /\ Db!Goes("restore", "done") /\ pending' = m
      /\ UNCHANGED <<main, wal, backup, page, allowed>> /\ UNCHANGED Db!startVars
  BY DEF Db!PrepareWrites
<1>2. "restore" \in Db!Types BY DEF Db!Types
<1>3. /\ app = "up" /\ main # None /\ Db!Live \in Db!Content /\ Db!Live \in Db!Contents
      /\ e # None /\ Db!TypeOK /\ e.at = "made" /\ e.job \in Db!Jobs
      /\ e.job[1] = "restore" /\ e.job \in Db!Live.running
      /\ Db!Target("restore") \in Db!Artifacts /\ Db!Target("restore") = e.job[2]
      /\ e.of \in Db!Artifacts
      /\ \A u \in Db!Types : working[u] # None /\ working[u].at \in Making => working[u].of # None
  BY <1>1, <1>2, StepOfJob DEF RestoreInv, Making
<1>4. /\ working' \in [Db!Types -> Db!Execution \union {None}]
      /\ working'["restore"].at = "done" /\ working'["restore"].job = e.job
      /\ \A u \in Db!Types : u # "restore" => working'[u] = working[u]
  BY <1>1, <1>2, <1>3, Goes
<1>5. Db!Live' = Db!Live BY <1>1 DEF Db!Live
<1>6. /\ Db!Live.row[e.job[2]] \in Db!Made /\ e.of # e.job[2] /\ Kept(e.of)
      /\ e.job \in backup[e.of].of.running /\ backup[e.of].of.row[e.job[2]] \in Db!Made
      /\ e.job = <<"restore", e.job[2]>>
  BY <1>2, <1>3, JobParts DEF RestoreInv, JobsInv, SafeSnapshot, Sound, Making
<1>7. Kept(e.job[2]) /\ backup[e.of].of # None
  BY <1>3, <1>6 DEF RestoreInv, Db!RowsHaveFiles, FilesInv, Kept
<1>8. m \in Db!Manifest /\ m.backup = e.job[2] /\ m.safety = e.of BY <1>3 DEF Db!Manifest
<1> HIDE DEF m
<1>9. Lasting /\ FilesInv' BY FilesLast
<1>10. JobsInv'
  <2>1. Frame("restore", None) BY <1>1, <1>3, <1>5 DEF Frame, Db!startVars
  <2>2. Sound("restore")' BY <1>1, <1>3, <1>4, <1>5 DEF Sound, Making, Db!startVars
  <2>3. SafeSnapshot' BY <1>4 DEF SafeSnapshot, Making
  <2>4. working'["restore"].at \notin Making BY <1>4 DEF Making
  <2> QED BY <1>2, <1>3, <1>4, <1>9, <2>1, <2>2, <2>3, <2>4, JobsByParts DEF RestoreInv
<1>11. Db!TypeOK' BY <1>1, <1>3, <1>4, <1>8 DEF Db!TypeOK, Db!startVars
<1>12. Db!RowsHaveFiles'
  <2>1. Db!Contents' = Db!Contents BY <1>1 DEF Db!Contents, Db!startVars
  <2> QED BY <1>9, <2>1, RowsStayTrue
<1>13. Db!PendingIsSafe'
  BY <1>1, <1>6, <1>7, <1>8 DEF Db!PendingIsSafe, Kept
<1>14. PlaceInv' /\ LeftInv' /\ FileInv' /\ LogInv'
  <2>1. moved = None BY <1>3 DEF RestoreInv, PlaceInv
  <2>2. UNCHANGED <<copies, app, moved, code, left>> BY <1>1 DEF Db!startVars
  <2> QED BY <1>1, <1>3, <1>7, <1>8, <2>1, <2>2 DEF PlaceInv, LeftInv, FileInv, LogInv, Kept
<1> QED BY <1>9, <1>10, <1>11, <1>12, <1>13, <1>14 DEF RestoreInv

-----------------------------------------------------------------------------
(* The steps of the process and of its start. *)

LEMMA StartStepByParts ==
  ASSUME Db!BackupAssumption, RestoreInv, Db!Next, UNCHANGED backup, pending' = pending \/ pending' = None,
         \A t \in Db!Types : working'[t] = None,
         \A c \in Db!Contents' : c \in Db!Contents \/ Known(c)',
         Db!TypeOK', PlaceInv', LeftInv', FileInv', LogInv'
  PROVE  RestoreInv'
<1>1. Lasting /\ FilesInv' BY FilesLast
<1>2. Db!RowsHaveFiles' BY <1>1, RowsStayTrue
<1>3. "restore" \in Db!Types /\ "create" \in Db!Types BY DEF Db!Types
<1>4. JobsInv' BY <1>3 DEF JobsInv, Sound, SafeSnapshot, ApartInv
<1>5. Db!PendingIsSafe' BY DEF RestoreInv, Db!PendingIsSafe
<1> QED BY <1>1, <1>2, <1>4, <1>5 DEF RestoreInv

\* While the application is not up no job is at work.
LEMMA NoJobAtWork ==
  ASSUME RestoreInv, app # "up"
  PROVE  \A t \in Db!Types : working[t] = None
BY DEF RestoreInv, JobsInv, Sound

\* Without its log the database is the file; what the log held is on record.
DroppedLog ==
  /\ wal' = None
  /\ left' \in [live : Db!Content, main : Db!Content, pending : Db!Manifest \union {None},
               moved : Nat \union {None}, lost : Db!Content \union {None}]
  /\ left'.live = left.live /\ left'.main = left.main
  /\ left'.pending = left.pending /\ left'.moved = left.moved
  /\ left'.lost = (IF wal = None THEN left.lost ELSE wal)

LEMMA LogDrops ==
  ASSUME Db!TypeOK, Db!DropLog
  PROVE  DroppedLog
BY DEF Db!TypeOK, Db!DropLog, DroppedLog

LEMMA StopKeeps ==
  ASSUME Db!BackupAssumption, RestoreInv, Db!Next, Db!Stop
  PROVE  RestoreInv'
<1>1. /\ app = "up" /\ app' = "down" /\ Db!Checkpoint
      /\ working' = [t \in Db!Types |-> None]
      /\ left' = [live |-> Db!Live, main |-> Db!Live, pending |-> pending, moved |-> None, lost |-> None]
      /\ UNCHANGED <<backup, copies, pending, moved, code, page, allowed>>
  BY DEF Db!Stop, Db!Idle, Db!Left
<1>2. main # None /\ Db!TypeOK /\ moved = None BY <1>1 DEF RestoreInv, PlaceInv
<1>3. Db!Live \in Db!Content /\ Db!Live \in Db!Contents BY <1>2, Statements
<1>4. Db!Live' = Db!Live /\ main' = Db!Live /\ wal' = None
  BY <1>1, <1>2, Statements DEF Db!Checkpoint
<1>5. Db!TypeOK' BY <1>1, <1>2, <1>3, <1>4 DEF Db!TypeOK
<1>6. \A c \in Db!Contents' : c \in Db!Contents BY <1>1, <1>3, <1>4 DEF Db!Contents
<1>7. Db!Live # None BY <1>3 DEF Db!BackupAssumption
<1>8. PlaceInv' BY <1>1, <1>2, <1>4 DEF RestoreInv, PlaceInv, Kept
<1>9. LeftInv' BY <1>1, <1>2, <1>4, <1>7 DEF RestoreInv, PlaceInv, LeftInv, Kept
<1>10. FileInv' BY <1>1, <1>4 DEF FileInv
<1>11. \A t \in Db!Types : working'[t] = None BY <1>1
<1>12. LogInv'
  <2>1. Db!Same(Db!Live, Db!Live) BY <1>3 DEF Db!Same, Db!Content
  <2> QED BY <1>1, <1>2, <1>4, <2>1 DEF LogInv, Db!Same
<1> QED BY <1>1, <1>5, <1>6, <1>8, <1>9, <1>10, <1>11, <1>12, StartStepByParts

LEMMA CrashKeeps ==
  ASSUME Db!BackupAssumption, RestoreInv, Db!Next, Db!Crash
  PROVE  RestoreInv'
<1>1. /\ app # "down" /\ app' = "down" /\ Db!Spend("crashes") /\ moved' = None
      /\ working' = [t \in Db!Types |-> None]
      /\ UNCHANGED <<main, wal, backup, copies, pending, code, page>>
      /\ left' = IF app = "up" THEN [live |-> Db!Live, main |-> main, pending |-> pending, moved |-> None, lost |-> None]
                 ELSE IF app = "ready" THEN [left EXCEPT !.live = Db!Live, !.pending = None] ELSE left
  BY DEF Db!Crash, Db!Idle, Db!Left
<1>2. Db!TypeOK BY DEF RestoreInv
<1>3. Db!Live' = Db!Live BY <1>1 DEF Db!Live
<1>4. app \in {"up", "ready"} => main # None
  BY DEF RestoreInv, PlaceInv, LeftInv, FilesInv, Kept, Db!TypeOK, Db!Manifest
<1>5. app \in {"up", "ready"} => Db!Live \in Db!Content BY <1>2, <1>4, Statements
<1>6. /\ allowed' \in Db!Budget /\ allowed'.starts = allowed.starts
  BY <1>1, <1>2 DEF Db!TypeOK, Db!Spend, Db!Budget
<1>7. /\ left' \in [live : Db!Content, main : Db!Content, pending : Db!Manifest \union {None},
                    moved : Nat \union {None}, lost : Db!Content \union {None}]
      /\ app = "ready" => /\ left'.live = Db!Live /\ left'.pending = None
                          /\ left'.main = left.main /\ left'.moved = left.moved
  <2>1. CASE app = "up"
    <3>1. main \in Db!Content /\ pending \in Db!Manifest \union {None} BY <1>2, <1>4, <2>1 DEF Db!TypeOK
    <3> QED BY <1>1, <1>5, <2>1, <3>1
  <2>2. CASE app # "up" BY <1>1, <1>2, <1>5, <2>2 DEF Db!TypeOK
  <2> QED BY <2>1, <2>2
<1>8. Db!TypeOK' BY <1>1, <1>2, <1>6, <1>7 DEF Db!TypeOK
<1>9. \A c \in Db!Contents' : c \in Db!Contents BY <1>1 DEF Db!Contents
<1>10. PlaceInv'
  <2>1. pending' # None => Kept(pending.backup)' BY <1>1 DEF RestoreInv, PlaceInv, Kept
  <2>2. pending' = left'.pending BY <1>1, <1>2, <1>7 DEF RestoreInv, PlaceInv, Db!TypeOK, Db!Steps
  <2> QED BY <1>1, <2>1, <2>2 DEF PlaceInv
<1>11. LeftInv'
  <2>1. CASE app = "up"
    <3>1. pending # None => Kept(pending.backup) BY DEF RestoreInv, PlaceInv
    <3> QED BY <1>1, <1>3, <1>4, <2>1, <3>1 DEF LeftInv, Kept
  <2>2. CASE app = "ready"
    <3>1. left.moved # None => left.moved >= allowed.starts BY <2>2 DEF RestoreInv, LeftInv
    <3> QED BY <1>1, <1>3, <1>4, <1>6, <1>7, <2>2, <3>1 DEF LeftInv, Kept
  <2>3. CASE app \notin {"up", "ready"}
    BY <1>1, <1>3, <1>6, <2>3 DEF RestoreInv, LeftInv, Kept
  <2> QED BY <2>1, <2>2, <2>3
<1>12. FileInv'
  BY <1>1, <1>7 DEF RestoreInv, FileInv
<1>13. \A t \in Db!Types : working'[t] = None BY <1>1
<1>14. LogInv'
  <2>1. CASE app = "up"
    <3>1. left'.main = main /\ left'.live = Db!Live /\ left'.moved = None BY <1>1, <2>1
    <3>2. wal = None => Db!Same(main, Db!Live)
      BY <1>2, <1>4, <1>5, <2>1 DEF Db!Same, Db!Content, Db!Live
    <3>3. wal # None => wal = Db!Live BY DEF Db!Live
    <3> QED BY <1>1, <3>1, <3>2, <3>3 DEF LogInv, Db!Same
  <2>2. CASE app = "ready" BY <1>1, <1>7, <2>2 DEF LogInv
  <2>3. CASE app \notin {"up", "ready"}
    BY <1>1, <1>6, <2>3 DEF RestoreInv, LogInv, Db!Same
  <2> QED BY <2>1, <2>2, <2>3
<1> QED BY <1>1, <1>8, <1>9, <1>10, <1>11, <1>12, <1>13, <1>14, StartStepByParts

LEMMA UpgradeKeeps ==
  ASSUME Db!BackupAssumption, RestoreInv, Db!Next, Db!Upgrade
  PROVE  RestoreInv'
<1>1. /\ app = "down" /\ Db!Spend("upgrades") /\ code' = code + 1
      /\ UNCHANGED <<main, wal, backup, pending, working, copies, app, moved, page, left>>
  BY DEF Db!Upgrade, Db!jobVars
<1>2. Db!TypeOK BY DEF RestoreInv
<1>3. allowed' \in Db!Budget /\ allowed'.starts = allowed.starts
  BY <1>1, <1>2 DEF Db!TypeOK, Db!Spend, Db!Budget
<1>4. Db!Live' = Db!Live BY <1>1 DEF Db!Live
<1>5. Db!TypeOK' BY <1>1, <1>2, <1>3 DEF Db!TypeOK
<1>6. \A c \in Db!Contents' : c \in Db!Contents BY <1>1 DEF Db!Contents
<1>7. PlaceInv' BY <1>1 DEF RestoreInv, PlaceInv, Kept
<1>8. LeftInv' BY <1>1, <1>3, <1>4 DEF RestoreInv, LeftInv, Kept
<1>9. FileInv' BY <1>1 DEF RestoreInv, FileInv
<1>10. \A t \in Db!Types : working'[t] = None BY <1>1, NoJobAtWork
<1>11. LogInv' BY <1>1, <1>3 DEF RestoreInv, LogInv, Db!Same
<1> QED BY <1>1, <1>5, <1>6, <1>7, <1>8, <1>9, <1>10, <1>11, StartStepByParts

LEMMA MigrateKeeps ==
  ASSUME Db!BackupAssumption, RestoreInv, Db!Next, Db!Migrate
  PROVE  RestoreInv'
<1>1. /\ app = "down" /\ wal' = None
      /\ UNCHANGED <<backup, pending, working, copies, app, moved, code, page, allowed>>
  BY DEF Db!Migrate, Db!DropLog, Db!jobVars
<1>2. Db!TypeOK BY DEF RestoreInv
<1>3. \A t \in Db!Types : working'[t] = None BY <1>1, NoJobAtWork
<1>4. pending = left.pending /\ moved = None /\ (pending # None => Kept(pending.backup))
  BY <1>1 DEF RestoreInv, PlaceInv
<1>5. CASE main = None
  <2>1. main' = Db!Fresh(code, 0) /\ Db!DropLog BY <1>5 DEF Db!Migrate
  <2>2. Db!Fresh(code, 0) \in Db!Content /\ \A a \in Db!Artifacts : Db!Fresh(code, 0).row[a] = "none"
    BY <1>2 DEF Db!TypeOK, Db!Fresh, Db!Content, Db!Statuses
  <2>3. left.pending # None /\ left.moved # None
    BY <1>1, <1>2, <1>5 DEF RestoreInv, LeftInv, FileInv, Db!TypeOK, Db!BackupAssumption
  <2>5. DroppedLog BY <1>2, <2>1, LogDrops
  <2>4. Db!TypeOK' BY <1>1, <1>2, <2>1, <2>2, <2>5 DEF Db!TypeOK, DroppedLog
  <2>6. \A c \in Db!Contents' : c \in Db!Contents \/ Known(c)'
    BY <1>1, <1>2, <2>1, <2>2 DEF Db!Contents, Known, Db!Made
  <2>7. PlaceInv' BY <1>1, <1>4, <2>1, <2>5 DEF PlaceInv, DroppedLog, Kept
  <2>8. LeftInv' BY <1>1, <1>4, <2>1, <2>3, <2>5 DEF RestoreInv, LeftInv, DroppedLog, Kept
  <2>9. FileInv' BY <1>1, <2>1, <2>3, <2>5 DEF RestoreInv, FileInv, DroppedLog
  <2>10. LogInv' BY <1>1, <1>2, <2>3, <2>5 DEF RestoreInv, LogInv, DroppedLog, Db!TypeOK, Db!Same, Db!BackupAssumption
  <2> QED BY <1>1, <1>3, <2>4, <2>6, <2>7, <2>8, <2>9, <2>10, StartStepByParts
<1>6. CASE main # None
  <2> DEFINE d == [Db!Live EXCEPT !.schema = code]
  <2>1. /\ main' = d
        /\ left' = [left EXCEPT !.main = IF left.moved = None THEN main' ELSE left.main,
                                !.live = IF pending = None THEN main' ELSE left.live]
    BY <1>6 DEF Db!Migrate
  <2>2. Db!Live \in Db!Content /\ Db!Live \in Db!Contents BY <1>2, <1>6, Statements
  <2>3. d \in Db!Content /\ d.row = Db!Live.row BY <1>2, <2>2, Contents DEF Db!TypeOK
  <2> HIDE DEF d
  <2>4. d # None BY <2>3 DEF Db!BackupAssumption
  <2>5. Db!Live' = d BY <1>1, <2>1 DEF Db!Live
  <2>6. /\ left' \in [live : Db!Content, main : Db!Content, pending : Db!Manifest \union {None},
                      moved : Nat \union {None}, lost : Db!Content \union {None}]
        /\ left'.main = (IF left.moved = None THEN d ELSE left.main)
        /\ left'.live = (IF pending = None THEN d ELSE left.live)
        /\ left'.pending = left.pending /\ left'.moved = left.moved /\ left'.lost = left.lost
    BY <1>2, <2>1, <2>3 DEF Db!TypeOK
  <2>7. Db!TypeOK' BY <1>1, <1>2, <2>1, <2>3, <2>6 DEF Db!TypeOK
  <2>8. \A c \in Db!Contents' : c \in Db!Contents \/ Known(c)'
    <3>1. Lasting BY FilesLast
    <3>3. ASSUME NEW c \in Db!Contents', c # d PROVE c \in Db!Contents
      BY <1>1, <2>1, <3>3 DEF Db!Contents
    <3>4. ASSUME NEW c \in Db!Contents', c = d PROVE Known(c)'
      BY <1>1, <2>3, <2>2, <3>1, <3>4 DEF RestoreInv, Lasting, Known, Db!RowsHaveFiles, Kept
    <3> QED BY <3>3, <3>4
  <2>9. PlaceInv' BY <1>1, <1>4, <2>6 DEF PlaceInv, Kept
  <2>10. LeftInv' BY <1>1, <1>4, <2>1, <2>4, <2>5, <2>6 DEF RestoreInv, LeftInv, Kept
  <2>11. FileInv' BY <1>1, <2>1, <2>6 DEF RestoreInv, FileInv
  <2>12. LogInv'
    <3> SUFFICES ASSUME left.pending # None PROVE LogInv' BY <2>6 DEF LogInv
    <3>1. left'.live = left.live BY <1>4, <2>6
    <3>2. left.live \in Db!Content /\ left.main \in Db!Content BY <1>2 DEF Db!TypeOK
    <3>3. CASE left.moved = None
      <4>1. main = left.main BY <1>1, <3>3 DEF RestoreInv, FileInv
      <4>2. left'.main = d BY <2>6, <3>3
      <4>3. wal = left.live => Db!Same(d, left.live)
        BY <2>2, <3>2 DEF d, Db!Live, Db!Same, Db!Content, Db!BackupAssumption
      <4>4. wal = None /\ Db!Same(left.main, left.live) => Db!Same(d, left.live)
        BY <2>2, <3>2, <4>1 DEF d, Db!Live, Db!Same, Db!Content
      <4>5. Db!Same(left.main, left.live) \/ wal = left.live \/ left.lost = left.live
        BY <1>1 DEF RestoreInv, LogInv
      <4>6. wal # None => wal = left.live BY <1>1 DEF RestoreInv, LogInv
      <4>7. left.live # None BY <3>2 DEF Db!BackupAssumption
      <4>8. Db!Same(d, left.live) \/ left.lost = left.live BY <4>3, <4>4, <4>5, <4>6, <4>7
      <4> QED BY <1>1, <1>4, <2>6, <3>1, <3>3, <4>2, <4>8 DEF LogInv, Db!Same
    <3>4. CASE left.moved # None
      <4>1. wal = None BY <1>1, <1>6, <3>4 DEF RestoreInv, LogInv
      <4>2. left.live # None BY <3>2 DEF Db!BackupAssumption
      <4>3. Db!Same(left.main, left.live) \/ left.lost = left.live
        BY <1>1, <4>1, <4>2 DEF RestoreInv, LogInv
      <4> QED BY <1>1, <1>4, <2>6, <3>1, <3>4, <4>3 DEF LogInv, Db!Same
    <3> QED BY <3>3, <3>4
  <2> QED BY <1>1, <1>3, <2>7, <2>8, <2>9, <2>10, <2>11, <2>12, StartStepByParts
<1> QED BY <1>5, <1>6

LEMMA StartKeeps ==
  ASSUME Db!BackupAssumption, RestoreInv, Db!Next, Db!Start
  PROVE  RestoreInv'
<1>1. /\ app = "down" /\ Db!Spend("starts") /\ app' = IF pending = None THEN "ready" ELSE "hashed"
      /\ UNCHANGED <<main, wal, backup, pending, working, copies, moved, code, page, left>>
  BY DEF Db!Start, Db!jobVars
<1>2. Db!TypeOK BY DEF RestoreInv
<1>3. /\ allowed' \in Db!Budget /\ allowed'.starts \in Nat /\ allowed.starts \in Nat
      /\ allowed'.starts < allowed.starts
  BY <1>1, <1>2 DEF Db!TypeOK, Db!Spend, Db!Budget
<1>4. Db!Live' = Db!Live BY <1>1 DEF Db!Live
<1>5. Db!TypeOK' BY <1>1, <1>2, <1>3 DEF Db!TypeOK, Db!Steps
<1>6. \A c \in Db!Contents' : c \in Db!Contents BY <1>1 DEF Db!Contents
<1>7. PlaceInv' BY <1>1 DEF RestoreInv, PlaceInv, Kept
<1>8. LeftInv'
  <2>1. /\ pending = left.pending /\ moved = None
        /\ left.pending = None => main # None /\ Db!Live = left.live
        /\ left.pending # None => Kept(left.pending.backup)
        /\ left.moved # None => left.moved >= allowed.starts
    BY <1>1 DEF RestoreInv, PlaceInv, LeftInv
  <2>2. left.moved # None => left.moved \in Nat BY <1>2 DEF Db!TypeOK
  <2>3. left.moved # None => left'.moved > allowed'.starts BY <1>1, <1>3, <2>1, <2>2
  <2>4. None # allowed'.starts BY <1>3 DEF Db!BackupAssumption
  <2>5. left.moved # allowed'.starts BY <1>1, <1>3, <2>2, <2>3, <2>4
  <2>6. left.moved # None => left.moved >= allowed'.starts BY <1>3, <2>1, <2>2
  <2> QED BY <1>1, <1>4, <2>1, <2>5, <2>6 DEF LeftInv, Kept
<1>9. FileInv'
  BY <1>1 DEF RestoreInv, PlaceInv, FileInv
<1>10. \A t \in Db!Types : working'[t] = None BY <1>1, NoJobAtWork
<1>11. LogInv'
  <2>1. moved = None BY <1>1 DEF RestoreInv, PlaceInv
  <2> QED BY <1>1, <2>1 DEF RestoreInv, LogInv, Db!Same
<1> QED BY <1>1, <1>5, <1>6, <1>7, <1>8, <1>9, <1>10, <1>11, StartStepByParts

LEMMA CopyBackupKeeps ==
  ASSUME Db!BackupAssumption, RestoreInv, Db!Next, Db!CopyBackup
  PROVE  RestoreInv'
<1>1. /\ app = "hashed" /\ app' \in {"copied", "down"}
      /\ UNCHANGED <<main, wal, backup, pending, working, copies, moved, code, page, left, allowed>>
  BY DEF Db!CopyBackup, Db!jobVars
<1>2. Db!TypeOK BY DEF RestoreInv
<1>3. Db!Live' = Db!Live BY <1>1 DEF Db!Live
<1>4. Db!TypeOK' BY <1>1, <1>2 DEF Db!TypeOK, Db!Steps
<1>5. \A c \in Db!Contents' : c \in Db!Contents BY <1>1 DEF Db!Contents
<1>6. PlaceInv' BY <1>1 DEF RestoreInv, PlaceInv, Kept
<1>7. LeftInv' BY <1>1, <1>3 DEF RestoreInv, LeftInv, Kept
<1>8. FileInv' BY <1>1 DEF RestoreInv, FileInv
<1>9. \A t \in Db!Types : working'[t] = None BY <1>1, NoJobAtWork
<1>10. LogInv' BY <1>1 DEF RestoreInv, LogInv, Db!Same
<1> QED BY <1>1, <1>4, <1>5, <1>6, <1>7, <1>8, <1>9, <1>10, StartStepByParts

LEMMA MoveDatabaseKeeps ==
  ASSUME Db!BackupAssumption, RestoreInv, Db!Next, Db!MoveDatabase
  PROVE  RestoreInv'
<1>1. /\ app = "copied" /\ app' = "moved" /\ main' = None /\ moved' = main
      /\ UNCHANGED <<wal, backup, pending, working, code, page, allowed>>
  BY DEF Db!MoveDatabase, Db!jobVars
<1>2. Db!TypeOK /\ pending # None /\ pending = left.pending BY <1>1 DEF RestoreInv, PlaceInv
<1>3. IF main = None THEN UNCHANGED <<copies, left>>
      ELSE /\ copies' = copies \union {<<allowed.starts, main>>}
           /\ left' = [left EXCEPT !.moved = IF left.moved = None THEN allowed.starts ELSE left.moved]
  BY DEF Db!MoveDatabase
<1>4. allowed.starts \in Nat /\ None # allowed.starts
  BY <1>2 DEF Db!TypeOK, Db!Budget, Db!BackupAssumption
<1>5. /\ left' \in [live : Db!Content, main : Db!Content, pending : Db!Manifest \union {None},
                    moved : Nat \union {None}, lost : Db!Content \union {None}]
      /\ left'.main = left.main /\ left'.live = left.live /\ left'.pending = left.pending
      /\ left'.lost = left.lost
      /\ main = None => left'.moved = left.moved
      /\ main # None => left'.moved = (IF left.moved = None THEN allowed.starts ELSE left.moved)
  BY <1>2, <1>3, <1>4 DEF Db!TypeOK
<1>6. left.moved = None => main = left.main /\ main # None
  BY <1>1, <1>2 DEF RestoreInv, FileInv, Db!TypeOK, Db!BackupAssumption
<1>7. Db!TypeOK'
  <2>1. copies' \subseteq Nat \X Db!Content BY <1>2, <1>3, <1>4 DEF Db!TypeOK
  <2> QED BY <1>1, <1>2, <1>5, <2>1 DEF Db!TypeOK, Db!Steps
<1>8. \A c \in Db!Contents' : c \in Db!Contents
  BY <1>1, <1>3 DEF Db!Contents
<1>9. PlaceInv' BY <1>1, <1>2, <1>3, <1>5 DEF RestoreInv, PlaceInv, Kept
<1>10. left'.moved # None BY <1>4, <1>5, <1>6
<1>11. LeftInv'
  <2>1. /\ left.moved # None => left.moved >= allowed.starts
        /\ left.moved # allowed.starts /\ Kept(pending.backup)
    BY <1>1, <1>2 DEF RestoreInv, PlaceInv, LeftInv
  <2>2. left'.moved >= allowed.starts BY <1>4, <1>5, <1>6, <2>1
  <2>3. main # None /\ left'.moved = allowed.starts => main = left'.main BY <1>4, <1>5, <1>6, <2>1
  <2> QED BY <1>1, <1>2, <1>5, <1>10, <2>1, <2>2, <2>3 DEF LeftInv, Kept
<1>12. FileInv'
  <2>1. <<left'.moved, left'.main>> \in copies'
    <3>1. CASE left.moved = None BY <1>3, <1>5, <1>6, <3>1
    <3>2. CASE left.moved # None
      <4>1. <<left.moved, left.main>> \in copies BY <1>1, <3>2 DEF RestoreInv, FileInv
      <4> QED BY <1>3, <1>5, <3>2, <4>1
    <3> QED BY <3>1, <3>2
  <2> QED BY <1>1, <1>10, <2>1 DEF FileInv
<1>13. \A t \in Db!Types : working'[t] = None BY <1>1, NoJobAtWork
<1>14. LogInv'
  <2>1. main # None /\ wal # None => left.moved = None BY <1>1, <1>2 DEF RestoreInv, LogInv
  <2>2. main # None /\ wal # None => left'.moved = allowed.starts BY <1>5, <2>1
  <2> QED BY <1>1, <1>2, <1>5, <2>2 DEF RestoreInv, LogInv, Db!Same
<1> QED BY <1>1, <1>7, <1>8, <1>9, <1>11, <1>12, <1>13, <1>14, StartStepByParts

LEMMA ClearLogKeeps ==
  ASSUME Db!BackupAssumption, RestoreInv, Db!Next, Db!ClearLog
  PROVE  RestoreInv'
<1>1. /\ app = "moved" /\ app' = "cleared" /\ Db!DropLog
      /\ UNCHANGED <<main, backup, pending, working, copies, moved, code, page, allowed>>
  BY DEF Db!ClearLog, Db!jobVars
<1>2. Db!TypeOK /\ left.pending # None BY <1>1 DEF RestoreInv, PlaceInv
<1>9. DroppedLog BY <1>1, <1>2, LogDrops
<1>3. Db!TypeOK' BY <1>1, <1>2, <1>9 DEF Db!TypeOK, Db!Steps, DroppedLog
<1>4. \A c \in Db!Contents' : c \in Db!Contents BY <1>1, <1>9 DEF Db!Contents, DroppedLog
<1>5. PlaceInv' BY <1>1, <1>9 DEF RestoreInv, PlaceInv, Kept, DroppedLog
<1>6. LeftInv' BY <1>1, <1>2, <1>9 DEF RestoreInv, LeftInv, Kept, DroppedLog
<1>7. FileInv' BY <1>1, <1>9 DEF RestoreInv, FileInv, DroppedLog
<1>8. \A t \in Db!Types : working'[t] = None BY <1>1, NoJobAtWork
<1>10. LogInv'
  BY <1>1, <1>2, <1>9 DEF RestoreInv, LogInv, Db!Same, Db!TypeOK, DroppedLog, Db!BackupAssumption
<1> QED BY <1>1, <1>3, <1>4, <1>5, <1>6, <1>7, <1>8, <1>10, StartStepByParts

LEMMA SwitchKeeps ==
  ASSUME Db!BackupAssumption, RestoreInv, Db!Next, Db!Switch
  PROVE  RestoreInv'
<1>1. /\ app = "cleared" /\ app' = "switched" /\ main' = backup[pending.backup].of
      /\ UNCHANGED <<wal, backup, pending, working, copies, moved, code, page, left, allowed>>
  BY DEF Db!Switch, Db!jobVars
<1>2. Db!TypeOK /\ pending # None /\ pending = left.pending /\ Kept(pending.backup)
      /\ main = None
  BY <1>1 DEF RestoreInv, PlaceInv
<1>3. pending.backup \in Db!Artifacts BY <1>2 DEF Db!TypeOK, Db!Manifest
<1>4. main' # None /\ main' \in Db!Content \union {None}
  BY <1>1, <1>2, <1>3 DEF RestoreInv, FilesInv, Kept, Db!TypeOK, Db!File
<1>5. Db!TypeOK' BY <1>1, <1>2, <1>4 DEF Db!TypeOK, Db!Steps
<1>6. \A c \in Db!Contents' : c \in Db!Contents BY <1>1, <1>3 DEF Db!Contents
<1>7. PlaceInv' BY <1>1, <1>2 DEF RestoreInv, PlaceInv, Kept
<1>8. LeftInv' BY <1>1, <1>2 DEF RestoreInv, LeftInv, Kept
<1>9. FileInv' BY <1>1, <1>2 DEF RestoreInv, LeftInv, FileInv
<1>10. \A t \in Db!Types : working'[t] = None BY <1>1, NoJobAtWork
<1>11. LogInv'
  <2>1. wal = None BY <1>1 DEF RestoreInv, PlaceInv
  <2> QED BY <1>1, <2>1 DEF RestoreInv, LogInv, Db!Same
<1> QED BY <1>1, <1>5, <1>6, <1>7, <1>8, <1>9, <1>10, <1>11, StartStepByParts

LEMMA AppliedKeeps ==
  ASSUME Db!BackupAssumption, RestoreInv, Db!Next, Db!Applied
  PROVE  RestoreInv'
<1>1. /\ app = "switched" /\ app' = "ready" /\ pending' = None /\ moved' = None
      /\ UNCHANGED <<main, wal, backup, working, copies, code, page, left, allowed>>
  BY DEF Db!Applied
<1>2. Db!TypeOK /\ left.pending # None /\ main = backup[left.pending.backup].of /\ wal = None
  BY <1>1 DEF RestoreInv, PlaceInv
<1>3. Db!TypeOK' BY <1>1, <1>2 DEF Db!TypeOK, Db!Steps
<1>4. \A c \in Db!Contents' : c \in Db!Contents BY <1>1 DEF Db!Contents
<1>5. PlaceInv' BY <1>1 DEF PlaceInv
<1>6. LeftInv' BY <1>1, <1>2 DEF RestoreInv, LeftInv, Kept
<1>7. FileInv' BY <1>1, <1>2 DEF RestoreInv, LeftInv, FileInv
<1>8. \A t \in Db!Types : working'[t] = None BY <1>1, NoJobAtWork
<1>9. LogInv' BY <1>1, <1>2 DEF RestoreInv, LogInv, Db!Same
<1> QED BY <1>1, <1>3, <1>4, <1>5, <1>6, <1>7, <1>8, <1>9, StartStepByParts

LEMMA StartFailsKeeps ==
  ASSUME Db!BackupAssumption, RestoreInv, Db!Next, Db!StartFails
  PROVE  RestoreInv'
<1>1. /\ app \in {"copied", "moved", "cleared", "switched"} /\ app' = "down" /\ moved' = None
      /\ UNCHANGED <<wal, backup, pending, working, code, page, allowed>>
  BY DEF Db!StartFails, Db!jobVars
<1>2. Db!TypeOK /\ pending # None /\ pending = left.pending /\ Kept(pending.backup)
  BY <1>1 DEF RestoreInv, PlaceInv
<1>3. \A t \in Db!Types : working'[t] = None BY <1>1, NoJobAtWork
<1>4. left.moved # None => left.moved >= allowed.starts BY <1>1 DEF RestoreInv, LeftInv
<1>5. CASE moved # None /\ main = None
  <2>1. /\ main' = moved /\ copies' = copies \ {<<allowed.starts, moved>>}
        /\ left' = [left EXCEPT !.moved = IF left.moved = allowed.starts THEN None ELSE left.moved]
    BY <1>5 DEF Db!StartFails
  <2>2. moved \in Db!Content BY <1>2, <1>5 DEF Db!TypeOK
  <2>3. /\ left' \in [live : Db!Content, main : Db!Content, pending : Db!Manifest \union {None},
                      moved : Nat \union {None}, lost : Db!Content \union {None}]
        /\ left'.main = left.main /\ left'.live = left.live /\ left'.pending = left.pending
        /\ left'.lost = left.lost
        /\ left'.moved = (IF left.moved = allowed.starts THEN None ELSE left.moved)
    BY <1>2, <2>1 DEF Db!TypeOK
  <2>4. app # "copied" /\ left.moved # None /\ (left.moved = allowed.starts => moved = left.main)
    BY <1>1, <1>2, <1>5 DEF RestoreInv, PlaceInv, LeftInv
  <2>5. <<left.moved, left.main>> \in copies BY <1>1, <2>4 DEF RestoreInv, FileInv
  <2>6. Db!TypeOK' BY <1>1, <1>2, <2>1, <2>2, <2>3 DEF Db!TypeOK
  <2>7. \A c \in Db!Contents' : c \in Db!Contents \/ Known(c)'
    <3>2. <<allowed.starts, moved>> \in copies BY <1>5 DEF RestoreInv, PlaceInv
    <3>3. moved \in Db!Contents BY <1>5, <3>2 DEF Db!Contents
    <3> QED BY <1>1, <2>1, <3>3 DEF Db!Contents
  <2>8. PlaceInv' BY <1>1, <1>2, <2>3 DEF PlaceInv, Kept
  <2>9. LeftInv' BY <1>1, <1>2, <1>4, <2>3 DEF LeftInv, Kept
  <2>10. FileInv' BY <1>1, <2>1, <2>3, <2>4, <2>5 DEF FileInv
  <2>11. LogInv'
    <3>1. wal # None => left.moved = allowed.starts BY <1>1, <1>2, <1>5 DEF RestoreInv, LogInv
    <3>2. Db!Same(left.main, left.live) \/ wal = left.live \/ left.lost = left.live
      BY <1>1, <1>2 DEF RestoreInv, LogInv
    <3>3. wal # None => wal = left.live BY <1>1, <1>2 DEF RestoreInv, LogInv
    <3> QED BY <1>1, <2>3, <3>1, <3>2, <3>3 DEF LogInv, Db!Same
  <2> QED BY <1>1, <1>3, <2>6, <2>7, <2>8, <2>9, <2>10, <2>11, StartStepByParts
<1>6. CASE ~(moved # None /\ main = None)
  <2>1. UNCHANGED <<main, copies, left>> BY <1>6 DEF Db!StartFails
  <2>2. Db!TypeOK' BY <1>1, <1>2, <2>1 DEF Db!TypeOK
  <2>3. \A c \in Db!Contents' : c \in Db!Contents BY <1>1, <2>1 DEF Db!Contents
  <2>4. PlaceInv' BY <1>1, <1>2, <2>1 DEF PlaceInv, Kept
  <2>5. LeftInv' BY <1>1, <1>2, <1>4, <2>1 DEF LeftInv, Kept
  <2>6. FileInv' BY <1>1, <2>1 DEF RestoreInv, FileInv
  <2>7. LogInv' BY <1>1, <1>2, <2>1 DEF RestoreInv, LogInv, Db!Same
  <2> QED BY <1>1, <1>3, <2>2, <2>3, <2>4, <2>5, <2>6, <2>7, StartStepByParts
<1> QED BY <1>5, <1>6

LEMMA ConnectKeeps ==
  ASSUME Db!BackupAssumption, RestoreInv, Db!Next, Db!Connect
  PROVE  RestoreInv'
<1>1. /\ app = "ready" /\ app' = "up"
      /\ UNCHANGED <<backup, pending, working, copies, moved, code, page, left, allowed>>
  BY DEF Db!Connect, Db!jobVars
<1>2. PICK late \in SUBSET Db!Live.running :
        Db!Store(Db!Queue([Db!Live EXCEPT !.running = @ \ late], late))
  BY DEF Db!Connect
<1>3. Db!TypeOK /\ pending = None /\ moved = None BY <1>1 DEF RestoreInv, PlaceInv
<1>4. main # None
  BY <1>1 DEF RestoreInv, LeftInv, FilesInv, Kept, Db!TypeOK, Db!Manifest
<1>5. Db!Live \in Db!Content /\ Db!Live \in Db!Contents BY <1>3, <1>4, Statements
<1> DEFINE d == [Db!Live EXCEPT !.running = @ \ late]
           q == Db!Queue(d, late)
<1>6. late \in SUBSET Db!Jobs /\ d \in Db!Content /\ d.row = Db!Live.row
  BY <1>5 DEF Db!Content
<1>7. q \in Db!Content /\ q.row = d.row
  <2> HIDE DEF d
  <2> QED BY <1>6, Contents
<1>8. Db!Live' = q /\ main' = main /\ wal' = q
  BY <1>2, <1>3, <1>4, <1>7, Statements DEF Db!Store
<1> HIDE DEF d, q
<1>9. Lasting BY FilesLast
<1>10. Known(Db!Live)' BY <1>5, <1>6, <1>7, <1>8, <1>9, SameRows
<1>11. Db!TypeOK' BY <1>1, <1>3, <1>7, <1>8 DEF Db!TypeOK
<1>12. \A c \in Db!Contents' : c \in Db!Contents \/ Known(c)'
  <2>1. SUFFICES ASSUME NEW c \in Db!Contents', c # Db!Live' PROVE c \in Db!Contents
    BY <1>10 DEF Known
  <2> QED BY <1>1, <1>8, <2>1 DEF Db!Contents
<1>13. PlaceInv' BY <1>1, <1>3, <1>4, <1>8 DEF PlaceInv
<1>14. LeftInv' /\ FileInv' /\ LogInv' BY <1>1 DEF LeftInv, FileInv, LogInv
<1>15. \A t \in Db!Types : working'[t] = None BY <1>1, NoJobAtWork
<1> QED BY <1>1, <1>11, <1>12, <1>13, <1>14, <1>15, StartStepByParts

-----------------------------------------------------------------------------
\* The first state satisfies the invariant.
LEMMA RestoreInit ==
  ASSUME Db!BackupAssumption, Db!Init
  PROVE  RestoreInv
<1> DEFINE f == Db!Fresh(1, 1)
<1>1. f \in Db!Content /\ \A a \in Db!Artifacts : f.row[a] = "none"
  BY DEF Db!Fresh, Db!Content, Db!Statuses
<1>2. f # None BY <1>1 DEF Db!BackupAssumption
<1> HIDE DEF f
<1>3. /\ main = f /\ wal = None /\ backup = [a \in Db!Artifacts |-> [is |-> "none", of |-> None]]
      /\ copies = {} /\ pending = None /\ app = "up" /\ moved = None /\ code = 1
      /\ working = [t \in Db!Types |-> None] /\ page = None /\ allowed = Bounds
      /\ left = [live |-> f, main |-> f, pending |-> None, moved |-> None, lost |-> None]
  BY DEF Db!Init, Db!NoFile, Db!Left, f
<1>4. Db!TypeOK
  <2>1. [is |-> "none", of |-> None] \in Db!File BY DEF Db!File
  <2>2. Bounds \in Db!Budget BY DEF Db!BackupAssumption
  <2> QED BY <1>1, <1>3, <2>1, <2>2 DEF Db!TypeOK
<1>5. FilesInv BY <1>3 DEF FilesInv
<1>6. Db!RowsHaveFiles
  <2>1. \A c \in Db!Contents : c = f BY <1>3 DEF Db!Contents
  <2> QED BY <1>1, <2>1 DEF Db!RowsHaveFiles, Db!Made
<1>7. Db!PendingIsSafe /\ PlaceInv /\ LeftInv /\ FileInv /\ LogInv
  BY <1>2, <1>3 DEF Db!PendingIsSafe, PlaceInv, LeftInv, FileInv, LogInv
<1>8. JobsInv BY <1>3 DEF JobsInv, Sound, SafeSnapshot, ApartInv, Db!Types
<1> QED BY <1>4, <1>5, <1>6, <1>7, <1>8 DEF RestoreInv

\* Every step keeps it.
LEMMA RestoreStep ==
  ASSUME Db!BackupAssumption, RestoreInv, [Db!Next]_(Db!vars)
  PROVE  RestoreInv'
<1>1. CASE UNCHANGED Db!vars
  <2>1. UNCHANGED <<main, wal, backup, copies, pending, app, moved, code, working, page, left, allowed>>
    BY <1>1 DEF Db!vars
  <2> QED BY <2>1 DEF RestoreInv, Db!TypeOK, FilesInv, Db!RowsHaveFiles, Db!PendingIsSafe, PlaceInv,
           LeftInv, FileInv, LogInv, JobsInv, Sound, SafeSnapshot, ApartInv, Db!Contents, Db!Live, Kept
<1>2. CASE Db!Next
  <2>1. CASE \/ Db!Write \/ Db!AutoCheckpoint \/ Db!RequestBackup \/ Db!ScheduleDailyBackup
             \/ (\E a \in Db!Artifacts : Db!RequestVerify(a) \/ Db!OpenRestore(a))
             \/ Db!RequestRestore \/ Db!CancelPendingRestore
    BY <1>2, <2>1, RequestsKeep
  <2>2. CASE \E a \in Db!Artifacts : Db!Damage(a) BY <1>2, <2>2, DamageKeeps
  <2>3. CASE \E j \in Db!Jobs : Db!Claim(j) BY <1>2, <2>3, ClaimKeeps
  <2>4. ASSUME NEW t \in Db!Types,
               \/ Db!CreateBegins(t) \/ Db!CreateCopies(t) \/ Db!CreateRenames(t)
               \/ Db!CreateSucceeds(t) \/ Db!CreateFails(t) \/ Db!Throws(t) \/ Db!Settles(t)
        PROVE  RestoreInv'
    BY <1>2, <2>4, CreateBeginsKeeps, CreateCopiesKeeps, CreateRenamesKeeps, CreateSucceedsKeeps,
       CreateFailsKeeps, ThrowsKeeps, SettlesKeeps
  <2>5. CASE Db!VerifyHashes \/ Db!VerifySucceeds \/ Db!PrepareChecks \/ Db!PrepareWrites
    BY <1>2, <2>5, VerifyHashesKeeps, VerifySucceedsKeeps, PrepareChecksKeeps, PrepareWritesKeeps
  <2>6. CASE Db!Stop \/ Db!Crash \/ Db!Upgrade \/ Db!Migrate
    BY <1>2, <2>6, StopKeeps, CrashKeeps, UpgradeKeeps, MigrateKeeps
  <2>7. CASE Db!Start \/ Db!CopyBackup \/ Db!MoveDatabase \/ Db!ClearLog
    BY <1>2, <2>7, StartKeeps, CopyBackupKeeps, MoveDatabaseKeeps, ClearLogKeeps
  <2>8. CASE Db!Switch \/ Db!Applied \/ Db!StartFails \/ Db!Connect
    BY <1>2, <2>8, SwitchKeeps, AppliedKeeps, StartFailsKeeps, ConnectKeeps
  <2> QED BY <1>2, <2>1, <2>2, <2>3, <2>4, <2>5, <2>6, <2>7, <2>8 DEF Db!Next
<1> QED BY <1>1, <1>2

LEMMA RestoreInvariant == Db!BackupAssumption /\ Db!Spec => []RestoreInv
<1> SUFFICES ASSUME Db!BackupAssumption PROVE Db!Spec => []RestoreInv
  OBVIOUS
<1>1. Db!Init => RestoreInv BY RestoreInit
<1>2. RestoreInv /\ [Db!Next]_(Db!vars) => RestoreInv' BY RestoreStep
<1> QED BY <1>1, <1>2, PTL DEF Db!Spec

\* Every reachable state of the database, its backups and their jobs is well typed
\* (backup.handlers.ts, pending-restore.ts).
THEOREM RestoreTypes == Db!BackupAssumption /\ Db!Spec => []Db!TypeOK
<1>1. RestoreInv => Db!TypeOK BY DEF RestoreInv
<1> QED BY <1>1, RestoreInvariant, PTL

\* Whatever crashes or fails between preparing a restore and the end of a later start, the
\* application opens the database it left or the backup whose restore was prepared, whole, with
\* no log of another database beside it (applyPendingRestore).
THEOREM RestoreComesUpAsLeft == Db!BackupAssumption /\ Db!Spec => []Db!ComesUpAsLeft
<1>1. ASSUME RestoreInv PROVE Db!ComesUpAsLeft
  BY <1>1 DEF RestoreInv, LeftInv, FilesInv, Kept, Db!ComesUpAsLeft, Db!Live, Db!TypeOK, Db!Manifest
<1> QED BY <1>1, RestoreInvariant, PTL

\* The database file that the process left is in its place or kept as an emergency copy, and it is
\* kept whenever another one is opened; what it left that is not in that file is in its log, or was
\* in a log that a start removed to restore a backup (applyPendingRestore, main.ts).
THEOREM RestoreLosesOnlyALog == Db!BackupAssumption /\ Db!Spec => []Db!OnlyALogIsLost
<1>1. ASSUME RestoreInv PROVE Db!OnlyALogIsLost
  <2>1. app # "up" /\ left.pending = None => app \in {"down", "ready"} /\ Db!Live = left.live
    BY <1>1 DEF RestoreInv, PlaceInv, LeftInv, Db!TypeOK, Db!Steps
  <2> QED BY <1>1, <2>1 DEF RestoreInv, FileInv, LogInv, Db!OnlyALogIsLost
<1> QED BY <1>1, RestoreInvariant, PTL

\* Where a row says that a backup was made, its file exists: in the database and in every backup
\* and emergency copy that may become the database (createBackup, verifyBackup).
THEOREM RestoreRowsHaveFiles == Db!BackupAssumption /\ Db!Spec => []Db!RowsHaveFiles
<1>1. RestoreInv => Db!RowsHaveFiles BY DEF RestoreInv
<1> QED BY <1>1, RestoreInvariant, PTL

\* A restore is pending only when a backup has been made of the database it will replace, after
\* the restore was asked for and apart from the backup that it restores (prepareRestore).
THEOREM RestorePendingIsSafe == Db!BackupAssumption /\ Db!Spec => []Db!PendingIsSafe
<1>1. RestoreInv => Db!PendingIsSafe BY DEF RestoreInv
<1> QED BY <1>1, RestoreInvariant, PTL
=============================================================================
