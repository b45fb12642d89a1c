-------------------------- MODULE RemindersProofs --------------------------
(* Theorems about Reminders, for any number of weeks and versions of the    *)
(* policy, any reminders of a week and every value of the bounds.          *)
EXTENDS Reminders, TLAPS

USE RemindersAssumption

----------------------------------------------------------------------------
(* What the steps have in common *)

LEMMA NoOccIsNone == NoOcc \notin Occurrences
BY DEF NoOcc, Occurrences, Versions

\* What may still happen, and what a death has left.
Budget == [faults: Nat, cancels: Nat, changes: Nat, unmarked: SUBSET Occurrences]

LEMMA Types ==
  ASSUME TypeOK
  PROVE  /\ occ \in [Occurrences -> OccStatus] /\ ntf \in [Occurrences -> NtfStatus]
         /\ job \in [Occurrences -> JobStatus] /\ sent \in [Occurrences -> Posts]
         /\ sched \in Sched /\ handler \in Handling /\ cancel \in MaybeOcc /\ now \in Times
         /\ policy.version \in Versions /\ policy.enabled \in BOOLEAN
         /\ budget \in Budget
         /\ policy \in [version: Versions, enabled: BOOLEAN] /\ up \in BOOLEAN
         /\ report \in [Weeks -> [status: {"none", "editing", "confirmed"}, submitted: BOOLEAN]]
BY DEF TypeOK, Budget

\* One unit of the budget is spent; a death may add to what it leaves.
LEMMA BudgetFalls ==
  ASSUME NEW b \in Budget, NEW X \in SUBSET Occurrences
  PROVE  /\ b.faults > 0 => [b EXCEPT !.faults = @ - 1] \in Budget
         /\ b.cancels > 0 => [b EXCEPT !.cancels = @ - 1] \in Budget
         /\ b.changes > 0 => [b EXCEPT !.changes = @ - 1] \in Budget
         /\ b.faults > 0 => [b EXCEPT !.faults = @ - 1, !.unmarked = @ \union X] \in Budget
<1>1. b.faults \in Nat /\ b.cancels \in Nat /\ b.changes \in Nat /\ b.unmarked \subseteq Occurrences
  BY DEF Budget
<1>2. \A k \in Nat : k > 0 => k - 1 \in Nat
  OBVIOUS
<1>3. \A k \in Nat : /\ [b EXCEPT !.faults = k] \in Budget /\ [b EXCEPT !.cancels = k] \in Budget
                     /\ [b EXCEPT !.changes = k] \in Budget
                     /\ [b EXCEPT !.faults = k, !.unmarked = b.unmarked \union X] \in Budget
  BY <1>1 DEF Budget
<1> QED BY <1>1, <1>2, <1>3

\* The rows keep the triggers of the table.
Triggers ==
  \A o \in Occurrences :
    /\ occ[o] \in {"absent", "planned"} => ntf[o] = "absent" /\ job[o] = "absent"
    /\ occ[o] = "queued" => ntf[o] # "absent" /\ job[o] # "absent"

\* The type of all but the rows.
Others ==
  /\ now \in Times /\ policy \in [version: Versions, enabled: BOOLEAN]
  /\ report \in [Weeks -> [status: {"none", "editing", "confirmed"}, submitted: BOOLEAN]]
  /\ sched \in Sched /\ handler \in Handling /\ cancel \in MaybeOcc /\ up \in BOOLEAN
  /\ budget \in Budget

RowTypes ==
  /\ occ \in [Occurrences -> OccStatus] /\ ntf \in [Occurrences -> NtfStatus]
  /\ job \in [Occurrences -> JobStatus] /\ sent \in [Occurrences -> Posts]

LEMMA TypeSplit == TypeOK <=> Triggers /\ Others /\ RowTypes
BY DEF TypeOK, Triggers, Others, RowTypes, Budget

LEMMA Joined ==
  ASSUME Triggers', Others', RowTypes', WaitTogether', ReconcileIsCurrent', HandlerInOrder',
         PostsInOrder', PageTells'
  PROVE  IInv'
BY TypeSplit DEF IInv, TypeOK, Triggers, Others, RowTypes, Budget

\* A step that leaves the rows, the messages and the policy alone.
LEMMA RowsSame ==
  ASSUME IInv, UNCHANGED <<occ, ntf, job, sent, policy>>
  PROVE  Triggers' /\ RowTypes' /\ WaitTogether' /\ PostsInOrder' /\ PageTells'
BY DEF IInv, TypeOK, Triggers, RowTypes, WaitTogether, PostsInOrder, PageTells, Current

\* Reconcile does not step, and nothing is planned that was not.
LEMMA ReconcileSame ==
  ASSUME ReconcileIsCurrent, UNCHANGED <<sched, policy>>,
         \A o \in Occurrences : occ'[o] = "planned" => occ[o] = "planned",
         sched \in Sched
  PROVE  ReconcileIsCurrent'
<1>1. /\ \A d \in sched.due : d[1] \in Occurrences
      /\ sched.pick # NoOcc => sched.pick \in Occurrences
  BY DEF Sched, MaybeOcc
<1> QED BY <1>1 DEF ReconcileIsCurrent, Current

\* The handler does not step, and its rows stay as they are.
LEMMA HandlerSame ==
  ASSUME HandlerInOrder, UNCHANGED <<handler, cancel>>,
         LET o == handler.occ IN
           /\ handler.pc # "idle" => job'[o] \notin {"absent", "queued"}
           /\ handler.pc \in {"load", "claim"} =>
                ntf'[o] = occ'[o] /\ occ'[o] \in {"queued", "cancelled"}
           /\ handler.pc \in {"send", "hung", "finish"} => ntf'[o] = ntf[o] /\ sent'[o] = sent[o],
         cancel # NoOcc => job'[cancel] # "absent"
  PROVE  HandlerInOrder'
BY DEF HandlerInOrder

LEMMA HandlerAlone ==
  ASSUME HandlerInOrder, UNCHANGED <<handler, cancel, occ, ntf, job, sent>>
  PROVE  HandlerInOrder'
BY DEF HandlerInOrder

----------------------------------------------------------------------------
(* The initial state, time and the report *)

LEMMA TimesFromZero == 0 \in Times
<1>1. NumWeeks * Week \in Nat
  OBVIOUS
<1> QED BY <1>1 DEF Times

LEMMA NoCalls == 0 \in 0..MaxCalls
<1>1. MaxCalls \in Nat
  OBVIOUS
<1> QED BY <1>1

LEMMA IdleTypes == IdleSched \in Sched /\ IdleHandler \in Handling /\ NoOcc \in MaybeOcc
<1>1. 0 \in Times /\ NoOcc \in MaybeOcc /\ 0 \in 0..NumVersions
  BY TimesFromZero DEF MaybeOcc
<1>2. IdleSched \in Sched
  BY <1>1 DEF IdleSched, Sched, Decisions
<1>3. IdleHandler \in Handling
  BY <1>1, NoCalls DEF IdleHandler, Handling, HandlerSteps
<1> QED BY <1>1, <1>2, <1>3

LEMMA Initially == Init => IInv
<1> SUFFICES ASSUME Init PROVE IInv
  OBVIOUS
<1>1. Triggers /\ RowTypes
  BY DEF Init, Triggers, RowTypes, OccStatus, OccFinal, NtfStatus, JobStatus, Posts
<1>2. Others
  BY IdleTypes, TimesFromZero DEF Init, Others, Versions, Budget
<1>3. WaitTogether /\ PostsInOrder /\ PageTells
  BY DEF Init, WaitTogether, PostsInOrder, PageTells
<1>4. ReconcileIsCurrent /\ HandlerInOrder
  BY DEF Init, ReconcileIsCurrent, HandlerInOrder, IdleSched, IdleHandler
<1> QED BY <1>1, <1>2, <1>3, <1>4, TypeSplit DEF IInv

LEMMA TickStep ==
  ASSUME IInv, Tick
  PROVE  IInv'
<1>0. /\ TypeOK /\ ReconcileIsCurrent /\ HandlerInOrder
      /\ UNCHANGED <<policy, report, occ, ntf, job, sched, handler, cancel, up, sent, budget>>
  BY DEF IInv, Tick, rows
<1>1. now' \in Times
  <2>1. NumWeeks * Week \in Nat
    OBVIOUS
  <2> QED BY <1>0, <2>1 DEF Tick, Times, TypeOK
<1>2. Others'
  BY <1>0, <1>1, Types DEF Others
<1>3. ReconcileIsCurrent' /\ HandlerInOrder'
  BY <1>0, ReconcileSame, HandlerAlone, Types
<1> QED BY <1>0, <1>2, <1>3, RowsSame, Joined

LEMMA ReportChangesStep ==
  ASSUME IInv, NEW w \in Weeks, ReportChanges(w)
  PROVE  IInv'
<1>0. /\ TypeOK /\ ReconcileIsCurrent /\ HandlerInOrder
      /\ UNCHANGED <<now, policy, occ, ntf, job, sched, handler, cancel, up, sent>>
      /\ budget.changes > 0 /\ budget' = [budget EXCEPT !.changes = @ - 1]
  BY DEF IInv, ReportChanges, rows
<1>1. report' \in [Weeks -> [status: {"none", "editing", "confirmed"}, submitted: BOOLEAN]]
  <2> DEFINE R == [status: {"none", "editing", "confirmed"}, submitted: BOOLEAN]
  <2>1. PICK r \in R : report' = [report EXCEPT ![w] = r]
    <3>1. report \in [Weeks -> R] /\ report[w] \in R
      BY <1>0, Types
    <3>2. /\ [report[w] EXCEPT !.status = "editing"] \in R
          /\ [report[w] EXCEPT !.status = "confirmed"] \in R
          /\ [report[w] EXCEPT !.submitted = TRUE] \in R
      BY <3>1
    <3>3. \/ report' = [report EXCEPT ![w] = [report[w] EXCEPT !.status = "editing"]]
          \/ report' = [report EXCEPT ![w] = [report[w] EXCEPT !.status = "confirmed"]]
          \/ report' = [report EXCEPT ![w] = [report[w] EXCEPT !.submitted = TRUE]]
      BY <3>1 DEF ReportChanges, ReportAfter
    <3> HIDE DEF R
    <3> QED BY <3>2, <3>3
  <2>2. report \in [Weeks -> R]
    BY <1>0, Types
  <2> HIDE DEF R
  <2>3. report' \in [Weeks -> R]
    BY <2>1, <2>2
  <2> QED BY <2>3 DEF R
<1>2. Others'
  <2>1. budget' \in Budget
    BY <1>0, Types, BudgetFalls
  <2> QED BY <1>0, <1>1, <2>1, Types DEF Others
<1>3. ReconcileIsCurrent' /\ HandlerInOrder'
  BY <1>0, ReconcileSame, HandlerAlone, Types
<1> QED BY <1>0, <1>2, <1>3, RowsSame, Joined

----------------------------------------------------------------------------
(* The end of a version of the policy *)

\* What is revoked was planned or queued and is not being sent.
LEMMA RevokedFacts ==
  ASSUME IInv, NEW S \in SUBSET Occurrences, Revoked(S), UNCHANGED <<sent, handler, cancel>>,
         \A o \in S : occ[o] \in {"planned", "queued"} /\ ntf[o] # "sending"
  PROVE  /\ Triggers' /\ RowTypes' /\ PostsInOrder' /\ PageTells' /\ HandlerInOrder'
         /\ \A o \in S : occ'[o] = "cancelled" /\ job'[o] # "queued"
         /\ \A o \in Occurrences \ S : occ'[o] = occ[o] /\ ntf'[o] = ntf[o] /\ job'[o] = job[o]
<1>0. /\ TypeOK /\ WaitTogether /\ HandlerInOrder /\ PostsInOrder /\ PageTells
  BY DEF IInv
<1>1. \A o \in Occurrences \ S : occ'[o] = occ[o] /\ ntf'[o] = ntf[o] /\ job'[o] = job[o]
  BY DEF Revoked
<1>2. ASSUME NEW o \in S
      PROVE  /\ occ'[o] = "cancelled" /\ job'[o] # "queued"
             /\ \/ ntf[o] = "absent" /\ ntf'[o] = "absent"
                \/ ntf[o] = "queued" /\ occ[o] = "queued" /\ ntf'[o] = "cancelled"
             /\ job'[o] = IF job[o] = "queued" THEN "cancelled" ELSE job[o]
  <2>1. \/ ntf[o] = "absent"
        \/ ntf[o] = "queued" /\ occ[o] = "queued"
    BY <1>0 DEF TypeOK, WaitTogether
  <2> QED BY <2>1 DEF Revoked
<1>3. RowTypes'
  <2>1. /\ occ' = [o \in Occurrences |-> IF o \in S THEN "cancelled" ELSE occ[o]]
        /\ ntf' = [o \in Occurrences |-> IF o \in S /\ ntf[o] = "queued" THEN "cancelled" ELSE ntf[o]]
        /\ job' = [o \in Occurrences |-> IF o \in S /\ job[o] = "queued" THEN "cancelled" ELSE job[o]]
    BY DEF Revoked
  <2>2. "cancelled" \in OccStatus /\ "cancelled" \in NtfStatus /\ "cancelled" \in JobStatus
    BY DEF OccStatus, OccFinal, NtfStatus, JobStatus
  <2> QED BY <1>0, <2>1, <2>2, Types DEF RowTypes
<1>4. Triggers'
  BY <1>0, <1>1, <1>2 DEF Triggers, TypeOK
<1>5. PostsInOrder'
  <2>1. ASSUME NEW o \in Occurrences
        PROVE  /\ sent'[o].busy <= sent'[o].calls /\ sent'[o].calls <= MaxCalls
               /\ sent'[o].calls > 0 => ntf'[o] \in {"sending", "succeeded", "failed", "unknown"}
    BY <1>0, <1>1, <1>2 DEF PostsInOrder
  <2> QED BY <2>1 DEF PostsInOrder
<1>6. PageTells'
  <2>1. ASSUME NEW o \in Occurrences
        PROVE  /\ occ'[o] \in {"absent", "planned", "skipped", "cancelled"} => sent'[o].calls = 0
               /\ occ'[o] = "succeeded" => sent'[o].accepted
               /\ ntf'[o] = "sending" => occ'[o] = "queued"
               /\ ntf'[o] \in {"succeeded", "failed", "skipped", "cancelled"} => occ'[o] = ntf'[o]
    <3>1. CASE o \in S
      <4>1. sent[o].calls = 0
        BY <1>0, <1>2, <3>1, Types DEF PostsInOrder, Posts
      <4> QED BY <1>2, <3>1, <4>1
    <3>2. CASE o \notin S
      BY <1>0, <1>1, <3>2 DEF PageTells
    <3> QED BY <3>1, <3>2
  <2> QED BY <2>1 DEF PageTells
<1>7. HandlerInOrder'
  <2> DEFINE o == handler.occ
  <2>1. ASSUME handler.pc # "idle"
        PROVE  /\ o \in Occurrences /\ job'[o] \notin {"absent", "queued"}
               /\ handler.pc \in {"load", "claim"} =>
                    ntf'[o] = occ'[o] /\ occ'[o] \in {"queued", "cancelled"}
               /\ handler.pc \in {"send", "hung", "finish"} => ntf'[o] = ntf[o] /\ sent'[o] = sent[o]
    <3>1. o \in Occurrences /\ job[o] \notin {"absent", "queued"}
      BY <1>0, <2>1 DEF HandlerInOrder
    <3>2. CASE o \in S
      <4>1. ntf[o] # "sending" /\ job[o] # "absent"
        BY <3>1, <3>2
      <4>2. ntf[o] = "queued" /\ occ[o] = "queued"
        BY <1>0, <1>2, <3>1, <3>2 DEF TypeOK, WaitTogether
      <4> QED BY <1>0, <1>2, <3>1, <3>2, <4>1, <4>2 DEF HandlerInOrder
    <3>3. CASE o \notin S
      BY <1>0, <1>1, <3>1, <3>3 DEF HandlerInOrder
    <3> QED BY <3>2, <3>3
  <2>2. cancel # NoOcc => job'[cancel] # "absent"
    <3>1. cancel # NoOcc => cancel \in Occurrences /\ job[cancel] # "absent"
      BY <1>0, Types DEF HandlerInOrder, MaybeOcc
    <3> QED BY <1>1, <1>2, <3>1
  <2>3. handler.pc \in {"load", "claim", "send", "hung", "finish"} => handler.pc # "idle"
    OBVIOUS
  <2> QED BY <1>0, <2>1, <2>2, <2>3, HandlerSame
<1> QED BY <1>1, <1>2, <1>3, <1>4, <1>5, <1>6, <1>7

LEMMA UpdatePolicyStep ==
  ASSUME IInv, UpdatePolicy
  PROVE  IInv'
<1> DEFINE S == {o \in Occurrences : occ[o] \in {"planned", "queued"} /\ ntf[o] # "sending"}
<1>0. /\ TypeOK /\ WaitTogether /\ ReconcileIsCurrent /\ Revoked(S)
      /\ UNCHANGED <<now, report, sched, handler, cancel, up, sent, budget>>
      /\ policy.version < NumVersions
      /\ \E enabled \in BOOLEAN : policy' = [version |-> policy.version + 1, enabled |-> enabled]
  BY DEF IInv, UpdatePolicy
<1>1. /\ S \in SUBSET Occurrences
      /\ \A o \in S : occ[o] \in {"planned", "queued"} /\ ntf[o] # "sending"
      /\ \A o \in Occurrences \ S : occ[o] \in {"planned", "queued"} => ntf[o] = "sending"
  OBVIOUS
<1> HIDE DEF S
<1>2. /\ Triggers' /\ RowTypes' /\ PostsInOrder' /\ PageTells' /\ HandlerInOrder'
      /\ \A o \in S : occ'[o] = "cancelled" /\ job'[o] # "queued"
      /\ \A o \in Occurrences \ S : occ'[o] = occ[o] /\ ntf'[o] = ntf[o] /\ job'[o] = job[o]
  BY <1>0, <1>1, RevokedFacts
<1>3. Others'
  <2>1. policy' \in [version: Versions, enabled: BOOLEAN]
    BY <1>0, Types DEF Versions
  <2> QED BY <1>0, <2>1, Types DEF Others
<1>4. WaitTogether'
  BY <1>0, <1>1, <1>2 DEF WaitTogether
<1>5. ReconcileIsCurrent'
  <2>1. \A o \in Occurrences : occ'[o] # "planned"
    BY <1>0, <1>1, <1>2 DEF TypeOK
  <2>2. /\ \A d \in sched.due : d[1] \in Occurrences
        /\ sched.pick # NoOcc => sched.pick \in Occurrences
    BY <1>0, Types DEF Sched, MaybeOcc
  <2> QED BY <1>0, <2>1, <2>2 DEF ReconcileIsCurrent
<1> QED BY <1>2, <1>3, <1>4, <1>5, Joined

----------------------------------------------------------------------------
(* Reconcile *)

LEMMA BeginStep ==
  ASSUME IInv, Begin
  PROVE  IInv'
<1> DEFINE stale == {<<o, occ[o]>> : o \in {p \in Occurrences :
              /\ occ[p] \in {"planned", "queued"}
              /\ policy.enabled => p.v # policy.version
              /\ ntf[p] # "sending"}}
           row == [IdleSched EXCEPT !.pc = "stale", !.version = policy.version,
                     !.enabled = policy.enabled, !.now = now, !.stale = stale]
<1>0. /\ TypeOK /\ WaitTogether /\ HandlerInOrder
      /\ UNCHANGED <<now, policy, report, occ, ntf, job, handler, cancel, up, sent, budget>>
      /\ sched' = row
  BY DEF IInv, Begin, rows
<1>1. /\ stale \in SUBSET (Occurrences \X {"planned", "queued"})
      /\ \A s \in stale : s[2] = "planned"
  BY <1>0 DEF WaitTogether, Current
<1> HIDE DEF stale
<1>2. /\ row \in Sched /\ row.pc = "stale" /\ row.stale = stale /\ row.due = {}
      /\ row.pick = NoOcc
  <2>1. policy.version \in 0..NumVersions /\ policy.enabled \in BOOLEAN /\ now \in Times
    BY <1>0, Types DEF Versions
  <2> QED BY <1>1, <2>1, IdleTypes DEF IdleSched, Sched
<1> HIDE DEF row
<1>3. Others'
  BY <1>0, <1>2, Types DEF Others
<1>4. ReconcileIsCurrent'
  BY <1>0, <1>1, <1>2 DEF ReconcileIsCurrent
<1> QED BY <1>0, <1>3, <1>4, HandlerAlone, RowsSame, Joined

LEMMA CancelStaleStep ==
  ASSUME IInv, CancelStale
  PROVE  IInv'
<1>0. /\ TypeOK /\ WaitTogether /\ ReconcileIsCurrent /\ HandlerInOrder /\ sched.pc = "stale"
      /\ UNCHANGED <<now, policy, report, handler, cancel, up, sent, budget>>
      /\ sched \in Sched /\ sched.due = {} /\ sched.pick = NoOcc
  BY Types DEF IInv, CancelStale, ReconcileIsCurrent
<1>1. CASE /\ sched' = [sched EXCEPT !.pc = IF sched.enabled THEN "plan" ELSE "list"]
           /\ UNCHANGED rows
  <2>1. /\ sched' \in Sched /\ sched'.pc \in {"plan", "list"} /\ sched'.stale = sched.stale
        /\ sched'.due = {} /\ sched'.pick = NoOcc
    BY <1>0, <1>1 DEF Sched
  <2>2. Others'
    BY <1>0, <2>1, Types DEF Others
  <2>3. ReconcileIsCurrent'
    BY <1>0, <2>1 DEF ReconcileIsCurrent
  <2> QED BY <1>0, <1>1, <2>2, <2>3, HandlerAlone, RowsSame, Joined DEF rows
<1>2. ASSUME NEW s \in sched.stale, Revoked(IF occ[s[1]] = s[2] THEN {s[1]} ELSE {}),
             sched' = [sched EXCEPT !.stale = @ \ {s}]
      PROVE  IInv'
  <2> DEFINE S == IF occ[s[1]] = s[2] THEN {s[1]} ELSE {}
  <2>1. s[1] \in Occurrences /\ s[2] = "planned"
    BY <1>0 DEF Sched, ReconcileIsCurrent
  <2>2. S \in SUBSET Occurrences /\ \A o \in S : occ[o] \in {"planned", "queued"} /\ ntf[o] # "sending"
    BY <1>0, <2>1 DEF TypeOK
  <2>3. Revoked(S)
    BY <1>2
  <2> HIDE DEF S
  <2>4. /\ Triggers' /\ RowTypes' /\ PostsInOrder' /\ PageTells' /\ HandlerInOrder'
        /\ \A o \in S : occ'[o] = "cancelled" /\ job'[o] # "queued"
        /\ \A o \in Occurrences \ S : occ'[o] = occ[o] /\ ntf'[o] = ntf[o] /\ job'[o] = job[o]
    BY <1>0, <2>2, <2>3, RevokedFacts
  <2>5. /\ sched' \in Sched /\ sched'.pc = "stale" /\ sched'.stale \subseteq sched.stale
        /\ sched'.due = {} /\ sched'.pick = NoOcc
    <3>1. sched.stale \ {s} \in SUBSET (Occurrences \X {"planned", "queued"})
      BY <1>0 DEF Sched
    <3> QED BY <1>0, <1>2, <3>1 DEF Sched
  <2>6. Others'
    BY <1>0, <2>5, Types DEF Others
  <2>7. WaitTogether'
    BY <1>0, <2>4 DEF WaitTogether, Current
  <2>8. ReconcileIsCurrent'
    BY <1>0, <2>5 DEF ReconcileIsCurrent
  <2> QED BY <2>4, <2>6, <2>7, <2>8, Joined
<1> QED BY <1>1, <1>2 DEF CancelStale

LEMMA PlanStep ==
  ASSUME IInv, Plan
  PROVE  IInv'
<1>0. /\ TypeOK /\ WaitTogether /\ ReconcileIsCurrent /\ HandlerInOrder /\ PostsInOrder /\ PageTells
      /\ UNCHANGED <<now, policy, report, ntf, job, handler, cancel, up, sent, budget>>
      /\ occ' = [o \in Occurrences |-> IF Missing(o) THEN "planned" ELSE occ[o]]
      /\ sched.pc = "plan" /\ sched' = [sched EXCEPT !.pc = "list"]
      /\ sched \in Sched /\ sched.due = {} /\ sched.pick = NoOcc
  BY Types DEF IInv, Plan, ReconcileIsCurrent
<1>1. \A o \in Occurrences :
        \/ occ'[o] = occ[o]
        \/ occ[o] = "absent" /\ occ'[o] = "planned" /\ ntf[o] = "absent" /\ job[o] = "absent"
  BY <1>0 DEF Missing, TypeOK
<1>2. occ' \in [Occurrences -> OccStatus]
  <2>1. "planned" \in OccStatus
    BY DEF OccStatus
  <2> QED BY <1>0, <2>1, Types
<1>3. /\ sched' \in Sched /\ sched'.pc = "list" /\ sched'.stale = sched.stale
      /\ sched'.due = {} /\ sched'.pick = NoOcc
  BY <1>0 DEF Sched
<1>4. Others' /\ RowTypes'
  BY <1>0, <1>2, <1>3, Types DEF Others, RowTypes
<1>5. Triggers'
  BY <1>0, <1>1 DEF Triggers, TypeOK
<1>6. WaitTogether'
  BY <1>0, <1>1 DEF WaitTogether, Current
<1>7. ReconcileIsCurrent'
  BY <1>0, <1>3 DEF ReconcileIsCurrent
<1>8. HandlerInOrder'
  BY <1>0, <1>1 DEF HandlerInOrder
<1>9. PostsInOrder' /\ PageTells'
  BY <1>0, <1>1 DEF PostsInOrder, PageTells
<1> QED BY <1>4, <1>5, <1>6, <1>7, <1>8, <1>9, Joined

LEMMA ListDueStep ==
  ASSUME IInv, ListDue
  PROVE  IInv'
<1> DEFINE due == {<<o, policy.enabled /\ policy.version = o.v>> :
                     o \in {p \in Occurrences : occ[p] = "planned" /\ ScheduledFor(p) <= sched.now}}
<1>0. /\ TypeOK /\ ReconcileIsCurrent /\ HandlerInOrder
      /\ UNCHANGED <<now, policy, report, occ, ntf, job, handler, cancel, up, sent, budget>>
      /\ sched.pc = "list" /\ sched' = [sched EXCEPT !.pc = "due", !.due = due]
      /\ sched \in Sched /\ sched.due = {} /\ sched.pick = NoOcc
  BY Types DEF IInv, ListDue, ReconcileIsCurrent, rows
<1>1. /\ due \in SUBSET (Occurrences \X BOOLEAN)
      /\ \A d \in due : d[2] => Current(d[1])
  <2>1. policy.enabled \in BOOLEAN
    BY <1>0, Types
  <2>2. ASSUME NEW d \in due
        PROVE  d \in Occurrences \X BOOLEAN /\ (d[2] => Current(d[1]))
    <3>1. PICK o \in Occurrences : d = <<o, policy.enabled /\ policy.version = o.v>>
      OBVIOUS
    <3> QED BY <2>1, <3>1 DEF Current
  <2> QED BY <2>2
<1> HIDE DEF due
<1>2. /\ sched' \in Sched /\ sched'.pc = "due" /\ sched'.stale = sched.stale
      /\ sched'.due = due /\ sched'.pick = NoOcc
  BY <1>0, <1>1 DEF Sched
<1>3. Others'
  BY <1>0, <1>2, Types DEF Others
<1>4. ReconcileIsCurrent'
  BY <1>0, <1>1, <1>2 DEF ReconcileIsCurrent, Current
<1> QED BY <1>0, <1>3, <1>4, HandlerAlone, RowsSame, Joined

LEMMA DecideStep ==
  ASSUME IInv, Decide
  PROVE  IInv'
<1>0. /\ TypeOK /\ ReconcileIsCurrent /\ HandlerInOrder
      /\ UNCHANGED <<now, policy, report, occ, ntf, job, handler, cancel, up, sent, budget>>
      /\ sched.pc = "due" /\ sched \in Sched
  BY Types DEF IInv, Decide, rows
<1>1. CASE sched' = IdleSched
  <2>1. Others'
    BY <1>0, <1>1, IdleTypes, Types DEF Others
  <2>2. ReconcileIsCurrent'
    BY <1>1 DEF ReconcileIsCurrent, IdleSched
  <2> QED BY <1>0, <2>1, <2>2, HandlerAlone, RowsSame, Joined
<1>2. ASSUME NEW d \in sched.due,
             sched' = [sched EXCEPT !.due = @ \ {d}, !.pick = d[1], !.plan = Decision(d[1], d[2])]
      PROVE  IInv'
  <2> DEFINE plan == Decision(d[1], d[2])
             due == sched.due \ {d}
             o == d[1]
  <2>1. o \in Occurrences /\ d[2] \in BOOLEAN
    BY <1>0 DEF Sched
  <2>2. plan \in Decisions /\ (plan = "queue" => d[2])
    BY <2>1 DEF Decision, Decisions
  <2>3. due \in SUBSET (Occurrences \X BOOLEAN) /\ o \in MaybeOcc
    BY <1>0, <2>1 DEF Sched, MaybeOcc
  <2>4. sched' = [sched EXCEPT !.due = due, !.pick = o, !.plan = plan]
    BY <1>0, <1>2 DEF Sched
  <2>5. plan = "queue" /\ occ[o] = "planned" => Current(o)
    BY <1>0, <2>2 DEF ReconcileIsCurrent
  <2>6. due \subseteq sched.due
    OBVIOUS
  <2> HIDE DEF plan, due, o
  <2>7. /\ sched' \in Sched /\ sched'.pc = "due" /\ sched'.stale = sched.stale
        /\ sched'.due = due /\ sched'.pick = o /\ sched'.plan = plan
    BY <1>0, <2>2, <2>3, <2>4 DEF Sched
  <2>8. Others'
    BY <1>0, <2>7, Types DEF Others
  <2>9. ReconcileIsCurrent'
    BY <1>0, <2>5, <2>6, <2>7 DEF ReconcileIsCurrent, Current
  <2> QED BY <1>0, <2>8, <2>9, HandlerAlone, RowsSame, Joined
<1> QED BY <1>1, <1>2 DEF Decide

\* The rows of one occurrence are written.
LEMMA OneRow ==
  ASSUME NEW f, NEW T, NEW g, NEW o \in Occurrences, NEW x \in T,
         f \in [Occurrences -> T], g = [f EXCEPT ![o] = x]
  PROVE  g \in [Occurrences -> T] /\ g[o] = x /\ \A p \in Occurrences : p # o => g[p] = f[p]
OBVIOUS

LEMMA ApplyStep ==
  ASSUME IInv, Apply
  PROVE  IInv'
<1> DEFINE o == sched.pick
<1>0. /\ TypeOK /\ WaitTogether /\ ReconcileIsCurrent /\ HandlerInOrder /\ PostsInOrder /\ PageTells
      /\ UNCHANGED <<now, policy, report, handler, cancel, up, sent, budget>>
      /\ sched' = [sched EXCEPT !.pick = NoOcc, !.plan = "none"]
      /\ sched \in Sched /\ o # NoOcc
  BY Types DEF IInv, Apply
<1>1. o \in Occurrences
  BY <1>0 DEF Sched, MaybeOcc
<1>2. /\ sched' \in Sched /\ sched'.pc = sched.pc /\ sched'.stale = sched.stale
      /\ sched'.due = sched.due /\ sched'.pick = NoOcc
  BY <1>0, IdleTypes DEF Sched, Decisions
<1>3. Others'
  BY <1>0, <1>2, Types DEF Others
<1>4. ASSUME UNCHANGED <<occ, ntf, job>>
      PROVE  IInv'
  <2>1. ReconcileIsCurrent'
    BY <1>0, <1>2, <1>4 DEF ReconcileIsCurrent, Current
  <2> QED BY <1>0, <1>3, <1>4, <2>1, HandlerAlone, RowsSame, Joined
<1>5. ASSUME occ[o] = "planned", NEW x \in OccStatus, NEW y \in NtfStatus, NEW z \in JobStatus,
             occ' = [occ EXCEPT ![o] = x], ntf' = [ntf EXCEPT ![o] = y],
             job' = [job EXCEPT ![o] = z],
             \/ x = "cancelled" /\ y = "absent" /\ z = "absent"
             \/ x = "skipped" /\ y = "skipped" /\ z = "absent"
             \/ x = "queued" /\ y = "queued" /\ z = "queued" /\ Current(o)
      PROVE  IInv'
  <2>0. ntf[o] = "absent" /\ job[o] = "absent" /\ sent[o].calls = 0
    BY <1>0, <1>1, <1>5 DEF TypeOK, PageTells
  <2>1. occ' \in [Occurrences -> OccStatus] /\ occ'[o] = x
        /\ \A p \in Occurrences : p # o => occ'[p] = occ[p]
    BY <1>0, <1>1, <1>5, Types, OneRow
  <2>2. ntf' \in [Occurrences -> NtfStatus] /\ ntf'[o] = y
        /\ \A p \in Occurrences : p # o => ntf'[p] = ntf[p]
    BY <1>0, <1>1, <1>5, Types, OneRow
  <2>3. job' \in [Occurrences -> JobStatus] /\ job'[o] = z
        /\ \A p \in Occurrences : p # o => job'[p] = job[p]
    BY <1>0, <1>1, <1>5, Types, OneRow
  <2>4. RowTypes'
    BY <1>0, <2>1, <2>2, <2>3, Types DEF RowTypes
  <2> HIDE DEF o
  <2>5. Triggers'
    BY <1>0, <1>5, <2>1, <2>2, <2>3 DEF Triggers, TypeOK
  <2>6. WaitTogether'
    BY <1>0, <1>5, <2>1, <2>2, <2>3 DEF WaitTogether, Current
  <2>7. ReconcileIsCurrent'
    <3>1. \A p \in Occurrences : occ'[p] = "planned" => occ[p] = "planned"
      BY <1>5, <2>1
    <3>2. \A d \in sched.due : d[1] \in Occurrences
      BY <1>0 DEF Sched
    <3>3. sched.pc # "due" => sched.due = {}
      BY <1>0 DEF ReconcileIsCurrent
    <3> QED BY <1>0, <1>2, <3>1, <3>2, <3>3 DEF ReconcileIsCurrent, Current
  <2>8. HandlerInOrder'
    <3>1. handler.pc # "idle" => handler.occ \in Occurrences /\ handler.occ # o
      BY <1>0, <2>0 DEF HandlerInOrder
    <3>2. cancel # NoOcc => cancel \in Occurrences /\ cancel # o
      BY <1>0, <2>0, Types DEF HandlerInOrder, MaybeOcc
    <3> QED BY <1>0, <2>1, <2>2, <2>3, <3>1, <3>2 DEF HandlerInOrder
  <2>9. PostsInOrder'
    BY <1>0, <2>0, <2>2 DEF PostsInOrder
  <2>10. PageTells'
    BY <1>0, <1>5, <2>0, <2>1, <2>2 DEF PageTells
  <2> QED BY <1>3, <2>4, <2>5, <2>6, <2>7, <2>8, <2>9, <2>10, Joined
<1>6. /\ {"cancelled", "skipped", "queued"} \subseteq OccStatus
      /\ {"absent", "skipped", "queued"} \subseteq NtfStatus
      /\ {"absent", "queued"} \subseteq JobStatus
  BY DEF OccStatus, OccFinal, NtfStatus, JobStatus
<1>7. occ[o] = "planned" => /\ ntf = [ntf EXCEPT ![o] = "absent"]
                            /\ job = [job EXCEPT ![o] = "absent"]
  BY <1>0, <1>1 DEF TypeOK
<1>8. CASE occ[o] = "planned" /\ sched.plan = "cancel"
  <2>1. /\ occ' = [occ EXCEPT ![o] = "cancelled"] /\ ntf' = [ntf EXCEPT ![o] = "absent"]
        /\ job' = [job EXCEPT ![o] = "absent"]
    BY <1>7, <1>8 DEF Apply
  <2> QED BY <1>5, <1>6, <1>8, <2>1
<1>9. CASE occ[o] = "planned" /\ sched.plan = "skip"
  <2>1. /\ occ' = [occ EXCEPT ![o] = "skipped"] /\ ntf' = [ntf EXCEPT ![o] = "skipped"]
        /\ job' = [job EXCEPT ![o] = "absent"]
    BY <1>7, <1>9 DEF Apply
  <2> QED BY <1>5, <1>6, <1>9, <2>1
<1>10. CASE occ[o] = "planned" /\ sched.plan = "queue"
  <2>1. /\ occ' = [occ EXCEPT ![o] = "queued"] /\ ntf' = [ntf EXCEPT ![o] = "queued"]
        /\ job' = [job EXCEPT ![o] = "queued"]
    BY <1>10 DEF Apply
  <2>2. Current(o)
    BY <1>0, <1>10 DEF ReconcileIsCurrent
  <2> QED BY <1>5, <1>6, <1>10, <2>1, <2>2
<1>11. CASE occ[o] # "planned"
  <2>1. UNCHANGED <<occ, ntf, job>>
    BY <1>11 DEF Apply, rows
  <2> QED BY <1>4, <2>1
<1>12. \/ occ[o] = "planned" /\ sched.plan \in {"cancel", "skip", "queue"}
       \/ occ[o] # "planned"
  BY DEF Apply
<1> QED BY <1>8, <1>9, <1>10, <1>11, <1>12

----------------------------------------------------------------------------
(* The handler and its runner *)

\* What the steps of the handler leave alone.
LEMMA HandlerTypes ==
  ASSUME TypeOK, UNCHANGED <<now, policy, report, sched, cancel, up, budget>>, handler' \in Handling
  PROVE  Others'
BY Types DEF Others

LEMMA HandlingRow ==
  ASSUME handler \in Handling, NEW pc \in HandlerSteps,
         NEW result \in {"none", "succeeded", "failed", "unknown"},
         handler' = [handler EXCEPT !.pc = pc, !.result = result]
  PROVE  /\ handler' \in Handling /\ handler'.pc = pc /\ handler'.result = result
         /\ handler'.occ = handler.occ /\ handler'.calls = handler.calls
BY DEF Handling

LEMMA GoesFacts ==
  ASSUME handler \in Handling, NEW pc \in HandlerSteps, Goes(pc)
  PROVE  /\ handler' \in Handling /\ handler'.pc = pc /\ handler'.result = handler.result
         /\ handler'.occ = handler.occ /\ handler'.calls = handler.calls
BY DEF Handling, Goes

LEMMA StartStep ==
  ASSUME IInv, NEW o \in Occurrences, Start(o)
  PROVE  IInv'
<1> DEFINE h == [IdleHandler EXCEPT !.occ = o, !.pc = "load"]
<1>0. /\ TypeOK /\ WaitTogether /\ ReconcileIsCurrent /\ HandlerInOrder /\ PostsInOrder /\ PageTells
      /\ UNCHANGED <<now, policy, report, occ, ntf, sched, cancel, up, sent, budget>>
      /\ job[o] = "queued" /\ job' = [job EXCEPT ![o] = "running"] /\ handler' = h
  BY DEF IInv, Start
<1>1. h \in Handling /\ h.occ = o /\ h.pc = "load" /\ h.calls = 0
  BY NoCalls DEF Handling, HandlerSteps, MaybeOcc, IdleHandler
<1> HIDE DEF h
<1>2. /\ job' \in [Occurrences -> JobStatus] /\ job'[o] = "running"
      /\ \A p \in Occurrences : p # o => job'[p] = job[p]
  <2>1. "running" \in JobStatus
    BY DEF JobStatus
  <2> QED BY <1>0, <2>1, Types, OneRow
<1>3. Others' /\ RowTypes'
  BY <1>0, <1>1, <1>2, HandlerTypes, Types DEF RowTypes
<1>4. occ[o] = "queued" /\ ntf[o] = "queued"
  BY <1>0 DEF WaitTogether
<1>5. Triggers'
  BY <1>0, <1>2, <1>4 DEF Triggers, TypeOK
<1>6. WaitTogether'
  BY <1>0, <1>2 DEF WaitTogether, Current
<1>7. ReconcileIsCurrent'
  BY <1>0, ReconcileSame, Types
<1>8. HandlerInOrder'
  <2>1. cancel # NoOcc => cancel \in Occurrences
    BY <1>0, Types DEF MaybeOcc
  <2> QED BY <1>0, <1>1, <1>2, <1>4, <2>1 DEF HandlerInOrder
<1>9. PostsInOrder' /\ PageTells'
  BY <1>0 DEF PostsInOrder, PageTells
<1> QED BY <1>3, <1>5, <1>6, <1>7, <1>8, <1>9, Joined

LEMMA LoadStep ==
  ASSUME IInv, Load
  PROVE  IInv'
<1>0. /\ TypeOK /\ ReconcileIsCurrent /\ HandlerInOrder /\ handler.pc = "load"
      /\ UNCHANGED <<now, policy, report, occ, ntf, job, sched, cancel, up, sent, budget>>
      /\ handler \in Handling
  BY Types DEF IInv, Load, At, rows
<1>1. /\ handler' \in Handling /\ handler'.pc \in {"claim", "settle"}
      /\ handler'.occ = handler.occ /\ handler'.calls = handler.calls
  <2>1. CASE Goes("claim")
    BY <1>0, <2>1, GoesFacts DEF HandlerSteps
  <2>2. CASE handler' = [handler EXCEPT !.pc = "settle", !.result = "unknown"]
    BY <1>0, <2>2, HandlingRow DEF HandlerSteps
  <2> QED BY <2>1, <2>2 DEF Load
<1>2. HandlerInOrder'
  BY <1>0, <1>1 DEF HandlerInOrder
<1>3. ReconcileIsCurrent'
  BY <1>0, ReconcileSame, Types
<1> QED BY <1>0, <1>1, <1>2, <1>3, HandlerTypes, RowsSame, Joined

LEMMA ClaimStep ==
  ASSUME IInv, Claim
  PROVE  IInv'
<1> DEFINE o == handler.occ
<1>0. /\ TypeOK /\ WaitTogether /\ ReconcileIsCurrent /\ HandlerInOrder /\ PostsInOrder /\ PageTells
      /\ UNCHANGED <<now, policy, report, occ, job, sched, cancel, up, sent, budget>>
      /\ handler.pc = "claim" /\ handler \in Handling
  BY Types DEF IInv, Claim, At
<1>1. /\ o \in Occurrences /\ job[o] \notin {"absent", "queued"} /\ ntf[o] = occ[o]
      /\ handler.calls = 0
  BY <1>0 DEF HandlerInOrder
<1>2. ReconcileIsCurrent'
  BY <1>0, ReconcileSame, Types
<1>3. CASE ntf[o] # "queued"
  <2>1. UNCHANGED ntf /\ handler' = [handler EXCEPT !.pc = "settle", !.result = "unknown"]
    BY <1>3 DEF Claim
  <2>2. handler' \in Handling /\ handler'.pc = "settle" /\ handler'.occ = o
    BY <1>0, <2>1, HandlingRow DEF HandlerSteps
  <2>3. HandlerInOrder'
    BY <1>0, <1>1, <2>1, <2>2 DEF HandlerInOrder
  <2> QED BY <1>0, <1>2, <2>1, <2>2, <2>3, HandlerTypes, RowsSame, Joined
<1>4. CASE ntf[o] = "queued"
  <2>1. ntf' = [ntf EXCEPT ![o] = "sending"] /\ Goes("send")
    BY <1>4 DEF Claim
  <2>2. handler' \in Handling /\ handler'.pc = "send" /\ handler'.occ = o /\ handler'.calls = 0
    BY <1>0, <1>1, <2>1, GoesFacts DEF HandlerSteps
  <2> HIDE DEF o
  <2>3. /\ ntf' \in [Occurrences -> NtfStatus] /\ ntf'[o] = "sending"
        /\ \A p \in Occurrences : p # o => ntf'[p] = ntf[p]
    <3>1. "sending" \in NtfStatus
      BY DEF NtfStatus
    <3> QED BY <1>0, <1>1, <2>1, <3>1, Types, OneRow
  <2>4. Others' /\ RowTypes'
    BY <1>0, <2>2, <2>3, HandlerTypes, Types DEF RowTypes
  <2>5. Triggers'
    BY <1>0, <1>1, <1>4, <2>3 DEF Triggers, TypeOK
  <2>6. WaitTogether'
    BY <1>0, <1>1, <1>4, <2>3 DEF WaitTogether, Current
  <2>7. sent[o].calls = 0 /\ sent[o].busy = 0
    BY <1>0, <1>1, <1>4, Types DEF PostsInOrder, Posts
  <2>8. HandlerInOrder'
    BY <1>0, <1>1, <2>2, <2>3, <2>7 DEF HandlerInOrder
  <2>9. PostsInOrder' /\ PageTells'
    BY <1>0, <1>1, <1>4, <2>3, <2>7 DEF PostsInOrder, PageTells
  <2> QED BY <1>2, <2>4, <2>5, <2>6, <2>8, <2>9, Joined
<1> QED BY <1>3, <1>4

\* What a POST leaves when the one that is being sent was posted as it is told.
LEMMA PostStep ==
  ASSUME IInv, handler.pc = "send", NEW busy \in {0, 1}, NEW accepted \in BOOLEAN,
         Posted(busy, accepted), handler' \in Handling, handler'.occ = handler.occ,
         \/ handler'.pc = "send" /\ handler'.calls = handler.calls + 1
            /\ busy = 1 /\ handler'.calls < MaxCalls
         \/ handler'.pc = "hung"
         \/ handler'.pc = "finish" /\ handler'.result # "none"
            /\ (handler'.result = "succeeded" => accepted),
         UNCHANGED <<now, policy, report, occ, ntf, job, sched, cancel, up>>, budget' \in Budget
  PROVE  IInv'
<1> DEFINE o == handler.occ
           s == [calls |-> sent[o].calls + 1, busy |-> sent[o].busy + busy, accepted |-> accepted]
<1>0. /\ TypeOK /\ WaitTogether /\ ReconcileIsCurrent /\ HandlerInOrder /\ PostsInOrder /\ PageTells
      /\ handler \in Handling
  BY Types DEF IInv
<1>1. /\ o \in Occurrences /\ ntf[o] = "sending" /\ occ[o] = "queued"
      /\ sent[o].calls = handler.calls /\ sent[o].busy = handler.calls /\ handler.calls < MaxCalls
      /\ handler.calls \in Nat /\ sent[o] \in Posts
  BY <1>0, Types DEF HandlerInOrder, PageTells, Handling
<1>2. s \in Posts /\ s.calls = handler.calls + 1 /\ s.busy = handler.calls + busy /\ s.accepted = accepted
  BY <1>1 DEF Posts
<1>3. sent' = [sent EXCEPT ![o] = s]
  BY <1>0, <1>1, Types DEF Posted
<1> HIDE DEF o, s
<1>4. /\ sent' \in [Occurrences -> Posts] /\ sent'[o] = s
      /\ \A p \in Occurrences : p # o => sent'[p] = sent[p]
  BY <1>0, <1>1, <1>2, <1>3, Types, OneRow
<1>5. Others' /\ RowTypes' /\ Triggers'
  BY <1>0, <1>4, Types DEF Others, RowTypes, Triggers, TypeOK
<1>6. WaitTogether'
  BY <1>0 DEF WaitTogether, Current
<1>7. ReconcileIsCurrent'
  BY <1>0, ReconcileSame, Types
<1>8. HandlerInOrder'
  <2>1. handler'.occ = o
    BY DEF o
  <2> QED BY <1>0, <1>1, <1>2, <1>4, <2>1 DEF HandlerInOrder, o
<1>9. PostsInOrder' /\ PageTells'
  <2>1. s.busy <= s.calls /\ s.calls <= MaxCalls
    BY <1>1, <1>2
  <2>2. PostsInOrder'
    BY <1>0, <1>1, <1>4, <2>1 DEF PostsInOrder
  <2>3. PageTells'
    BY <1>0, <1>1, <1>4 DEF PageTells
  <2> QED BY <2>2, <2>3
<1> QED BY <1>5, <1>6, <1>7, <1>8, <1>9, Joined

\* The end of a POST.
LEMMA EndsFacts ==
  ASSUME handler \in Handling, NEW result \in {"succeeded", "failed", "unknown"}, Ends(result)
  PROVE  /\ handler' \in Handling /\ handler'.pc = "finish" /\ handler'.result = result
         /\ handler'.occ = handler.occ /\ handler'.calls = handler.calls
BY HandlingRow DEF Ends, HandlerSteps

LEMMA SendStep ==
  ASSUME IInv, Send
  PROVE  IInv'
<1>0. /\ handler.pc = "send" /\ handler \in Handling /\ HandlerInOrder
      /\ UNCHANGED <<now, policy, report, occ, ntf, job, sched, cancel, up, budget>>
      /\ budget' \in Budget
  BY Types DEF IInv, Send, At, rows
<1>1. CASE AnsweredLater
  <2>1. Posted(1, FALSE)
    BY <1>1 DEF AnsweredLater
  <2>2. CASE handler.calls + 1 < MaxCalls
    <3>1. handler' = [handler EXCEPT !.calls = handler.calls + 1]
      BY <1>0, <1>1, <2>2 DEF AnsweredLater, Handling
    <3>2. handler.calls + 1 \in 0..MaxCalls
      BY <1>0, <2>2 DEF Handling
    <3>3. /\ handler' \in Handling /\ handler'.occ = handler.occ /\ handler'.pc = "send"
          /\ handler'.calls = handler.calls + 1
      BY <1>0, <3>1, <3>2 DEF Handling
    <3> QED BY <1>0, <2>1, <2>2, <3>3, PostStep
  <2>3. CASE ~(handler.calls + 1 < MaxCalls)
    <3>1. Ends("failed")
      BY <1>1, <2>3 DEF AnsweredLater
    <3>2. /\ handler' \in Handling /\ handler'.occ = handler.occ /\ handler'.pc = "finish"
          /\ handler'.result = "failed"
      BY <1>0, <3>1, EndsFacts
    <3> QED BY <1>0, <2>1, <3>2, PostStep
  <2> QED BY <2>2, <2>3
<1>2. CASE Posted(0, TRUE) /\ Ends("succeeded")
  <2>1. /\ handler' \in Handling /\ handler'.occ = handler.occ /\ handler'.pc = "finish"
        /\ handler'.result = "succeeded"
    BY <1>0, <1>2, EndsFacts
  <2> QED BY <1>0, <1>2, <2>1, PostStep
<1>3. ASSUME NEW result \in {"failed", "unknown"}, Posted(0, FALSE), Ends(result)
      PROVE  IInv'
  <2>1. /\ handler' \in Handling /\ handler'.occ = handler.occ /\ handler'.pc = "finish"
        /\ handler'.result = result
    BY <1>0, <1>3, EndsFacts
  <2> QED BY <1>0, <1>3, <2>1, PostStep
<1> QED BY <1>1, <1>2, <1>3 DEF Send

LEMMA SendHangsStep ==
  ASSUME IInv, SendHangs
  PROVE  IInv'
<1>0. /\ handler.pc = "send" /\ handler \in Handling /\ Posted(0, FALSE) /\ Goes("hung")
      /\ UNCHANGED <<now, policy, report, occ, ntf, job, sched, cancel, up>>
      /\ budget' \in Budget
  BY Types, BudgetFalls DEF IInv, SendHangs, At, rows, Fault
<1>1. handler' \in Handling /\ handler'.occ = handler.occ /\ handler'.pc = "hung"
  BY <1>0, GoesFacts DEF HandlerSteps
<1> QED BY <1>0, <1>1, PostStep

\* The handler goes on without a statement.
LEMMA HandlerGoesOn ==
  ASSUME IInv, UNCHANGED <<now, policy, report, occ, ntf, job, sched, cancel, up, sent>>,
         budget' \in Budget, handler' \in Handling, handler'.occ = handler.occ,
         handler.pc # "idle",
         \/ handler'.pc = "settle"
         \/ /\ handler'.pc = "finish" /\ handler.pc \in {"send", "finish"}
            /\ handler'.result = "failed"
  PROVE  IInv'
<1>0. TypeOK /\ ReconcileIsCurrent /\ HandlerInOrder
  BY DEF IInv
<1>1. Others'
  BY <1>0, Types DEF Others
<1>2. HandlerInOrder'
  BY <1>0 DEF HandlerInOrder
<1>3. ReconcileIsCurrent'
  BY <1>0, ReconcileSame, Types
<1> QED BY <1>0, <1>1, <1>2, <1>3, RowsSame, Joined

LEMMA RefusedStep ==
  ASSUME IInv, Refused \/ FinishFails \/ HandlerThrows
  PROVE  IInv'
<1>0. /\ handler \in Handling /\ handler.pc # "idle" /\ budget \in Budget
      /\ UNCHANGED <<now, policy, report, occ, ntf, job, sched, cancel, up, sent>>
  BY Types DEF IInv, Refused, FinishFails, HandlerThrows, At, rows
<1>1. budget' \in Budget
  BY <1>0, BudgetFalls DEF Refused, FinishFails, HandlerThrows, Fault
<1>2. CASE Refused
  <2>1. handler' \in Handling /\ handler'.pc = "finish" /\ handler'.occ = handler.occ
        /\ handler'.result = "failed" /\ handler.pc = "send"
    BY <1>0, <1>2, EndsFacts DEF Refused, At
  <2> QED BY <1>0, <1>1, <2>1, HandlerGoesOn
<1>3. CASE FinishFails
  <2>1. handler' \in Handling /\ handler'.pc = "finish" /\ handler'.occ = handler.occ
        /\ handler'.result = "failed" /\ handler.pc = "finish"
    BY <1>0, <1>3 DEF FinishFails, At, Handling
  <2> QED BY <1>0, <1>1, <2>1, HandlerGoesOn
<1>4. CASE HandlerThrows
  <2>1. handler' \in Handling /\ handler'.pc = "settle" /\ handler'.occ = handler.occ
    BY <1>0, <1>4, HandlingRow DEF HandlerThrows, HandlerSteps
  <2> QED BY <1>0, <1>1, <2>1, HandlerGoesOn
<1> QED BY <1>2, <1>3, <1>4

LEMMA FinishStep ==
  ASSUME IInv, Finish
  PROVE  IInv'
<1> DEFINE o == handler.occ
           r == handler.result
<1>0. /\ TypeOK /\ WaitTogether /\ ReconcileIsCurrent /\ HandlerInOrder /\ PostsInOrder /\ PageTells
      /\ UNCHANGED <<now, policy, report, job, sched, cancel, up, sent, budget>>
      /\ handler.pc = "finish" /\ handler \in Handling /\ Goes("settle")
      /\ ntf' = [ntf EXCEPT ![o] = IF @ = "sending" THEN r ELSE @]
      /\ occ' = [occ EXCEPT ![o] = IF ntf[o] = "sending" /\ @ = "queued" THEN r ELSE @]
  BY Types DEF IInv, Finish, At, AfterFinish
<1>1. /\ o \in Occurrences /\ ntf[o] = "sending" /\ occ[o] = "queued"
      /\ job[o] \notin {"absent", "queued"}
      /\ r \in {"succeeded", "failed", "unknown"} /\ (r = "succeeded" => sent[o].accepted)
  BY <1>0 DEF HandlerInOrder, PageTells, Handling
<1>2. handler' \in Handling /\ handler'.pc = "settle" /\ handler'.occ = o
  BY <1>0, GoesFacts DEF HandlerSteps
<1>3. occ' = [occ EXCEPT ![o] = r] /\ ntf' = [ntf EXCEPT ![o] = r]
  BY <1>0, <1>1 DEF TypeOK
<1> HIDE DEF o, r
<1>4. r \in OccStatus /\ r \in NtfStatus
  BY <1>1 DEF OccStatus, OccFinal, NtfStatus
<1>5. /\ occ' \in [Occurrences -> OccStatus] /\ occ'[o] = r
      /\ \A p \in Occurrences : p # o => occ'[p] = occ[p]
  BY <1>0, <1>1, <1>3, <1>4, Types, OneRow
<1>6. /\ ntf' \in [Occurrences -> NtfStatus] /\ ntf'[o] = r
      /\ \A p \in Occurrences : p # o => ntf'[p] = ntf[p]
  BY <1>0, <1>1, <1>3, <1>4, Types, OneRow
<1>7. Others' /\ RowTypes' /\ Triggers'
  BY <1>0, <1>1, <1>2, <1>5, <1>6, HandlerTypes, Types DEF RowTypes, Triggers, TypeOK
<1>8. WaitTogether'
  BY <1>0, <1>1, <1>5, <1>6 DEF WaitTogether, Current
<1>9. ReconcileIsCurrent'
  <2>1. \A p \in Occurrences : occ'[p] = "planned" => occ[p] = "planned"
    BY <1>1, <1>5
  <2> QED BY <1>0, <2>1, ReconcileSame, Types
<1>10. HandlerInOrder'
  BY <1>0, <1>1, <1>2 DEF HandlerInOrder
<1>11. PostsInOrder' /\ PageTells'
  BY <1>0, <1>1, <1>5, <1>6 DEF PostsInOrder, PageTells
<1> QED BY <1>7, <1>8, <1>9, <1>10, <1>11, Joined

\* A job that exists and does not wait for its start is written.
LEMMA JobWritten ==
  ASSUME IInv, NEW o \in Occurrences, NEW status \in JobStatus \ {"absent", "queued"},
         job[o] # "absent", job' = [job EXCEPT ![o] = status],
         UNCHANGED <<occ, ntf, sent, policy, sched>>
  PROVE  /\ RowTypes' /\ Triggers' /\ WaitTogether' /\ ReconcileIsCurrent' /\ PostsInOrder' /\ PageTells'
         /\ job'[o] = status /\ \A p \in Occurrences : p # o => job'[p] = job[p]
<1>0. /\ TypeOK /\ WaitTogether /\ ReconcileIsCurrent /\ PostsInOrder /\ PageTells
  BY DEF IInv
<1>1. /\ job' \in [Occurrences -> JobStatus] /\ job'[o] = status
      /\ \A p \in Occurrences : p # o => job'[p] = job[p]
  BY <1>0, Types, OneRow
<1>2. RowTypes' /\ Triggers'
  BY <1>0, <1>1, Types DEF RowTypes, Triggers, TypeOK
<1>3. WaitTogether'
  BY <1>0, <1>1 DEF WaitTogether, Current
<1>4. ReconcileIsCurrent'
  BY <1>0, ReconcileSame, Types
<1>5. PostsInOrder' /\ PageTells'
  BY <1>0 DEF PostsInOrder, PageTells
<1> QED BY <1>1, <1>2, <1>3, <1>4, <1>5

LEMMA SettleStep ==
  ASSUME IInv, Settle
  PROVE  IInv'
<1> DEFINE o == handler.occ
           doubt == handler.result = "unknown"
           status == IF doubt THEN "unknown" ELSE "succeeded"
<1>0. /\ TypeOK /\ HandlerInOrder
      /\ UNCHANGED <<now, policy, report, occ, ntf, sched, cancel, up, sent, budget>>
      /\ handler.pc = "settle" /\ handler \in Handling
      /\ job' = [job EXCEPT ![o] = status]
      /\ handler' = IF doubt THEN [handler EXCEPT !.pc = "mark"] ELSE IdleHandler
  BY Types DEF IInv, Settle, At
<1>1. o \in Occurrences /\ job[o] # "absent" /\ status \in JobStatus \ {"absent", "queued"}
  BY <1>0 DEF HandlerInOrder, JobStatus
<1>2. /\ handler' \in Handling
      /\ handler'.pc = "idle" \/ (handler'.pc = "mark" /\ handler'.occ = o)
  <2>1. /\ [handler EXCEPT !.pc = "mark"] \in Handling
        /\ [handler EXCEPT !.pc = "mark"].pc = "mark" /\ [handler EXCEPT !.pc = "mark"].occ = o
    BY <1>0 DEF Handling, HandlerSteps
  <2>2. IdleHandler.pc = "idle"
    BY DEF IdleHandler
  <2> QED BY <1>0, <2>1, <2>2, IdleTypes
<1> HIDE DEF o, status
<1>3. /\ RowTypes' /\ Triggers' /\ WaitTogether' /\ ReconcileIsCurrent' /\ PostsInOrder' /\ PageTells'
      /\ job'[o] = status /\ \A p \in Occurrences : p # o => job'[p] = job[p]
  BY <1>0, <1>1, JobWritten
<1>4. HandlerInOrder'
  <2>1. cancel # NoOcc => cancel \in Occurrences
    BY <1>0, Types DEF MaybeOcc
  <2> QED BY <1>0, <1>1, <1>2, <1>3, <2>1 DEF HandlerInOrder
<1> QED BY <1>0, <1>2, <1>3, <1>4, HandlerTypes, Joined

LEMMA MarkStep ==
  ASSUME IInv, Mark
  PROVE  IInv'
<1> DEFINE o == handler.occ
           x == IF occ[o] = "queued" THEN "unknown" ELSE occ[o]
           y == IF ntf[o] = "sending" THEN "unknown" ELSE ntf[o]
<1>0. /\ TypeOK /\ WaitTogether /\ ReconcileIsCurrent /\ HandlerInOrder /\ PostsInOrder /\ PageTells
      /\ UNCHANGED <<now, policy, report, job, sched, cancel, up, sent, budget>>
      /\ handler.pc = "mark" /\ handler' = IdleHandler
      /\ ntf' = [ntf EXCEPT ![o] = IF @ = "sending" THEN "unknown" ELSE @]
      /\ occ' = [occ EXCEPT ![o] = IF @ = "queued" THEN "unknown" ELSE @]
  BY DEF IInv, Mark
<1>1. /\ o \in Occurrences /\ job[o] \notin {"absent", "queued"}
      /\ occ[o] \notin {"absent", "planned"}
  BY <1>0 DEF HandlerInOrder, TypeOK
<1>2. /\ x \in OccStatus /\ y \in NtfStatus /\ x # "queued" /\ y # "sending"
      /\ x # "planned" /\ x # "absent"
      /\ x # occ[o] => occ[o] = "queued" /\ x = "unknown"
      /\ y # ntf[o] => ntf[o] = "sending" /\ y = "unknown"
  BY <1>0, <1>1, Types DEF OccStatus, OccFinal, NtfStatus
<1>3. occ' = [occ EXCEPT ![o] = x] /\ ntf' = [ntf EXCEPT ![o] = y]
  BY <1>0, <1>1 DEF TypeOK
<1> HIDE DEF o, x, y
<1>4. /\ occ' \in [Occurrences -> OccStatus] /\ occ'[o] = x
      /\ \A p \in Occurrences : p # o => occ'[p] = occ[p]
  BY <1>0, <1>1, <1>2, <1>3, Types, OneRow
<1>5. /\ ntf' \in [Occurrences -> NtfStatus] /\ ntf'[o] = y
      /\ \A p \in Occurrences : p # o => ntf'[p] = ntf[p]
  BY <1>0, <1>1, <1>2, <1>3, Types, OneRow
<1>6. Others' /\ RowTypes' /\ Triggers'
  <2>1. handler' \in Handling
    BY <1>0, IdleTypes
  <2> QED BY <1>0, <1>1, <1>2, <1>4, <1>5, <2>1, HandlerTypes, Types DEF RowTypes, Triggers, TypeOK
<1>7. WaitTogether'
  BY <1>0, <1>1, <1>2, <1>4, <1>5 DEF WaitTogether, Current
<1>8. ReconcileIsCurrent'
  <2>1. \A p \in Occurrences : occ'[p] = "planned" => occ[p] = "planned"
    BY <1>1, <1>2, <1>4
  <2> QED BY <1>0, <2>1, ReconcileSame, Types
<1>9. HandlerInOrder'
  BY <1>0 DEF HandlerInOrder, IdleHandler
<1>10. PostsInOrder'
  BY <1>0, <1>1, <1>2, <1>5 DEF PostsInOrder
<1>11. PageTells'
  <2>1. /\ ntf[o] = "sending" => occ[o] = "queued"
        /\ ntf[o] \in {"succeeded", "failed", "skipped", "cancelled"} => occ[o] = ntf[o]
    BY <1>0, <1>1 DEF PageTells
  <2> QED BY <1>0, <1>1, <1>2, <1>4, <1>5, <2>1 DEF PageTells
<1> QED BY <1>6, <1>7, <1>8, <1>9, <1>10, <1>11, Joined

----------------------------------------------------------------------------
(* The cancel endpoint, crash and restart *)

LEMMA CancelReadStep ==
  ASSUME IInv, NEW o \in Occurrences, CancelRead(o)
  PROVE  IInv'
<1>0. /\ TypeOK /\ ReconcileIsCurrent /\ HandlerInOrder
      /\ UNCHANGED <<now, policy, report, occ, ntf, job, sched, handler, up, sent>>
      /\ job[o] = "queued" /\ cancel' = o
      /\ budget.cancels > 0 /\ budget' = [budget EXCEPT !.cancels = @ - 1]
  BY DEF IInv, CancelRead, rows
<1>1. budget' \in Budget
  BY <1>0, Types, BudgetFalls
<1>2. Others'
  BY <1>0, <1>1, Types DEF Others, MaybeOcc
<1>3. HandlerInOrder'
  BY <1>0 DEF HandlerInOrder
<1>4. ReconcileIsCurrent'
  BY <1>0, ReconcileSame, Types
<1> QED BY <1>0, <1>2, <1>3, <1>4, RowsSame, Joined

LEMMA CancelWriteStep ==
  ASSUME IInv, CancelWrite
  PROVE  IInv'
<1>0. /\ TypeOK /\ HandlerInOrder
      /\ UNCHANGED <<now, policy, report, occ, ntf, sched, handler, up, sent, budget>>
      /\ cancel # NoOcc /\ cancel' = NoOcc /\ job' = [job EXCEPT ![cancel] = "cancelled"]
  BY DEF IInv, CancelWrite
<1>1. /\ cancel \in Occurrences /\ job[cancel] # "absent"
      /\ "cancelled" \in JobStatus \ {"absent", "queued"}
  BY <1>0, Types DEF HandlerInOrder, MaybeOcc, JobStatus
<1>2. /\ RowTypes' /\ Triggers' /\ WaitTogether' /\ ReconcileIsCurrent' /\ PostsInOrder' /\ PageTells'
      /\ job'[cancel] = "cancelled" /\ \A p \in Occurrences : p # cancel => job'[p] = job[p]
  BY <1>0, <1>1, JobWritten
<1>3. Others'
  BY <1>0, IdleTypes, Types DEF Others
<1>4. HandlerInOrder'
  BY <1>0, <1>1, <1>2 DEF HandlerInOrder
<1> QED BY <1>2, <1>3, <1>4, Joined

LEMMA CrashStep ==
  ASSUME IInv, Crash
  PROVE  IInv'
<1> DEFINE X == IF handler.pc = "mark" THEN {handler.occ} ELSE {}
<1>0. /\ TypeOK /\ HandlerInOrder /\ UNCHANGED <<now, policy, report, occ, ntf, job, sent>>
      /\ up' = FALSE /\ sched' = IdleSched /\ handler' = IdleHandler /\ cancel' = NoOcc
      /\ budget.faults > 0 /\ budget' = [budget EXCEPT !.faults = @ - 1, !.unmarked = @ \union X]
  BY DEF IInv, Crash, rows
<1>1. X \in SUBSET Occurrences
  BY <1>0 DEF HandlerInOrder
<1> HIDE DEF X
<1>2. budget' \in Budget
  BY <1>0, <1>1, Types, BudgetFalls
<1>3. Others'
  BY <1>0, <1>2, IdleTypes, Types DEF Others
<1>4. ReconcileIsCurrent' /\ HandlerInOrder'
  BY <1>0 DEF ReconcileIsCurrent, HandlerInOrder, IdleSched, IdleHandler
<1> QED BY <1>0, <1>3, <1>4, RowsSame, Joined

LEMMA RecoverStep ==
  ASSUME IInv, NEW o \in Occurrences, Recover(o)
  PROVE  IInv'
<1> DEFINE h == [IdleHandler EXCEPT !.occ = o, !.pc = "mark", !.result = "unknown"]
<1>0. /\ TypeOK /\ ReconcileIsCurrent /\ HandlerInOrder
      /\ UNCHANGED <<now, policy, report, occ, ntf, sched, cancel, up, sent, budget>>
      /\ job[o] = "running" /\ job' = [job EXCEPT ![o] = "unknown"] /\ handler' = h
  BY DEF IInv, Recover
<1>1. h \in Handling /\ h.occ = o /\ h.pc = "mark"
  BY NoCalls DEF Handling, HandlerSteps, MaybeOcc, IdleHandler
<1> HIDE DEF h
<1>2. "unknown" \in JobStatus \ {"absent", "queued"} /\ job[o] # "absent"
  BY <1>0 DEF JobStatus
<1>3. /\ RowTypes' /\ Triggers' /\ WaitTogether' /\ ReconcileIsCurrent' /\ PostsInOrder' /\ PageTells'
      /\ job'[o] = "unknown" /\ \A p \in Occurrences : p # o => job'[p] = job[p]
  BY <1>0, <1>2, JobWritten
<1>4. Others'
  BY <1>0, <1>1, Types DEF Others
<1>5. HandlerInOrder'
  <2>1. cancel # NoOcc => cancel \in Occurrences
    BY <1>0, Types DEF MaybeOcc
  <2> QED BY <1>0, <1>1, <1>3, <2>1 DEF HandlerInOrder
<1> QED BY <1>3, <1>4, <1>5, Joined

LEMMA RestartStep ==
  ASSUME IInv, Restart
  PROVE  IInv'
<1>0. /\ TypeOK /\ ReconcileIsCurrent /\ HandlerInOrder /\ up' = TRUE
      /\ UNCHANGED <<now, policy, report, occ, ntf, job, sched, handler, cancel, sent, budget>>
  BY DEF IInv, Restart, rows
<1>1. Others'
  BY <1>0, Types DEF Others
<1>2. ReconcileIsCurrent'
  BY <1>0, ReconcileSame, Types
<1> QED BY <1>0, <1>1, <1>2, HandlerAlone, RowsSame, Joined

----------------------------------------------------------------------------
(* The theorems *)

LEMMA Inductive == IInv /\ [Next]_vars => IInv'
<1> SUFFICES ASSUME IInv, [Next]_vars PROVE IInv'
  OBVIOUS
<1>1. CASE User
  BY <1>1, UpdatePolicyStep, ReportChangesStep, CancelReadStep DEF User
<1>2. CASE Reconcile
  BY <1>2, BeginStep, CancelStaleStep, PlanStep, ListDueStep, DecideStep, ApplyStep DEF Reconcile
<1>3. CASE Handler
  BY <1>3, StartStep, LoadStep, ClaimStep, SendStep, RefusedStep, FinishStep, SettleStep, MarkStep
     DEF Handler
<1>4. CASE Tick \/ CancelWrite \/ Faults \/ Boot
  BY <1>4, TickStep, CancelWriteStep, SendHangsStep, RefusedStep, CrashStep, RecoverStep, RestartStep
     DEF Faults, Boot
<1>5. CASE UNCHANGED vars
  <2>1. UNCHANGED <<now, policy, report, occ, ntf, job, sched, handler, cancel, up, sent, budget>>
    BY <1>5 DEF vars
  <2>2. Others' /\ ReconcileIsCurrent' /\ HandlerInOrder'
    BY <2>1, HandlerAlone, ReconcileSame, Types DEF IInv, Others
  <2> QED BY <2>1, <2>2, RowsSame, Joined
<1> QED BY <1>1, <1>2, <1>3, <1>4, <1>5 DEF Next

\* The inductive invariant holds in every state the service can reach.
THEOREM RemindersInvariant == Spec => []IInv
BY Initially, Inductive, PTL DEF Spec

\* The rows, the scheduler and the handler keep their types, and the rows the
\* triggers of the table.
THEOREM TypeCorrect == Spec => []TypeOK
<1>1. IInv => TypeOK
  BY DEF IInv
<1> QED BY <1>1, RemindersInvariant, PTL

\* What the page shows of a reminder is true: cancelled and skipped ones were not
\* posted, those shown as sent were accepted, and one that is being sent is shown as
\* queued.
THEOREM PageIsTrue == Spec => []PageTells
<1>1. IInv => PageTells
  BY DEF IInv
<1> QED BY <1>1, RemindersInvariant, PTL

\* What is revoked does not begin to be sent.
LEMMA RevokedSendsNothing ==
  ASSUME NEW S, Revoked(S), NEW o \in Occurrences, ntf[o] # "sending"
  PROVE  ntf'[o] # "sending"
BY DEF Revoked

\* Only the claim begins to send.
LEMMA OnlyTheClaim ==
  ASSUME IInv, [Next]_vars, ~Claim, NEW o \in Occurrences, ntf[o] # "sending"
  PROVE  ntf'[o] # "sending"
<1>0. /\ ntf \in [Occurrences -> NtfStatus] /\ handler \in Handling
      /\ handler.result # "sending"
  BY Types DEF IInv, Handling
<1>1. CASE User
  <2>1. CASE UpdatePolicy
    BY <2>1, RevokedSendsNothing DEF UpdatePolicy
  <2>2. CASE ~UpdatePolicy
    BY <1>1, <2>2 DEF User, ReportChanges, CancelRead, rows
  <2> QED BY <2>1, <2>2
<1>2. CASE Reconcile
  <2>1. CASE CancelStale
    <3>1. CASE UNCHANGED ntf
      BY <3>1
    <3>2. CASE \E S : Revoked(S)
      BY <3>2, RevokedSendsNothing
    <3> QED BY <2>1, <3>1, <3>2 DEF CancelStale, rows
  <2>2. CASE Apply
    BY <1>0, <2>2 DEF Apply, rows
  <2>3. CASE Begin \/ Plan \/ ListDue \/ Decide
    BY <2>3 DEF Begin, Plan, ListDue, Decide, rows
  <2> QED BY <1>2, <2>1, <2>2, <2>3 DEF Reconcile
<1>3. CASE Handler
  <2>1. CASE Finish
    BY <1>0, <2>1 DEF Finish
  <2>2. CASE Mark
    BY <1>0, <2>2 DEF Mark
  <2>3. CASE Load \/ Send \/ Refused \/ Settle \/ \E p \in Occurrences : Start(p)
    BY <2>3 DEF Load, Send, Refused, Settle, Start, rows
  <2> QED BY <1>3, <2>1, <2>2, <2>3 DEF Handler
<1>4. CASE Tick \/ CancelWrite \/ Faults \/ Boot \/ UNCHANGED vars
  BY <1>4 DEF Tick, CancelWrite, Faults, SendHangs, FinishFails, HandlerThrows, Crash, Boot, Recover,
              Restart, rows, vars
<1> QED BY <1>1, <1>2, <1>3, <1>4 DEF Next

\* And the claim finds what waits under the policy that planned it.
LEMMA ClaimIsCurrent ==
  ASSUME IInv, Claim, NEW o \in Occurrences, ntf[o] # "sending", ntf'[o] = "sending"
  PROVE  Current(o)
<1>1. TypeOK /\ HandlerInOrder /\ WaitTogether
  BY DEF IInv
<1>2. handler.pc = "claim" /\ handler.occ = o /\ ntf[o] = "queued"
  BY <1>1 DEF Claim, At, TypeOK
<1> QED BY <1>1, <1>2 DEF HandlerInOrder, WaitTogether

\* Only a POST is counted, and it is made after POSTs that were all answered "later".
LEMMA PostsAgain ==
  ASSUME IInv, [Next]_vars, NEW o \in Occurrences, sent'[o].calls > sent[o].calls
  PROVE  sent[o].calls = sent[o].busy
<1>0. /\ TypeOK /\ HandlerInOrder /\ handler \in Handling /\ sent \in [Occurrences -> Posts]
      /\ sent[o].calls \in Nat
  BY Types DEF IInv, Posts
<1>1. sent' # sent
  <2>1. ~(sent[o].calls > sent[o].calls)
    BY <1>0
  <2> QED BY <2>1
<1>2. Send \/ SendHangs
  <2>1. ~User
    BY <1>1 DEF User, UpdatePolicy, ReportChanges, CancelRead
  <2>2. ~Reconcile
    BY <1>1 DEF Reconcile, Begin, CancelStale, Plan, ListDue, Decide, Apply
  <2>3. Handler => Send
    BY <1>1 DEF Handler, Start, Load, Claim, Refused, Finish, Settle, Mark
  <2>4. Faults => SendHangs
    BY <1>1 DEF Faults, FinishFails, HandlerThrows, Crash
  <2>5. ~(Tick \/ CancelWrite \/ Boot \/ UNCHANGED vars)
    BY <1>1 DEF Tick, CancelWrite, Boot, Recover, Restart, vars
  <2> QED BY <2>1, <2>2, <2>3, <2>4, <2>5 DEF Next
<1>3. handler.pc = "send" /\ \E busy \in {0, 1}, accepted \in BOOLEAN : Posted(busy, accepted)
  BY <1>2 DEF Send, SendHangs, At, AnsweredLater
<1>4. o = handler.occ
  <2>1. o # handler.occ => sent'[o] = sent[o]
    BY <1>0, <1>3 DEF Posted
  <2> QED BY <1>0, <2>1
<1> QED BY <1>0, <1>3, <1>4 DEF HandlerInOrder

\* A message is posted again only when the robot has answered every POST of it "later",
\* and no more often than the client may; and the sending of a reminder never begins
\* under a policy that was changed or disabled after the reminder was planned, whatever
\* reconcile had read before.
THEOREM PostedUnderItsPolicy == Spec => PostedAsPlanned
<1>1. ASSUME IInv, IInv', [Next]_vars, NEW o \in Occurrences
      PROVE  /\ sent'[o].calls <= MaxCalls
             /\ sent'[o].calls > sent[o].calls => sent[o].calls = sent[o].busy
             /\ ntf[o] # "sending" /\ ntf'[o] = "sending" =>
                  policy.enabled /\ policy.version = o.v
  <2>1. sent'[o].calls <= MaxCalls
    BY <1>1 DEF IInv, PostsInOrder
  <2>2. sent'[o].calls > sent[o].calls => sent[o].calls = sent[o].busy
    BY <1>1, PostsAgain
  <2>3. ASSUME ntf[o] # "sending", ntf'[o] = "sending"
        PROVE  Current(o)
    BY <1>1, <2>3, OnlyTheClaim, ClaimIsCurrent
  <2> QED BY <2>1, <2>2, <2>3 DEF Current
<1>2. IInv /\ IInv' /\ [Next]_vars =>
        [\A o \in Occurrences :
           /\ sent'[o].calls <= MaxCalls
           /\ sent'[o].calls > sent[o].calls => sent[o].calls = sent[o].busy
           /\ ntf[o] # "sending" /\ ntf'[o] = "sending" =>
                policy.enabled /\ policy.version = o.v]_vars
  BY <1>1
<1> QED BY <1>2, RemindersInvariant, PTL DEF Spec, PostedAsPlanned
=============================================================================
