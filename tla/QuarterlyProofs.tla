-------------------------- MODULE QuarterlyProofs --------------------------
(* Theorems about Quarterly, for any number of jobs and confirmations and   *)
(* every value of the bounds.                                              *)
EXTENDS Quarterly, TLAPS

USE QuarterlyAssumption

----------------------------------------------------------------------------
(* What the steps have in common *)

LEMMA Types ==
  ASSUME TypeOK
  PROVE  /\ review.version \in Nat /\ review.facts \in Nat /\ review.narrative \in Nat
         /\ review.current \in 0..NumConfirmations /\ review.status \in ReviewStatus
         /\ \A i \in Jobs : /\ job[i] \in JobRow /\ job[i].expected \in Nat
                            /\ job[i].attempts \in Nat /\ job[i].cancel \in BOOLEAN
                            /\ job[i].fallback \in ReviewStatus
                            /\ job[i].art # 0 => job[i].art \in Confirmations
                            /\ job[i].art \in 0..NumConfirmations
                            /\ job[i].kind \in Kinds \union {"none"}
         /\ \A k \in Kinds : /\ run[k] \in Run /\ run[k].pc \in Stages /\ run[k].out \in Outcomes
                             /\ run[k].job # 0 => run[k].job \in Jobs
                             /\ run[k].job \in 0..NumJobs
         /\ cancel.job # 0 => cancel.job \in Jobs
         /\ review.current # 0 => review.current \in Confirmations
         /\ \A c \in Confirmations : art[c] \in Artifact /\ conf[c] \in Confirmation
         /\ "collect" \in Kinds /\ "export" \in Kinds /\ Jobs \subseteq 0..NumJobs
         /\ Confirmations \subseteq 0..NumConfirmations
<1>1. /\ review.version \in Nat /\ review.facts \in Nat /\ review.narrative \in Nat
      /\ review.current \in 0..NumConfirmations /\ review.status \in ReviewStatus
  BY DEF TypeOK, Review
<1>2. ASSUME NEW i \in Jobs
      PROVE  /\ job[i] \in JobRow /\ job[i].expected \in Nat
             /\ job[i].attempts \in Nat /\ job[i].cancel \in BOOLEAN
             /\ job[i].fallback \in ReviewStatus /\ job[i].art \in 0..NumConfirmations
             /\ job[i].kind \in Kinds \union {"none"}
  BY DEF TypeOK, JobRow
<1>3. ASSUME NEW k \in Kinds
      PROVE  /\ run[k] \in Run /\ run[k].pc \in Stages /\ run[k].out \in Outcomes
             /\ run[k].job \in 0..NumJobs
  BY DEF TypeOK, Run
<1>4. cancel.job \in 0..NumJobs
  BY DEF TypeOK
<1>5. \A c \in Confirmations : art[c] \in Artifact /\ conf[c] \in Confirmation
  BY DEF TypeOK
<1>6. /\ \A n \in 0..NumJobs : n # 0 => n \in Jobs
      /\ \A n \in 0..NumConfirmations : n # 0 => n \in Confirmations
      /\ Jobs \subseteq 0..NumJobs /\ Confirmations \subseteq 0..NumConfirmations
  BY DEF Jobs, Confirmations
<1>7. "collect" \in Kinds /\ "export" \in Kinds
  BY DEF Kinds
<1> QED BY <1>1, <1>2, <1>3, <1>4, <1>5, <1>6, <1>7

LEMMA BudgetType ==
  ASSUME TypeOK
  PROVE  budget \in [edits: Nat, faults: Nat, cancels: Nat]
BY DEF TypeOK

\* A fault is spent.
LEMMA FaultSpends ==
  ASSUME TypeOK, Fault
  PROVE  budget' \in [edits: Nat, faults: Nat, cancels: Nat]
<1>1. budget.faults - 1 \in Nat /\ budget \in [edits: Nat, faults: Nat, cancels: Nat]
  BY BudgetType DEF Fault
<1> QED BY <1>1 DEF Fault

\* A step of kind k is about a job of that kind.
LEMMA RunOf ==
  ASSUME TypeOK, RunsAreOfJobs, NEW k \in Kinds, run[k].pc # "idle"
  PROVE  run[k].job \in Jobs /\ job[run[k].job].kind = k
BY Types DEF RunsAreOfJobs

\* The row of one kind of work.
LEMMA RunStep ==
  ASSUME TypeOK, NEW k \in Kinds, NEW r \in Run, run' = [run EXCEPT ![k] = r]
  PROVE  run' \in [Kinds -> Run] /\ run'[k] = r /\ \A l \in Kinds : l # k => run'[l] = run[l]
BY DEF TypeOK

LEMMA GoesFacts ==
  ASSUME TypeOK, NEW k \in Kinds, NEW pc \in Stages, Goes(k, pc)
  PROVE  /\ run' \in [Kinds -> Run] /\ run'[k].pc = pc /\ run'[k].job = run[k].job
         /\ run'[k].out = run[k].out
         /\ \A l \in Kinds : l # k => run'[l] = run[l]
<1> DEFINE r == [run[k] EXCEPT !.pc = pc]
<1>1. r \in Run /\ r.pc = pc /\ r.job = run[k].job /\ r.out = run[k].out
  BY Types DEF Run
<1>2. run' = [run EXCEPT ![k] = r]
  BY DEF Goes
<1> HIDE DEF r
<1> QED BY <1>1, <1>2, RunStep

LEMMA EndsFacts ==
  ASSUME TypeOK, NEW k \in Kinds, NEW out \in Outcomes, Ends(k, out)
  PROVE  /\ run' \in [Kinds -> Run] /\ run'[k].pc = "settle" /\ run'[k].job = run[k].job
         /\ run'[k].out = out
         /\ \A l \in Kinds : l # k => run'[l] = run[l]
<1> DEFINE r == [run[k] EXCEPT !.pc = "settle", !.out = out]
<1>1. r \in Run /\ r.pc = "settle" /\ r.job = run[k].job /\ r.out = out
  BY Types DEF Run, Stages
<1>2. run' = [run EXCEPT ![k] = r]
  BY DEF Ends, TypeOK
<1> HIDE DEF r
<1> QED BY <1>1, <1>2, RunStep

\* A step that leaves the review alone.
LEMMA ReviewSame ==
  ASSUME JobsAreWhole, ConfirmedIsFrozen, PeriodIsOwn,
         UNCHANGED <<review, conf>>, seen'.asked = seen.asked, seen'.foreign = seen.foreign,
         \A i \in Jobs : /\ job'[i].kind = job[i].kind /\ job'[i].art = job[i].art
                         /\ job'[i].fallback = job[i].fallback
                         /\ job'[i].expected = job[i].expected
                         /\ job'[i].kind = "none" => job'[i].status = "none"
  PROVE  JobsAreWhole' /\ ConfirmedIsFrozen' /\ PeriodIsOwn'
<1>1. JobsAreWhole'
  BY DEF JobsAreWhole, Period
<1> QED BY <1>1 DEF ConfirmedIsFrozen, PeriodIsOwn

\* The end of a collecting period is that of its own job.
LEMMA LeavesFacts ==
  ASSUME TypeOK, JobsAreWhole, ConfirmedIsFrozen, PeriodIsOwn,
         NEW i \in Jobs, NEW status \in ReviewStatus \ {"confirmed", "exported"}, NEW facts \in Nat,
         Leaves(i, status, facts), UNCHANGED <<conf, job>>
  PROVE  /\ review' \in Review /\ seen' \in [asked: 0..NumJobs, foreign: BOOLEAN, left: BOOLEAN]
         /\ JobsAreWhole' /\ ConfirmedIsFrozen' /\ PeriodIsOwn'
         /\ review'.status = "exported" => review.status = "exported" /\ review' = review
<1>1. CASE ~Period(i)
  <2>1. UNCHANGED <<review, seen, conf, job>>
    BY <1>1 DEF Leaves
  <2>2. \A j \in Jobs : job[j].kind = "none" => job[j].status = "none"
    BY DEF JobsAreWhole
  <2> QED BY <2>1, <2>2, ReviewSame DEF TypeOK
<1>2. CASE Period(i)
  <2>1. /\ review' = [review EXCEPT !.status = status, !.facts = @ + facts, !.version = @ + 1]
        /\ seen' = [seen EXCEPT !.foreign = @ \/ seen.asked # i]
        /\ seen.asked = i /\ ~seen.foreign /\ seen \in [asked: 0..NumJobs, foreign: BOOLEAN, left: BOOLEAN]
        /\ review \in Review /\ review.status = "collecting" /\ review.current = 0
    BY <1>2 DEF Leaves, JobsAreWhole, PeriodIsOwn, TypeOK, Period, ConfirmedIsFrozen
  <2>2. seen' = seen
    BY <2>1
  <2>3. /\ review' \in Review /\ review'.status = status /\ review'.version = review.version + 1
        /\ review'.current = 0
    <3>1. review.version + 1 \in Nat /\ review.facts + facts \in Nat /\ status \in ReviewStatus
      BY Types
    <3> QED BY <2>1, <3>1 DEF Review
  <2>4. JobsAreWhole'
    BY <2>3, Types DEF JobsAreWhole, Period
  <2>5. ConfirmedIsFrozen'
    BY <2>3 DEF ConfirmedIsFrozen
  <2>6. PeriodIsOwn'
    BY <2>2 DEF PeriodIsOwn
  <2> QED BY <2>1, <2>2, <2>3, <2>4, <2>5, <2>6
<1> QED BY <1>1, <1>2

\* An artifact that has succeeded stays so, and those that are written keep their file.
LEMMA ArtSame ==
  ASSUME ExportedIsReal, UNCHANGED files,
         \A c \in Confirmations : art'[c].status = "succeeded" <=> art[c].status = "succeeded",
         review'.status = "exported" =>
           review.status = "exported" /\ review'.current = review.current
           /\ review.current \in Confirmations
  PROVE  ExportedIsReal'
BY DEF ExportedIsReal

----------------------------------------------------------------------------
(* The initial state, and the steps of the user *)

LEMMA Initially == Init => IInv
<1> SUFFICES ASSUME Init PROVE IInv
  OBVIOUS
<1>1. 0 \in 0..NumJobs /\ 0 \in 0..NumConfirmations
  OBVIOUS
<1>2. TypeOK
  BY <1>1 DEF Init, TypeOK, Review, ReviewStatus, Confirmation, NoConfirmation, Artifact,
              ArtifactStatus, JobRow, NoJob, JobStatus, Run, Idle, Stages, Outcomes, NoCancel, Kinds
<1>3. RunsAreOfJobs
  BY DEF Init, RunsAreOfJobs, Idle, NoCancel, Kinds
<1>4. JobsAreWhole
  BY DEF Init, JobsAreWhole, NoJob, Period
<1>5. FileFirst
  BY DEF Init, FileFirst, Idle, Kinds
<1>6. ConfirmedIsFrozen /\ PeriodIsOwn /\ ExportedIsReal
  BY DEF Init, ConfirmedIsFrozen, PeriodIsOwn, ExportedIsReal
<1> QED BY <1>2, <1>3, <1>4, <1>5, <1>6 DEF IInv

\* A change of the user takes the confirmation away.
LEMMA InvalidatedFacts ==
  ASSUME TypeOK
  PROVE  Invalidated \in [Confirmations -> Confirmation]
<1>1. CASE review.current = 0
  BY <1>1 DEF Invalidated, TypeOK
<1>2. CASE review.current # 0
  <2>1. review.current \in Confirmations
    BY <1>2, Types
  <2>2. [conf[review.current] EXCEPT !.status = "invalidated"] \in Confirmation
    BY <2>1, Types DEF Confirmation
  <2> QED BY <1>2, <2>1, <2>2 DEF Invalidated, TypeOK
<1> QED BY <1>1, <1>2

LEMMA UserChange ==
  ASSUME IInv, NEW status \in {"selecting", "scoring", "narrative_ready"},
         NEW facts \in Nat, NEW narrative \in Nat, Changes,
         conf' = Invalidated,
         review' = [review EXCEPT !.status = status, !.facts = facts, !.narrative = narrative,
                                  !.current = 0, !.version = @ + 1],
         seen' = [seen EXCEPT !.asked = 0, !.left = FALSE],
         UNCHANGED <<art, files, job, run, cancel, up>>
  PROVE  IInv'
<1>0. /\ TypeOK /\ RunsAreOfJobs /\ JobsAreWhole /\ FileFirst
      /\ ConfirmedIsFrozen /\ PeriodIsOwn /\ ExportedIsReal
  BY DEF IInv
<1>1. /\ review' \in Review /\ review'.status = status /\ review'.current = 0
      /\ review'.version = review.version + 1
  <2>1. review \in Review /\ status \in ReviewStatus /\ 0 \in 0..NumConfirmations
    BY <1>0 DEF TypeOK, ReviewStatus
  <2>2. review.version + 1 \in Nat
    BY <1>0, Types
  <2> QED BY <1>0, <2>1, <2>2 DEF Review
<1>2. seen' \in [asked: 0..NumJobs, foreign: BOOLEAN, left: BOOLEAN] /\ seen'.foreign = seen.foreign
  <2>1. 0 \in 0..NumJobs
    OBVIOUS
  <2> QED BY <1>0, <2>1 DEF TypeOK
<1>3. budget' \in [edits: Nat, faults: Nat, cancels: Nat]
  <2>1. budget \in [edits: Nat, faults: Nat, cancels: Nat] /\ budget.edits - 1 \in Nat
    BY <1>0 DEF TypeOK, Changes
  <2> QED BY <2>1 DEF Changes
<1>4. TypeOK'
  BY <1>0, <1>1, <1>2, <1>3, InvalidatedFacts DEF TypeOK
<1>5. RunsAreOfJobs' /\ FileFirst'
  BY <1>0 DEF RunsAreOfJobs, FileFirst
<1>6. JobsAreWhole'
  BY <1>0, <1>1, Types DEF JobsAreWhole, Period
<1>7. ConfirmedIsFrozen' /\ PeriodIsOwn' /\ ExportedIsReal'
  BY <1>0, <1>1, <1>2 DEF ConfirmedIsFrozen, PeriodIsOwn, ExportedIsReal
<1> QED BY <1>4, <1>5, <1>6, <1>7 DEF IInv

LEMMA FactsChangeStep ==
  ASSUME IInv, NEW status \in {"selecting", "scoring"}, FactsChange(status)
  PROVE  IInv'
<1> DEFINE facts == review.facts + 1
           narrative == review.narrative
<1>1. TypeOK /\ facts \in Nat /\ narrative \in Nat
  BY Types DEF IInv
<1>2. review' = [review EXCEPT !.status = status, !.facts = facts, !.narrative = narrative,
                               !.current = 0, !.version = @ + 1]
  BY <1>1 DEF FactsChange, TypeOK, Review
<1>3. /\ status \in {"selecting", "scoring", "narrative_ready"} /\ Changes /\ conf' = Invalidated
      /\ seen' = [seen EXCEPT !.asked = 0, !.left = FALSE] /\ UNCHANGED <<art, files, job, run, cancel, up>>
  BY DEF FactsChange
<1> HIDE DEF facts, narrative
<1> QED BY <1>1, <1>2, <1>3, UserChange

LEMMA NarrateStep ==
  ASSUME IInv, Narrate
  PROVE  IInv'
<1> DEFINE facts == review.facts
           narrative == review.narrative + 1
           status == "narrative_ready"
<1>1. TypeOK /\ facts \in Nat /\ narrative \in Nat
  BY Types DEF IInv
<1>2. review' = [review EXCEPT !.status = status, !.facts = facts, !.narrative = narrative,
                               !.current = 0, !.version = @ + 1]
  BY <1>1 DEF Narrate, TypeOK, Review
<1>3. /\ status \in {"selecting", "scoring", "narrative_ready"} /\ Changes /\ conf' = Invalidated
      /\ seen' = [seen EXCEPT !.asked = 0, !.left = FALSE] /\ UNCHANGED <<art, files, job, run, cancel, up>>
  BY DEF Narrate
<1> HIDE DEF facts, narrative, status
<1> QED BY <1>1, <1>2, <1>3, UserChange

LEMMA ConfirmStep ==
  ASSUME IInv, NEW c \in Confirmations, Confirm(c)
  PROVE  IInv'
<1>0. /\ TypeOK /\ RunsAreOfJobs /\ JobsAreWhole /\ FileFirst
      /\ ConfirmedIsFrozen /\ PeriodIsOwn /\ ExportedIsReal
      /\ UNCHANGED <<art, files, job, run, cancel, up, budget>>
      /\ conf' = [conf EXCEPT ![c] = [status |-> "active", facts |-> review.facts,
                                      narrative |-> review.narrative]]
      /\ review' = [review EXCEPT !.status = "confirmed", !.current = c, !.version = @ + 1]
      /\ seen' = [seen EXCEPT !.asked = 0, !.left = FALSE]
  BY DEF IInv, Confirm
<1>1. /\ review' \in Review /\ review'.status = "confirmed" /\ review'.current = c
      /\ review'.version = review.version + 1
      /\ review'.facts = review.facts /\ review'.narrative = review.narrative
  <2>1. review \in Review /\ "confirmed" \in ReviewStatus /\ c \in 0..NumConfirmations
    BY <1>0, Types DEF TypeOK, ReviewStatus
  <2>2. review.version + 1 \in Nat
    BY <1>0, Types
  <2> QED BY <1>0, <2>1, <2>2 DEF Review
<1>2. /\ conf' \in [Confirmations -> Confirmation]
      /\ conf'[c] = [status |-> "active", facts |-> review.facts, narrative |-> review.narrative]
  <2>1. [status |-> "active", facts |-> review.facts, narrative |-> review.narrative] \in Confirmation
    BY <1>0, Types DEF Confirmation
  <2> QED BY <1>0, <2>1 DEF TypeOK
<1>3. seen' \in [asked: 0..NumJobs, foreign: BOOLEAN, left: BOOLEAN] /\ seen'.foreign = seen.foreign
  <2>1. 0 \in 0..NumJobs
    OBVIOUS
  <2> QED BY <1>0, <2>1 DEF TypeOK
<1>4. TypeOK'
  BY <1>0, <1>1, <1>2, <1>3 DEF TypeOK
<1>5. RunsAreOfJobs' /\ FileFirst'
  BY <1>0 DEF RunsAreOfJobs, FileFirst
<1>6. JobsAreWhole'
  BY <1>0, <1>1, Types DEF JobsAreWhole, Period
<1>7. c # 0
  BY DEF Confirmations
<1>8. ConfirmedIsFrozen' /\ PeriodIsOwn' /\ ExportedIsReal'
  BY <1>0, <1>1, <1>2, <1>3, <1>7 DEF ConfirmedIsFrozen, PeriodIsOwn, ExportedIsReal
<1> QED BY <1>4, <1>5, <1>6, <1>8 DEF IInv

LEMMA JobStep ==
  ASSUME TypeOK, NEW i \in Jobs, NEW r \in JobRow, job' = [job EXCEPT ![i] = r]
  PROVE  job' \in [Jobs -> JobRow] /\ job'[i] = r /\ \A j \in Jobs : j # i => job'[j] = job[j]
BY DEF TypeOK

LEMMA QueueCollectionStep ==
  ASSUME IInv, NEW i \in Jobs, QueueCollection(i)
  PROVE  IInv'
<1> DEFINE fallback == CASE review.status = "collecting" -> "collection_failed"
                         [] review.current # 0 -> "selecting"
                         [] OTHER -> review.status
           row == [NoJob EXCEPT !.kind = "collect", !.status = "queued",
                                !.expected = review.version + 1, !.fallback = fallback]
<1>0. /\ TypeOK /\ RunsAreOfJobs /\ JobsAreWhole /\ FileFirst
      /\ ConfirmedIsFrozen /\ PeriodIsOwn /\ ExportedIsReal
      /\ UNCHANGED <<art, files, run, cancel, up, budget>>
      /\ NextJob(i) /\ conf' = Invalidated
      /\ job' = [job EXCEPT ![i] = row]
      /\ review' = [review EXCEPT !.status = "collecting", !.current = 0, !.version = @ + 1]
      /\ seen' = [seen EXCEPT !.asked = i, !.left = FALSE]
  BY DEF IInv, QueueCollection
<1>1. fallback \in ReviewStatus \ {"confirmed", "exported"}
  BY <1>0, Types DEF ReviewStatus, ConfirmedIsFrozen
<1>2. /\ row \in JobRow /\ row.kind = "collect" /\ row.expected = review.version + 1
      /\ row.fallback = fallback
  <2>1. review.version + 1 \in Nat /\ 0 \in 0..NumConfirmations
    BY <1>0, Types
  <2> HIDE DEF fallback
  <2> QED BY <1>1, <2>1 DEF NoJob, JobRow, JobStatus, Kinds
<1> HIDE DEF row, fallback
<1>3. job' \in [Jobs -> JobRow] /\ job'[i] = row /\ \A j \in Jobs : j # i => job'[j] = job[j]
  BY <1>0, <1>2, JobStep
<1>4. /\ review' \in Review /\ review'.status = "collecting" /\ review'.current = 0
      /\ review'.version = review.version + 1
  <2>1. review \in Review /\ "collecting" \in ReviewStatus /\ 0 \in 0..NumConfirmations
    BY <1>0 DEF TypeOK, ReviewStatus
  <2>2. review.version + 1 \in Nat
    BY <1>0, Types
  <2> QED BY <1>0, <2>1, <2>2 DEF Review
<1>5. /\ seen' \in [asked: 0..NumJobs, foreign: BOOLEAN, left: BOOLEAN] /\ seen'.foreign = seen.foreign
      /\ seen'.asked = i
  BY <1>0, Types DEF TypeOK
<1>6. TypeOK'
  BY <1>0, <1>3, <1>4, <1>5, InvalidatedFacts DEF TypeOK
<1>7. \A k \in Kinds : run[k].pc # "idle" => run[k].job # i
  BY <1>0, RunOf DEF NextJob, Kinds
<1>8. cancel.stage # "none" => cancel.job # i
  BY <1>0 DEF NextJob, RunsAreOfJobs
<1>9. RunsAreOfJobs'
  BY <1>0, <1>3, <1>7, <1>8, Types DEF RunsAreOfJobs
<1>10. FileFirst'
  BY <1>0, <1>3, <1>7, RunOf, Types DEF FileFirst
<1>11. JobsAreWhole'
  BY <1>0, <1>1, <1>2, <1>3, <1>4, <1>5, Types DEF JobsAreWhole, Period
<1>12. ConfirmedIsFrozen' /\ PeriodIsOwn' /\ ExportedIsReal'
  BY <1>0, <1>4, <1>5 DEF ConfirmedIsFrozen, PeriodIsOwn, ExportedIsReal
<1> QED BY <1>6, <1>9, <1>10, <1>11, <1>12 DEF IInv

LEMMA QueueExportStep ==
  ASSUME IInv, NEW i \in Jobs, QueueExport(i)
  PROVE  IInv'
<1> DEFINE c == review.current
           row == [NoJob EXCEPT !.kind = "export", !.status = "queued", !.art = c]
           new == [status |-> "queued", job |-> i]
<1>0. /\ TypeOK /\ RunsAreOfJobs /\ JobsAreWhole /\ FileFirst
      /\ ConfirmedIsFrozen /\ PeriodIsOwn /\ ExportedIsReal
      /\ UNCHANGED <<review, conf, files, run, cancel, up, seen, budget>>
      /\ NextJob(i) /\ c # 0 /\ art[c].status \in {"none", "failed", "cancelled"}
      /\ job' = [job EXCEPT ![i] = row]
      /\ art' = [art EXCEPT ![c] = new]
  BY DEF IInv, QueueExport
<1>1. c \in Confirmations /\ c \in 0..NumConfirmations
  BY <1>0, Types
<1>2. /\ row \in JobRow /\ row.kind = "export" /\ row.art = c /\ row.expected = 0
      /\ row.fallback = "draft"
  BY <1>1 DEF NoJob, JobRow, JobStatus, Kinds, ReviewStatus
<1>3. new \in Artifact /\ new.status = "queued"
  BY Types, <1>0 DEF Artifact, ArtifactStatus
<1>4. review.status # "exported"
  BY <1>0, <1>1 DEF ExportedIsReal
<1> HIDE DEF row, c, new
<1>5. job' \in [Jobs -> JobRow] /\ job'[i] = row /\ \A j \in Jobs : j # i => job'[j] = job[j]
  BY <1>0, <1>2, JobStep
<1>6. /\ art' \in [Confirmations -> Artifact] /\ art'[c] = new
      /\ \A d \in Confirmations : d # c => art'[d] = art[d]
  BY <1>0, <1>1, <1>3 DEF TypeOK
<1>7. TypeOK'
  BY <1>0, <1>5, <1>6 DEF TypeOK
<1>8. \A k \in Kinds : run[k].pc # "idle" => run[k].job # i
  BY <1>0, RunOf DEF NextJob, Kinds
<1>9. cancel.stage # "none" => cancel.job # i
  BY <1>0 DEF NextJob, RunsAreOfJobs
<1>10. RunsAreOfJobs'
  BY <1>0, <1>5, <1>8, <1>9, Types DEF RunsAreOfJobs
<1>11. FileFirst'
  BY <1>0, <1>5, <1>8, RunOf, Types DEF FileFirst
<1>12. JobsAreWhole'
  BY <1>0, <1>2, <1>5, Types DEF JobsAreWhole, Period
<1>13. ConfirmedIsFrozen' /\ PeriodIsOwn'
  BY <1>0 DEF ConfirmedIsFrozen, PeriodIsOwn
<1>14. ExportedIsReal'
  BY <1>0, <1>3, <1>4, <1>6 DEF ExportedIsReal
<1> QED BY <1>7, <1>10, <1>11, <1>12, <1>13, <1>14 DEF IInv

LEMMA CancelReadStep ==
  ASSUME IInv, NEW i \in Jobs, CancelRead(i)
  PROVE  IInv'
<1>0. /\ TypeOK /\ RunsAreOfJobs /\ JobsAreWhole /\ FileFirst
      /\ ConfirmedIsFrozen /\ PeriodIsOwn /\ ExportedIsReal
      /\ UNCHANGED <<review, conf, art, files, job, run, up, seen>>
      /\ Active(i) /\ budget.cancels > 0 /\ budget' = [budget EXCEPT !.cancels = @ - 1]
      /\ cancel' = [job |-> i, stage |-> "write", queued |-> job[i].status = "queued"]
  BY DEF IInv, CancelRead
<1>1. /\ cancel' \in [job: 0..NumJobs, stage: {"none", "write", "callback"}, queued: BOOLEAN]
      /\ cancel'.job = i
  BY <1>0, Types
<1>a. budget' \in [edits: Nat, faults: Nat, cancels: Nat]
  <2>1. budget.cancels - 1 \in Nat /\ budget \in [edits: Nat, faults: Nat, cancels: Nat]
    BY <1>0, BudgetType
  <2> QED BY <1>0, <2>1
<1>2. TypeOK'
  BY <1>0, <1>1, <1>a DEF TypeOK
<1>3. job[i].kind # "none" /\ i # 0
  BY <1>0 DEF Active, JobsAreWhole, Jobs
<1>4. RunsAreOfJobs' /\ FileFirst'
  BY <1>0, <1>1, <1>3 DEF RunsAreOfJobs, FileFirst
<1>5. JobsAreWhole' /\ ConfirmedIsFrozen' /\ PeriodIsOwn' /\ ExportedIsReal'
  <2>1. \A j \in Jobs : job[j].kind = "none" => job[j].status = "none"
    BY <1>0 DEF JobsAreWhole
  <2> QED BY <1>0, <2>1, ReviewSame DEF ExportedIsReal
<1> QED BY <1>2, <1>4, <1>5 DEF IInv

----------------------------------------------------------------------------
(* Cancelling *)

LEMMA CancelWriteStep ==
  ASSUME IInv, CancelWrite
  PROVE  IInv'
<1> DEFINE i == cancel.job
           row == [job[i] EXCEPT !.cancel = TRUE,
                                 !.status = IF cancel.queued THEN "cancelled" ELSE @]
<1>0. /\ TypeOK /\ RunsAreOfJobs /\ JobsAreWhole /\ FileFirst
      /\ ConfirmedIsFrozen /\ PeriodIsOwn /\ ExportedIsReal
      /\ UNCHANGED <<review, conf, art, files, run, up, seen, budget>>
      /\ cancel.stage = "write"
      /\ job' = [job EXCEPT ![i].cancel = TRUE,
                            ![i].status = IF cancel.queued THEN "cancelled" ELSE @]
      /\ cancel' = IF cancel.queued THEN [cancel EXCEPT !.stage = "callback"] ELSE NoCancel
  BY DEF IInv, CancelWrite
<1>1. i \in Jobs /\ job[i].kind # "none" /\ job[i] \in JobRow
  BY <1>0, Types DEF RunsAreOfJobs
<1>2. /\ row \in JobRow /\ row.kind = job[i].kind /\ row.art = job[i].art
      /\ row.fallback = job[i].fallback /\ row.expected = job[i].expected
  BY <1>1 DEF JobRow, JobStatus
<1>3. job' = [job EXCEPT ![i] = row]
  BY <1>0, <1>1 DEF TypeOK
<1>4. /\ cancel' \in [job: 0..NumJobs, stage: {"none", "write", "callback"}, queued: BOOLEAN]
      /\ cancel'.stage # "none" => cancel'.job = i
  <2>1. 0 \in 0..NumJobs
    OBVIOUS
  <2> QED BY <1>0, <2>1 DEF TypeOK, NoCancel
<1> HIDE DEF row
<1>5. /\ job' \in [Jobs -> JobRow]
      /\ \A j \in Jobs : /\ job'[j].kind = job[j].kind /\ job'[j].art = job[j].art
                         /\ job'[j].fallback = job[j].fallback
                         /\ job'[j].expected = job[j].expected
                         /\ job'[j].kind = "none" => job'[j].status = "none"
  <2>1. job' \in [Jobs -> JobRow] /\ job'[i] = row /\ \A j \in Jobs : j # i => job'[j] = job[j]
    BY <1>0, <1>1, <1>2, <1>3, JobStep
  <2> QED BY <1>0, <1>1, <1>2, <2>1 DEF JobsAreWhole
<1>6. TypeOK'
  BY <1>0, <1>4, <1>5 DEF TypeOK
<1>7. RunsAreOfJobs' /\ FileFirst'
  <2>1. \A k \in Kinds : run[k].pc # "idle" => run[k].job \in Jobs /\ job[run[k].job].kind = k
    BY <1>0, RunOf
  <2>2. RunsAreOfJobs'
    <3>1. \A k \in Kinds : run'[k].pc # "idle" => run'[k].job # 0 /\ job'[run'[k].job].kind = k
      BY <1>0, <1>5, <2>1 DEF RunsAreOfJobs
    <3>2. cancel'.stage # "none" => cancel'.job # 0 /\ job'[cancel'.job].kind # "none"
      BY <1>1, <1>4, <1>5 DEF Jobs
    <3>3. \A k \in Kinds : run'[k].pc = "settle" => run'[k].out # "none"
      BY <1>0 DEF RunsAreOfJobs
    <3> QED BY <3>1, <3>2, <3>3 DEF RunsAreOfJobs
  <2>3. FileFirst'
    BY <1>0, <1>5, <2>1, Types DEF FileFirst
  <2> QED BY <2>2, <2>3
<1>8. JobsAreWhole' /\ ConfirmedIsFrozen' /\ PeriodIsOwn' /\ ExportedIsReal'
  BY <1>0, <1>5, ReviewSame DEF ExportedIsReal
<1> QED BY <1>6, <1>7, <1>8 DEF IInv

\* An artifact that is marked was not done, and is not done by it.
LEMMA MarkFacts ==
  ASSUME TypeOK, NEW c \in Confirmations, NEW to \in ArtifactStatus \ {"succeeded"},
         art[c].status # "succeeded", art' = [art EXCEPT ![c].status = to]
  PROVE  /\ art' \in [Confirmations -> Artifact]
         /\ \A d \in Confirmations : art'[d].status = "succeeded" <=> art[d].status = "succeeded"
<1> DEFINE a == [art[c] EXCEPT !.status = to]
<1>1. a \in Artifact /\ a.status = to
  BY Types DEF Artifact
<1>2. art' = [art EXCEPT ![c] = a] /\ art \in [Confirmations -> Artifact]
  BY DEF TypeOK
<1> HIDE DEF a
<1> QED BY <1>1, <1>2

LEMMA QueuedCancellationStep ==
  ASSUME IInv, QueuedCancellation
  PROVE  IInv'
<1> DEFINE i == cancel.job
<1>0. /\ TypeOK /\ RunsAreOfJobs /\ JobsAreWhole /\ FileFirst
      /\ ConfirmedIsFrozen /\ PeriodIsOwn /\ ExportedIsReal
      /\ UNCHANGED <<conf, files, job, run, up, budget>>
      /\ cancel.stage = "callback" /\ cancel' = NoCancel
  BY DEF IInv, QueuedCancellation
<1>1. i \in Jobs /\ job[i].kind # "none" /\ job[i] \in JobRow
  BY <1>0, Types DEF RunsAreOfJobs
<1>2. cancel' \in [job: 0..NumJobs, stage: {"none", "write", "callback"}, queued: BOOLEAN]
      /\ cancel'.stage = "none"
  <2>1. 0 \in 0..NumJobs
    OBVIOUS
  <2> QED BY <1>0, <2>1 DEF NoCancel
<1>3. RunsAreOfJobs' /\ FileFirst'
  BY <1>0, <1>2 DEF RunsAreOfJobs, FileFirst
<1>4. CASE job[i].kind = "collect"
  <2>1. Leaves(i, job[i].fallback, 0) /\ UNCHANGED art
    BY <1>4 DEF QueuedCancellation
  <2>2. job[i].fallback \in ReviewStatus \ {"confirmed", "exported"} /\ 0 \in Nat
    BY <1>0, <1>1, Types DEF JobsAreWhole
  <2>3. /\ review' \in Review /\ seen' \in [asked: 0..NumJobs, foreign: BOOLEAN, left: BOOLEAN]
        /\ JobsAreWhole' /\ ConfirmedIsFrozen' /\ PeriodIsOwn'
        /\ review'.status = "exported" => review.status = "exported" /\ review' = review
    BY <1>0, <1>1, <2>1, <2>2, LeavesFacts
  <2>4. TypeOK'
    BY <1>0, <1>2, <2>1, <2>3 DEF TypeOK
  <2>5. ExportedIsReal'
    BY <1>0, <2>1, <2>3 DEF ExportedIsReal
  <2> QED BY <1>3, <2>3, <2>4, <2>5 DEF IInv
<1>5. CASE job[i].kind # "collect"
  <2>1. /\ UNCHANGED <<review, seen>>
        /\ art' = IF art[job[i].art].job = i /\ art[job[i].art].status = "queued"
                  THEN [art EXCEPT ![job[i].art].status = "cancelled"] ELSE art
    BY <1>5 DEF QueuedCancellation
  <2>2. job[i].art \in Confirmations
    BY <1>0, <1>1, <1>5, Types DEF JobsAreWhole, Kinds
  <2>3. /\ art' \in [Confirmations -> Artifact]
        /\ \A d \in Confirmations : art'[d].status = "succeeded" <=> art[d].status = "succeeded"
    <3>1. CASE art[job[i].art].job = i /\ art[job[i].art].status = "queued"
      <4>1. "cancelled" \in ArtifactStatus \ {"succeeded"}
        BY DEF ArtifactStatus
      <4> QED BY <1>0, <2>1, <2>2, <3>1, <4>1, MarkFacts
    <3>2. CASE ~(art[job[i].art].job = i /\ art[job[i].art].status = "queued")
      BY <1>0, <2>1, <3>2 DEF TypeOK
    <3> QED BY <3>1, <3>2
  <2>4. TypeOK'
    BY <1>0, <1>2, <2>1, <2>3 DEF TypeOK
  <2>5. JobsAreWhole' /\ ConfirmedIsFrozen' /\ PeriodIsOwn'
    <3>1. \A j \in Jobs : job[j].kind = "none" => job[j].status = "none"
      BY <1>0 DEF JobsAreWhole
    <3> QED BY <1>0, <2>1, <3>1, ReviewSame
  <2>6. ExportedIsReal'
    <3>1. review'.status = "exported" => review.current \in Confirmations
      BY <1>0, <2>1, Types DEF ConfirmedIsFrozen
    <3> QED BY <1>0, <2>1, <2>3, <3>1, ArtSame
  <2> QED BY <1>3, <2>4, <2>5, <2>6 DEF IInv
<1> QED BY <1>4, <1>5

----------------------------------------------------------------------------
(* The runner *)

\* A step of a run that leaves the jobs alone.
LEMMA RunsSame ==
  ASSUME TypeOK, RunsAreOfJobs, FileFirst, NEW k \in Kinds,
         UNCHANGED <<job, files, cancel>>,
         run[k].pc # "idle", run'[k].job = run[k].job,
         run'[k].pc = "settle" => run'[k].out # "none",
         k = "export" /\ run'[k].pc \in {"recheck", "commit"} => job[run[k].job].art \in files,
         \A l \in Kinds : l # k => run'[l] = run[l]
  PROVE  RunsAreOfJobs' /\ FileFirst'
<1>1. RunsAreOfJobs'
  BY DEF RunsAreOfJobs
<1>2. FileFirst'
  BY Types DEF FileFirst
<1> QED BY <1>1, <1>2

LEMMA StartStep ==
  ASSUME IInv, NEW k \in Kinds, Start(k)
  PROVE  IInv'
<1>0. /\ TypeOK /\ RunsAreOfJobs /\ JobsAreWhole /\ FileFirst
      /\ ConfirmedIsFrozen /\ PeriodIsOwn /\ ExportedIsReal
      /\ UNCHANGED <<review, conf, art, files, cancel, up, seen, budget>>
  BY DEF IInv, Start
<1> PICK i \in Jobs :
      /\ job[i].kind = k /\ job[i].status = "queued" /\ ~job[i].cancel
      /\ job' = [job EXCEPT ![i].status = "running", ![i].attempts = @ + 1]
      /\ run' = [run EXCEPT ![k] = [job |-> i, pc |-> "load", out |-> "none"]]
  BY DEF Start
<1> DEFINE row == [job[i] EXCEPT !.status = "running", !.attempts = @ + 1]
           r == [job |-> i, pc |-> "load", out |-> "none"]
<1>1. /\ row \in JobRow /\ row.kind = job[i].kind /\ row.art = job[i].art
      /\ row.fallback = job[i].fallback /\ row.expected = job[i].expected
  <2>1. job[i] \in JobRow /\ job[i].attempts + 1 \in Nat
    BY <1>0, Types
  <2> QED BY <2>1 DEF JobRow, JobStatus
<1>2. job' = [job EXCEPT ![i] = row]
  BY <1>0 DEF TypeOK
<1>3. r \in Run /\ r.job = i /\ r.pc = "load"
  BY <1>0, Types DEF Run, Stages, Outcomes
<1>4. run' \in [Kinds -> Run] /\ run'[k] = r /\ \A l \in Kinds : l # k => run'[l] = run[l]
  BY <1>0, <1>3, RunStep
<1> HIDE DEF row, r
<1>5. /\ job' \in [Jobs -> JobRow]
      /\ \A j \in Jobs : /\ job'[j].kind = job[j].kind /\ job'[j].art = job[j].art
                         /\ job'[j].fallback = job[j].fallback
                         /\ job'[j].expected = job[j].expected
                         /\ job'[j].kind = "none" => job'[j].status = "none"
  <2>1. job' \in [Jobs -> JobRow] /\ job'[i] = row /\ \A j \in Jobs : j # i => job'[j] = job[j]
    BY <1>0, <1>1, <1>2, JobStep
  <2> QED BY <1>0, <1>1, <2>1 DEF JobsAreWhole, Kinds
<1>6. TypeOK'
  BY <1>0, <1>4, <1>5 DEF TypeOK
<1>7. RunsAreOfJobs'
  BY <1>0, <1>3, <1>4, <1>5, Types DEF RunsAreOfJobs, Jobs
<1>8. FileFirst'
  BY <1>0, <1>3, <1>4, <1>5, RunOf, Types DEF FileFirst
<1>9. JobsAreWhole' /\ ConfirmedIsFrozen' /\ PeriodIsOwn' /\ ExportedIsReal'
  BY <1>0, <1>5, ReviewSame DEF ExportedIsReal
<1> QED BY <1>6, <1>7, <1>8, <1>9 DEF IInv

\* A step of a run that changes nothing else but the budget.
LEMMA RunOnly ==
  ASSUME IInv, NEW k \in Kinds,
         UNCHANGED <<review, conf, art, files, job, cancel, up, seen>>,
         budget' \in [edits: Nat, faults: Nat, cancels: Nat], run' \in [Kinds -> Run],
         run[k].pc # "idle", run'[k].job = run[k].job,
         run'[k].pc = "settle" => run'[k].out # "none",
         k = "export" /\ run'[k].pc \in {"recheck", "commit"} => job[run[k].job].art \in files,
         \A l \in Kinds : l # k => run'[l] = run[l]
  PROVE  IInv'
<1>0. /\ TypeOK /\ RunsAreOfJobs /\ JobsAreWhole /\ FileFirst
      /\ ConfirmedIsFrozen /\ PeriodIsOwn /\ ExportedIsReal
  BY DEF IInv
<1>1. TypeOK'
  BY <1>0 DEF TypeOK
<1>2. RunsAreOfJobs' /\ FileFirst'
  BY <1>0, RunsSame
<1>3. JobsAreWhole' /\ ConfirmedIsFrozen' /\ PeriodIsOwn' /\ ExportedIsReal'
  <2>1. \A j \in Jobs : job[j].kind = "none" => job[j].status = "none"
    BY <1>0 DEF JobsAreWhole
  <2> QED BY <1>0, <2>1, ReviewSame DEF ExportedIsReal
<1> QED BY <1>1, <1>2, <1>3 DEF IInv

LEMMA FailsStep ==
  ASSUME IInv, NEW k \in Kinds, Fails(k)
  PROVE  IInv'
<1>1. /\ UNCHANGED <<review, conf, art, files, job, cancel, up, seen>>
      /\ Ends(k, "retry") /\ run[k].pc # "idle" /\ TypeOK
  BY DEF Fails, IInv
<1>2. budget' \in [edits: Nat, faults: Nat, cancels: Nat]
  BY <1>1, FaultSpends DEF Fails
<1>3. "retry" \in Outcomes
  BY DEF Outcomes
<1>4. /\ run' \in [Kinds -> Run] /\ run'[k].pc = "settle" /\ run'[k].job = run[k].job
      /\ run'[k].out = "retry" /\ \A l \in Kinds : l # k => run'[l] = run[l]
  BY <1>1, <1>3, EndsFacts
<1> QED BY <1>1, <1>2, <1>4, RunOnly

LEMMA SettleStep ==
  ASSUME IInv, NEW k \in Kinds, Settle(k)
  PROVE  IInv'
<1> DEFINE i == run[k].job
           status == StatusAfter(i, run[k].out)
           row == [job[i] EXCEPT !.status = status]
           r == IF status \in {"failed", "dead_letter"} THEN [run[k] EXCEPT !.pc = "callback"]
                ELSE Idle
<1>0. /\ TypeOK /\ RunsAreOfJobs /\ JobsAreWhole /\ FileFirst
      /\ ConfirmedIsFrozen /\ PeriodIsOwn /\ ExportedIsReal
      /\ UNCHANGED <<review, conf, art, files, cancel, up, seen, budget>>
      /\ run[k].pc = "settle"
      /\ job' = [job EXCEPT ![i].status = status]
      /\ run' = [run EXCEPT ![k] = r]
  BY DEF IInv, Settle, At
<1>1. i \in Jobs /\ job[i].kind = k /\ run[k].out \in {"returned", "refused", "retry"}
  BY <1>0, RunOf, Types DEF RunsAreOfJobs, Outcomes
<1>2. status \in JobStatus
  BY <1>1 DEF StatusAfter, JobStatus
<1>3. /\ row \in JobRow /\ row.kind = job[i].kind /\ row.art = job[i].art
      /\ row.fallback = job[i].fallback /\ row.expected = job[i].expected
  <2>1. job[i] \in JobRow
    BY <1>0, <1>1, Types
  <2> HIDE DEF status
  <2> QED BY <1>2, <2>1 DEF JobRow
<1>4. job' = [job EXCEPT ![i] = row]
  BY <1>0, <1>1 DEF TypeOK
<1>5. r \in Run /\ (r.pc = "idle" \/ (r.pc = "callback" /\ r.job = i))
  <2>1. Idle \in Run /\ Idle.pc = "idle"
    BY DEF Idle, Run, Stages, Outcomes
  <2>2. /\ [run[k] EXCEPT !.pc = "callback"] \in Run
        /\ [run[k] EXCEPT !.pc = "callback"].pc = "callback"
        /\ [run[k] EXCEPT !.pc = "callback"].job = i
    BY <1>0, Types DEF Run, Stages
  <2> QED BY <2>1, <2>2
<1>6. run' \in [Kinds -> Run] /\ run'[k] = r /\ \A l \in Kinds : l # k => run'[l] = run[l]
  BY <1>0, <1>5, RunStep
<1> HIDE DEF row, r, status, i
<1>7. /\ job' \in [Jobs -> JobRow]
      /\ \A j \in Jobs : /\ job'[j].kind = job[j].kind /\ job'[j].art = job[j].art
                         /\ job'[j].fallback = job[j].fallback
                         /\ job'[j].expected = job[j].expected
                         /\ job'[j].kind = "none" => job'[j].status = "none"
  <2>1. job' \in [Jobs -> JobRow] /\ job'[i] = row /\ \A j \in Jobs : j # i => job'[j] = job[j]
    BY <1>0, <1>1, <1>3, <1>4, JobStep
  <2> QED BY <1>0, <1>1, <1>3, <2>1 DEF JobsAreWhole, Kinds
<1>8. TypeOK'
  BY <1>0, <1>6, <1>7 DEF TypeOK
<1>9. RunsAreOfJobs'
  BY <1>0, <1>1, <1>5, <1>6, <1>7, Types DEF RunsAreOfJobs, Jobs
<1>10. FileFirst'
  BY <1>0, <1>5, <1>6, <1>7, RunOf, Types DEF FileFirst
<1>11. JobsAreWhole' /\ ConfirmedIsFrozen' /\ PeriodIsOwn' /\ ExportedIsReal'
  BY <1>0, <1>7, ReviewSame DEF ExportedIsReal
<1> QED BY <1>8, <1>9, <1>10, <1>11 DEF IInv

LEMMA TerminalFailureStep ==
  ASSUME IInv, NEW k \in Kinds, TerminalFailure(k)
  PROVE  IInv'
<1> DEFINE i == run[k].job
<1>0. /\ TypeOK /\ RunsAreOfJobs /\ JobsAreWhole /\ FileFirst
      /\ ConfirmedIsFrozen /\ PeriodIsOwn /\ ExportedIsReal
      /\ UNCHANGED <<conf, files, job, cancel, up, budget>>
      /\ run[k].pc = "callback" /\ run' = [run EXCEPT ![k] = Idle]
  BY DEF IInv, TerminalFailure, At
<1>1. i \in Jobs /\ job[i].kind = k
  BY <1>0, RunOf
<1>2. Idle \in Run /\ Idle.pc = "idle"
  BY DEF Idle, Run, Stages, Outcomes
<1>3. run' \in [Kinds -> Run] /\ run'[k] = Idle /\ \A l \in Kinds : l # k => run'[l] = run[l]
  BY <1>0, <1>2, RunStep
<1>4. RunsAreOfJobs' /\ FileFirst'
  BY <1>0, <1>2, <1>3, Types DEF RunsAreOfJobs, FileFirst
<1>5. CASE k = "collect"
  <2>1. Leaves(i, "collection_failed", 0) /\ UNCHANGED art
    BY <1>5 DEF TerminalFailure
  <2>2. "collection_failed" \in ReviewStatus \ {"confirmed", "exported"} /\ 0 \in Nat
    BY DEF ReviewStatus
  <2>3. /\ review' \in Review /\ seen' \in [asked: 0..NumJobs, foreign: BOOLEAN, left: BOOLEAN]
        /\ JobsAreWhole' /\ ConfirmedIsFrozen' /\ PeriodIsOwn'
        /\ review'.status = "exported" => review.status = "exported" /\ review' = review
    BY <1>0, <1>1, <2>1, <2>2, LeavesFacts
  <2>4. TypeOK'
    BY <1>0, <1>3, <2>1, <2>3 DEF TypeOK
  <2>5. ExportedIsReal'
    BY <1>0, <2>1, <2>3 DEF ExportedIsReal
  <2> QED BY <1>4, <2>3, <2>4, <2>5 DEF IInv
<1>6. CASE k # "collect"
  <2>1. /\ UNCHANGED <<review, seen>>
        /\ art' = IF art[job[i].art].job = i /\ art[job[i].art].status = "running"
                  THEN [art EXCEPT ![job[i].art].status = "failed"] ELSE art
    BY <1>6 DEF TerminalFailure
  <2>2. job[i].art \in Confirmations
    BY <1>0, <1>1, <1>6, Types DEF JobsAreWhole, Kinds
  <2>3. /\ art' \in [Confirmations -> Artifact]
        /\ \A d \in Confirmations : art'[d].status = "succeeded" <=> art[d].status = "succeeded"
    <3>1. CASE art[job[i].art].job = i /\ art[job[i].art].status = "running"
      <4>1. "failed" \in ArtifactStatus \ {"succeeded"}
        BY DEF ArtifactStatus
      <4> QED BY <1>0, <2>1, <2>2, <3>1, <4>1, MarkFacts
    <3>2. CASE ~(art[job[i].art].job = i /\ art[job[i].art].status = "running")
      BY <1>0, <2>1, <3>2 DEF TypeOK
    <3> QED BY <3>1, <3>2
  <2>4. TypeOK'
    BY <1>0, <1>3, <2>1, <2>3 DEF TypeOK
  <2>5. JobsAreWhole' /\ ConfirmedIsFrozen' /\ PeriodIsOwn'
    <3>1. \A j \in Jobs : job[j].kind = "none" => job[j].status = "none"
      BY <1>0 DEF JobsAreWhole
    <3> QED BY <1>0, <2>1, <3>1, ReviewSame
  <2>6. ExportedIsReal'
    <3>1. review'.status = "exported" => review.current \in Confirmations
      BY <1>0, <2>1, Types DEF ConfirmedIsFrozen
    <3> QED BY <1>0, <2>1, <2>3, <3>1, ArtSame
  <2> QED BY <1>4, <2>4, <2>5, <2>6 DEF IInv
<1> QED BY <1>5, <1>6

----------------------------------------------------------------------------
(* The collection *)

\* A step of the collection that ends its period, or would have.
LEMMA CollectEnds ==
  ASSUME IInv, run["collect"].pc # "idle", UNCHANGED <<conf, art, files, job, cancel, up, budget>>,
         NEW status \in ReviewStatus \ {"confirmed", "exported"}, NEW facts \in Nat,
         Leaves(run["collect"].job, status, facts),
         NEW out \in {"returned", "refused"}, Ends("collect", out)
  PROVE  IInv'
<1> DEFINE i == run["collect"].job
<1>0. /\ TypeOK /\ RunsAreOfJobs /\ JobsAreWhole /\ FileFirst
      /\ ConfirmedIsFrozen /\ PeriodIsOwn /\ ExportedIsReal
      /\ "collect" \in Kinds /\ out \in Outcomes /\ out # "none"
  BY DEF IInv, Kinds, Outcomes
<1>1. i \in Jobs
  BY <1>0, RunOf
<1>2. /\ review' \in Review /\ seen' \in [asked: 0..NumJobs, foreign: BOOLEAN, left: BOOLEAN]
      /\ JobsAreWhole' /\ ConfirmedIsFrozen' /\ PeriodIsOwn'
      /\ review'.status = "exported" => review.status = "exported" /\ review' = review
  BY <1>0, <1>1, LeavesFacts
<1>3. /\ run' \in [Kinds -> Run] /\ run'["collect"].job = i /\ run'["collect"].out = out
      /\ \A l \in Kinds : l # "collect" => run'[l] = run[l]
  BY <1>0, EndsFacts
<1>4. RunsAreOfJobs' /\ FileFirst'
  BY <1>0, <1>3, RunsSame
<1>5. TypeOK'
  BY <1>0, <1>2, <1>3 DEF TypeOK
<1>6. ExportedIsReal'
  BY <1>0, <1>2 DEF ExportedIsReal
<1> QED BY <1>2, <1>4, <1>5, <1>6 DEF IInv

\* A step of a run that moves it on and changes nothing.
LEMMA GoesOnly ==
  ASSUME IInv, NEW k \in Kinds, run[k].pc # "idle", NEW pc \in Stages \ {"settle"},
         UNCHANGED <<review, conf, art, files, job, cancel, up, seen, budget>>,
         k = "export" /\ pc \in {"recheck", "commit"} => job[run[k].job].art \in files,
         Goes(k, pc)
  PROVE  IInv'
<1>1. TypeOK
  BY DEF IInv
<1>2. /\ run' \in [Kinds -> Run] /\ run'[k].job = run[k].job /\ run'[k].pc = pc
      /\ \A l \in Kinds : l # k => run'[l] = run[l]
  BY <1>1, GoesFacts
<1>3. budget' \in [edits: Nat, faults: Nat, cancels: Nat]
  BY <1>1, BudgetType
<1> QED BY <1>2, <1>3, RunOnly

LEMMA EndsOnly ==
  ASSUME IInv, NEW k \in Kinds, run[k].pc # "idle", NEW out \in Outcomes \ {"none"},
         UNCHANGED <<review, conf, art, files, job, cancel, up, seen, budget>>, Ends(k, out)
  PROVE  IInv'
<1>1. TypeOK
  BY DEF IInv
<1>2. /\ run' \in [Kinds -> Run] /\ run'[k].job = run[k].job /\ run'[k].pc = "settle"
      /\ run'[k].out = out /\ \A l \in Kinds : l # k => run'[l] = run[l]
  BY <1>1, EndsFacts
<1>3. budget' \in [edits: Nat, faults: Nat, cancels: Nat]
  BY <1>1, BudgetType
<1> QED BY <1>2, <1>3, RunOnly

LEMMA CollectLoadStep ==
  ASSUME IInv, CollectLoad
  PROVE  IInv'
<1>1. /\ run["collect"].pc # "idle" /\ "collect" \in Kinds
      /\ UNCHANGED <<review, conf, art, files, job, cancel, up, seen, budget>>
  BY DEF CollectLoad, At, Kinds
<1>2. \/ Goes("collect", "check") \/ Ends("collect", "returned") \/ Ends("collect", "refused")
  BY DEF CollectLoad
<1>3. "check" \in Stages \ {"settle"} /\ {"returned", "refused"} \subseteq Outcomes \ {"none"}
  BY DEF Stages, Outcomes
<1>4. CASE Goes("collect", "check")
  BY <1>1, <1>3, <1>4, GoesOnly
<1>5. CASE Ends("collect", "returned")
  BY <1>1, <1>3, <1>5, EndsOnly
<1>6. CASE Ends("collect", "refused")
  BY <1>1, <1>3, <1>6, EndsOnly
<1> QED BY <1>2, <1>4, <1>5, <1>6

LEMMA CollectCheckStep ==
  ASSUME IInv, CollectCheck
  PROVE  IInv'
<1> DEFINE i == run["collect"].job
           fallback == job[i].fallback
<1>1. /\ run["collect"].pc # "idle" /\ "collect" \in Kinds
      /\ UNCHANGED <<conf, art, files, job, cancel, up, budget>>
  BY DEF CollectCheck, At, Kinds
<1>2. \/ Leaves(i, fallback, 0) /\ Ends("collect", "returned")
      \/ Goes("collect", "commit") /\ UNCHANGED <<review, seen>>
      \/ Leaves(i, "collection_failed", 0) /\ Ends("collect", "refused")
  BY DEF CollectCheck
<1>3. i \in Jobs
  BY <1>1, RunOf DEF IInv
<1>4. /\ fallback \in ReviewStatus \ {"confirmed", "exported"} /\ 0 \in Nat
      /\ "collection_failed" \in ReviewStatus \ {"confirmed", "exported"}
      /\ "commit" \in Stages \ {"settle"}
      /\ "returned" \in {"returned", "refused"} /\ "refused" \in {"returned", "refused"}
  BY <1>3, Types DEF IInv, JobsAreWhole, Stages, ReviewStatus
<1> HIDE DEF fallback
<1>5. CASE Leaves(i, fallback, 0) /\ Ends("collect", "returned")
  BY <1>1, <1>4, <1>5, CollectEnds
<1>6. CASE Goes("collect", "commit") /\ UNCHANGED <<review, seen>>
  BY <1>1, <1>4, <1>6, GoesOnly
<1>7. CASE Leaves(i, "collection_failed", 0) /\ Ends("collect", "refused")
  BY <1>1, <1>4, <1>7, CollectEnds
<1> QED BY <1>2, <1>5, <1>6, <1>7

LEMMA CollectCommitStep ==
  ASSUME IInv, CollectCommit
  PROVE  IInv'
<1> DEFINE i == run["collect"].job
           out == IF Period(i) THEN "returned" ELSE "refused"
<1>1. /\ run["collect"].pc # "idle" /\ UNCHANGED <<conf, art, files, job, cancel, up, budget>>
      /\ Leaves(i, "candidates_ready", 1) /\ Ends("collect", out)
  BY DEF CollectCommit, At
<1>2. /\ out \in {"returned", "refused"} /\ 1 \in Nat
      /\ "candidates_ready" \in ReviewStatus \ {"confirmed", "exported"}
  BY DEF ReviewStatus
<1> HIDE DEF out
<1> QED BY <1>1, <1>2, CollectEnds

----------------------------------------------------------------------------
(* The export *)

LEMMA ExportLoadStep ==
  ASSUME IInv, ExportLoad
  PROVE  IInv'
<1>1. /\ run["export"].pc # "idle" /\ "export" \in Kinds
      /\ UNCHANGED <<review, conf, art, files, job, cancel, up, seen, budget>>
  BY DEF ExportLoad, At, Kinds
<1>2. \/ \E pc \in {"claim", "check"} : Goes("export", pc)
      \/ \E out \in {"returned", "refused"} : Ends("export", out)
  BY DEF ExportLoad, ResumedAt
<1>3. {"claim", "check"} \subseteq Stages \ {"settle", "recheck", "commit"}
      /\ {"returned", "refused"} \subseteq Outcomes \ {"none"}
  BY DEF Stages, Outcomes
<1>4. ASSUME NEW pc \in {"claim", "check"}, Goes("export", pc)
      PROVE  IInv'
  BY <1>1, <1>3, <1>4, GoesOnly
<1>5. ASSUME NEW out \in {"returned", "refused"}, Ends("export", out)
      PROVE  IInv'
  BY <1>1, <1>3, <1>5, EndsOnly
<1> QED BY <1>2, <1>4, <1>5

\* A step of the export before its commit.
LEMMA ExportOnly ==
  ASSUME IInv, run["export"].pc # "idle",
         UNCHANGED <<review, conf, job, cancel, up, seen, budget>>,
         files \subseteq files', files' \subseteq Confirmations,
         art' \in [Confirmations -> Artifact],
         \A c \in Confirmations : art'[c].status = "succeeded" <=> art[c].status = "succeeded",
         run' \in [Kinds -> Run], run'["export"].job = run["export"].job,
         run'["export"].pc = "settle" => run'["export"].out # "none",
         run'["export"].pc \in {"recheck", "commit"} => job[run["export"].job].art \in files',
         \A l \in Kinds : l # "export" => run'[l] = run[l]
  PROVE  IInv'
<1>0. /\ TypeOK /\ RunsAreOfJobs /\ JobsAreWhole /\ FileFirst
      /\ ConfirmedIsFrozen /\ PeriodIsOwn /\ ExportedIsReal /\ "export" \in Kinds
  BY DEF IInv, Kinds
<1>1. TypeOK'
  BY <1>0 DEF TypeOK
<1>2. RunsAreOfJobs' /\ FileFirst'
  BY <1>0 DEF RunsAreOfJobs, FileFirst
<1>3. JobsAreWhole' /\ ConfirmedIsFrozen' /\ PeriodIsOwn'
  <2>1. \A j \in Jobs : job[j].kind = "none" => job[j].status = "none"
    BY <1>0 DEF JobsAreWhole
  <2> QED BY <1>0, <2>1, ReviewSame
<1>4. ExportedIsReal'
  <2>1. review.status = "exported" => review.current \in Confirmations
    BY <1>0, Types DEF ConfirmedIsFrozen
  <2> QED BY <1>0, <2>1 DEF ExportedIsReal
<1> QED BY <1>1, <1>2, <1>3, <1>4 DEF IInv

\* The artifact of the job that is executed.
LEMMA ArtOf ==
  ASSUME IInv, run["export"].pc # "idle"
  PROVE  job[run["export"].job].art \in Confirmations
<1>1. TypeOK /\ RunsAreOfJobs /\ JobsAreWhole /\ "export" \in Kinds
  BY DEF IInv, Kinds
<1>2. run["export"].job \in Jobs /\ job[run["export"].job].kind = "export"
  BY <1>1, RunOf
<1> QED BY <1>1, <1>2, Types DEF JobsAreWhole

\* What marks an artifact, unless it says that it is done.
LEMMA MarkArtifactFacts ==
  ASSUME TypeOK, NEW c \in Confirmations, NEW from \in ArtifactStatus \ {"succeeded"},
         NEW to \in ArtifactStatus \ {"succeeded"}, MarkArtifact(c, from, to)
  PROVE  /\ art' \in [Confirmations -> Artifact]
         /\ \A d \in Confirmations : art'[d].status = "succeeded" <=> art[d].status = "succeeded"
<1>1. CASE art[c].status = from
  <2>1. art[c].status # "succeeded" /\ art' = [art EXCEPT ![c].status = to]
    BY <1>1 DEF MarkArtifact
  <2> QED BY <2>1, MarkFacts
<1>2. CASE art[c].status # from
  BY <1>2 DEF MarkArtifact, TypeOK
<1> QED BY <1>1, <1>2

LEMMA ExportClaimStep ==
  ASSUME IInv, ExportClaim
  PROVE  IInv'
<1> DEFINE c == job[run["export"].job].art
<1>1. /\ run["export"].pc # "idle" /\ "export" \in Kinds /\ TypeOK
      /\ UNCHANGED <<review, conf, files, job, cancel, up, seen, budget>>
      /\ MarkArtifact(c, "queued", "running")
      /\ Goes("export", "check") \/ Ends("export", "retry")
  BY DEF ExportClaim, At, Kinds, IInv
<1>2. c \in Confirmations /\ files \subseteq Confirmations
  BY <1>1, ArtOf DEF TypeOK
<1>3. /\ {"queued", "running"} \subseteq ArtifactStatus \ {"succeeded"}
      /\ "check" \in Stages /\ "retry" \in Outcomes
  BY DEF ArtifactStatus, Stages, Outcomes
<1>4. /\ art' \in [Confirmations -> Artifact]
      /\ \A d \in Confirmations : art'[d].status = "succeeded" <=> art[d].status = "succeeded"
  BY <1>1, <1>2, <1>3, MarkArtifactFacts
<1>5. /\ run' \in [Kinds -> Run] /\ run'["export"].job = run["export"].job
      /\ \A l \in Kinds : l # "export" => run'[l] = run[l]
      /\ \/ run'["export"].pc = "check"
         \/ run'["export"].pc = "settle" /\ run'["export"].out = "retry"
  <2>1. CASE Goes("export", "check")
    BY <1>1, <1>3, <2>1, GoesFacts
  <2>2. CASE Ends("export", "retry")
    BY <1>1, <1>3, <2>2, EndsFacts
  <2> QED BY <1>1, <2>1, <2>2
<1> QED BY <1>1, <1>2, <1>4, <1>5, ExportOnly

LEMMA ExportCheckStep ==
  ASSUME IInv, ExportCheck
  PROVE  IInv'
<1> DEFINE i == run["export"].job
           c == job[i].art
           pc == run["export"].pc
           next == [check |-> "recheck", recheck |-> "commit"]
<1>1. /\ pc \in {"check", "recheck"} /\ "export" \in Kinds /\ TypeOK /\ FileFirst
      /\ UNCHANGED <<review, conf, job, cancel, up, seen, budget>>
  BY DEF ExportCheck, Kinds, IInv
<1>2. \/ UNCHANGED files /\ MarkArtifact(c, "running", "cancelled") /\ Ends("export", "returned")
      \/ /\ Goes("export", next[pc]) /\ UNCHANGED art
         /\ files' = IF pc = "check" THEN files \union {c} ELSE files
      \/ Ends("export", "refused") /\ UNCHANGED <<art, files>>
  BY DEF ExportCheck
<1>3. c \in Confirmations /\ files \subseteq Confirmations /\ pc # "idle"
      /\ art \in [Confirmations -> Artifact]
  BY <1>1, ArtOf DEF TypeOK
<1>4. /\ {"running", "cancelled"} \subseteq ArtifactStatus \ {"succeeded"}
      /\ next[pc] \in Stages /\ next[pc] \in {"recheck", "commit"}
      /\ {"returned", "refused"} \subseteq Outcomes
  BY <1>1 DEF ArtifactStatus, Stages, Outcomes
<1>5. ASSUME UNCHANGED files, MarkArtifact(c, "running", "cancelled"), Ends("export", "returned")
      PROVE  IInv'
  <2>1. /\ art' \in [Confirmations -> Artifact]
        /\ \A d \in Confirmations : art'[d].status = "succeeded" <=> art[d].status = "succeeded"
    BY <1>1, <1>3, <1>4, <1>5, MarkArtifactFacts
  <2>2. /\ run' \in [Kinds -> Run] /\ run'["export"].job = run["export"].job
        /\ run'["export"].pc = "settle" /\ run'["export"].out = "returned"
        /\ \A l \in Kinds : l # "export" => run'[l] = run[l]
    BY <1>1, <1>4, <1>5, EndsFacts
  <2> QED BY <1>1, <1>3, <1>5, <2>1, <2>2, ExportOnly
<1>6. ASSUME Goes("export", next[pc]), UNCHANGED art,
             files' = IF pc = "check" THEN files \union {c} ELSE files
      PROVE  IInv'
  <2>1. c \in files' /\ files \subseteq files' /\ files' \subseteq Confirmations
    BY <1>1, <1>3, <1>6 DEF FileFirst
  <2> DEFINE to == next[pc]
  <2>2. Goes("export", to) /\ to \in Stages /\ to # "settle"
    BY <1>4, <1>6
  <2> HIDE DEF to
  <2>3. /\ run' \in [Kinds -> Run] /\ run'["export"].job = run["export"].job
        /\ run'["export"].pc = to /\ \A l \in Kinds : l # "export" => run'[l] = run[l]
    BY <1>1, <2>2, GoesFacts
  <2> QED BY <1>1, <1>3, <1>6, <2>1, <2>2, <2>3, ExportOnly
<1>7. ASSUME Ends("export", "refused"), UNCHANGED <<art, files>>
      PROVE  IInv'
  <2>1. UNCHANGED <<review, conf, art, files, job, cancel, up, seen, budget>>
        /\ "refused" \in Outcomes \ {"none"}
    BY <1>1, <1>4, <1>7
  <2> QED BY <1>1, <1>3, <1>7, <2>1, EndsOnly
<1> QED BY <1>2, <1>5, <1>6, <1>7

LEMMA ExportCommitStep ==
  ASSUME IInv, ExportCommit
  PROVE  IInv'
<1> DEFINE i == run["export"].job
           c == job[i].art
           mine == art[c].status = "running" /\ art[c].job = i
           out == IF mine THEN "returned" ELSE "refused"
           shown == mine /\ review.current = c /\ review.status = "confirmed"
<1>0. /\ TypeOK /\ RunsAreOfJobs /\ JobsAreWhole /\ FileFirst
      /\ ConfirmedIsFrozen /\ PeriodIsOwn /\ ExportedIsReal /\ "export" \in Kinds
      /\ UNCHANGED <<conf, files, job, cancel, up, seen, budget>>
      /\ run["export"].pc = "commit" /\ Ends("export", out)
      /\ art' = IF mine THEN [art EXCEPT ![c].status = "succeeded"] ELSE art
      /\ review' = IF shown THEN [review EXCEPT !.status = "exported", !.version = @ + 1]
                   ELSE review
  BY DEF IInv, ExportCommit, At, Kinds
<1>1. c \in Confirmations /\ c \in files /\ out \in {"returned", "refused"}
  BY <1>0, ArtOf DEF FileFirst
<1>2. shown => mine
  OBVIOUS
<1> HIDE DEF c, mine, out, shown
<1>3. /\ run' \in [Kinds -> Run] /\ run'["export"].job = i /\ run'["export"].pc = "settle"
      /\ run'["export"].out = out /\ \A l \in Kinds : l # "export" => run'[l] = run[l]
  <2>1. out \in Outcomes
    BY <1>1 DEF Outcomes
  <2> QED BY <1>0, <2>1, EndsFacts
<1>4. /\ art' \in [Confirmations -> Artifact]
      /\ \A d \in Confirmations : d # c => art'[d] = art[d]
      /\ mine => art'[c].status = "succeeded"
      /\ ~mine => art' = art
  <2> DEFINE a == [art[c] EXCEPT !.status = "succeeded"]
  <2>1. a \in Artifact /\ a.status = "succeeded"
    BY <1>0, <1>1, Types DEF Artifact, ArtifactStatus
  <2>2. art' = IF mine THEN [art EXCEPT ![c] = a] ELSE art
    BY <1>0
  <2> HIDE DEF a
  <2> QED BY <1>0, <1>1, <2>1, <2>2 DEF TypeOK
<1>5. /\ review' \in Review /\ review'.current = review.current
      /\ review'.facts = review.facts /\ review'.narrative = review.narrative
      /\ shown => /\ review'.status = "exported" /\ review'.version = review.version + 1
                  /\ review.status = "confirmed" /\ review.current = c
      /\ ~shown => review' = review
  <2>1. review \in Review /\ "exported" \in ReviewStatus /\ review.version + 1 \in Nat
    BY <1>0, Types DEF TypeOK, ReviewStatus
  <2> QED BY <1>0, <2>1 DEF Review, shown
<1>6. TypeOK'
  BY <1>0, <1>3, <1>4, <1>5 DEF TypeOK
<1>7. RunsAreOfJobs' /\ FileFirst'
  BY <1>0, <1>1, <1>3, RunsSame
<1>8. JobsAreWhole'
  <2>1. CASE shown
    BY <1>0, <1>5, <2>1, Types DEF JobsAreWhole, Period
  <2>2. CASE ~shown
    BY <1>0, <1>5, <2>2 DEF JobsAreWhole, Period
  <2> QED BY <2>1, <2>2
<1>9. ConfirmedIsFrozen' /\ PeriodIsOwn'
  BY <1>0, <1>5 DEF ConfirmedIsFrozen, PeriodIsOwn
<1>10. ExportedIsReal'
  <2>1. \A d \in Confirmations : art'[d].status = "succeeded" => d \in files'
    BY <1>0, <1>1, <1>4 DEF ExportedIsReal
  <2>2. ASSUME review'.status = "exported"
        PROVE  art'[review'.current].status = "succeeded"
    <3>1. CASE shown
      BY <1>2, <1>4, <1>5, <3>1
    <3>2. CASE ~shown
      <4>1. review.status = "exported" /\ review.current \in Confirmations
        BY <1>0, <1>5, <2>2, <3>2, Types DEF ConfirmedIsFrozen
      <4> QED BY <1>0, <1>4, <1>5, <4>1 DEF ExportedIsReal
    <3> QED BY <3>1, <3>2
  <2> QED BY <2>1, <2>2 DEF ExportedIsReal
<1> QED BY <1>6, <1>7, <1>8, <1>9, <1>10 DEF IInv

----------------------------------------------------------------------------
(* The service dies and is started again *)

\* The history of a callback that is left out.
LEMMA Leaving ==
  ASSUME TypeOK, NEW x \in BOOLEAN, seen' = [seen EXCEPT !.left = x]
  PROVE  /\ seen' \in [asked: 0..NumJobs, foreign: BOOLEAN, left: BOOLEAN]
         /\ seen'.asked = seen.asked /\ seen'.foreign = seen.foreign
BY DEF TypeOK

LEMMA CallbackFailsStep ==
  ASSUME IInv, CallbackFails
  PROVE  IInv'
<1>0. /\ TypeOK /\ RunsAreOfJobs /\ JobsAreWhole /\ FileFirst
      /\ ConfirmedIsFrozen /\ PeriodIsOwn /\ ExportedIsReal
      /\ UNCHANGED <<review, conf, art, files, job, up>>
      /\ budget' \in [edits: Nat, faults: Nat, cancels: Nat]
  BY FaultSpends DEF IInv, CallbackFails
<1>1. /\ Idle \in Run /\ Idle.pc = "idle" /\ NoCancel.stage = "none"
      /\ NoCancel \in [job: 0..NumJobs, stage: {"none", "write", "callback"}, queued: BOOLEAN]
  <2>1. 0 \in 0..NumJobs
    OBVIOUS
  <2> QED BY <2>1 DEF Idle, Run, Stages, Outcomes, NoCancel
<1>2. /\ seen' \in [asked: 0..NumJobs, foreign: BOOLEAN, left: BOOLEAN]
      /\ seen'.asked = seen.asked /\ seen'.foreign = seen.foreign
  <2>1. ASSUME NEW i, LeftOut(i)
        PROVE  /\ seen' \in [asked: 0..NumJobs, foreign: BOOLEAN, left: BOOLEAN]
               /\ seen'.asked = seen.asked /\ seen'.foreign = seen.foreign
    <3> DEFINE x == seen.left \/ Period(i)
    <3>1. x \in BOOLEAN /\ seen' = [seen EXCEPT !.left = x]
      BY <1>0, <2>1 DEF LeftOut, TypeOK
    <3> HIDE DEF x
    <3> QED BY <1>0, <3>1, Leaving
  <2> QED BY <2>1 DEF CallbackFails
<1>3. /\ run' \in [Kinds -> Run] /\ \A k \in Kinds : run'[k] = run[k] \/ run'[k].pc = "idle"
      /\ cancel' \in [job: 0..NumJobs, stage: {"none", "write", "callback"}, queued: BOOLEAN]
      /\ cancel' = cancel \/ cancel'.stage = "none"
  <2>1. CASE cancel' = NoCancel /\ run' = run
    BY <1>0, <1>1, <2>1 DEF TypeOK
  <2>2. CASE cancel' = cancel /\ \E k \in Kinds : run' = [run EXCEPT ![k] = Idle]
    BY <1>0, <1>1, <2>2, RunStep DEF TypeOK
  <2> QED BY <2>1, <2>2 DEF CallbackFails
<1>4. TypeOK'
  BY <1>0, <1>2, <1>3 DEF TypeOK
<1>5. RunsAreOfJobs' /\ FileFirst'
  BY <1>0, <1>3 DEF RunsAreOfJobs, FileFirst, Kinds
<1>6. JobsAreWhole' /\ ConfirmedIsFrozen' /\ PeriodIsOwn' /\ ExportedIsReal'
  <2>1. \A j \in Jobs : job[j].kind = "none" => job[j].status = "none"
    BY <1>0 DEF JobsAreWhole
  <2> QED BY <1>0, <1>2, <2>1, ReviewSame DEF ExportedIsReal
<1> QED BY <1>4, <1>5, <1>6 DEF IInv

LEMMA CrashStep ==
  ASSUME IInv, Crash
  PROVE  IInv'
<1>0. /\ TypeOK /\ RunsAreOfJobs /\ JobsAreWhole /\ FileFirst
      /\ ConfirmedIsFrozen /\ PeriodIsOwn /\ ExportedIsReal
      /\ UNCHANGED <<review, conf, art, files, job>>
      /\ up' = FALSE /\ run' = [k \in Kinds |-> Idle] /\ cancel' = NoCancel
  BY DEF IInv, Crash
<1>1. /\ Idle \in Run /\ Idle.pc = "idle"
      /\ cancel' \in [job: 0..NumJobs, stage: {"none", "write", "callback"}, queued: BOOLEAN]
      /\ cancel'.stage = "none"
  <2>1. 0 \in 0..NumJobs
    OBVIOUS
  <2> QED BY <1>0, <2>1 DEF Idle, Run, Stages, Outcomes, NoCancel
<1>2. budget' \in [edits: Nat, faults: Nat, cancels: Nat]
  BY <1>0, FaultSpends DEF Crash
<1>b. /\ seen' \in [asked: 0..NumJobs, foreign: BOOLEAN, left: BOOLEAN]
      /\ seen'.asked = seen.asked /\ seen'.foreign = seen.foreign
  <2> DEFINE x == seen.left \/ \E i \in Jobs : CallbackIsDue(i) /\ Period(i)
  <2>1. x \in BOOLEAN /\ seen' = [seen EXCEPT !.left = x]
    BY <1>0 DEF Crash, TypeOK
  <2> HIDE DEF x
  <2> QED BY <1>0, <2>1, Leaving
<1>3. TypeOK'
  BY <1>0, <1>1, <1>2, <1>b DEF TypeOK
<1>4. RunsAreOfJobs' /\ FileFirst'
  BY <1>0, <1>1 DEF RunsAreOfJobs, FileFirst, Kinds
<1>5. JobsAreWhole' /\ ConfirmedIsFrozen' /\ PeriodIsOwn' /\ ExportedIsReal'
  <2>1. \A j \in Jobs : job[j].kind = "none" => job[j].status = "none"
    BY <1>0 DEF JobsAreWhole
  <2> QED BY <1>0, <1>b, <2>1, ReviewSame DEF ExportedIsReal
<1> QED BY <1>3, <1>4, <1>5 DEF IInv

LEMMA RestartStep ==
  ASSUME IInv, Restart
  PROVE  IInv'
<1>0. /\ TypeOK /\ RunsAreOfJobs /\ JobsAreWhole /\ FileFirst
      /\ ConfirmedIsFrozen /\ PeriodIsOwn /\ ExportedIsReal
      /\ UNCHANGED <<review, conf, art, files, run, cancel, seen, budget>> /\ up' = TRUE
      /\ job' = [i \in Jobs |-> IF job[i].status = "running"
                                THEN [job[i] EXCEPT !.status = "queued"] ELSE job[i]]
  BY DEF IInv, Restart
<1>1. ASSUME NEW j \in Jobs
      PROVE  /\ job'[j] \in JobRow /\ job'[j].kind = job[j].kind /\ job'[j].art = job[j].art
             /\ job'[j].fallback = job[j].fallback /\ job'[j].expected = job[j].expected
             /\ job'[j].kind = "none" => job'[j].status = "none"
  <2>1. job[j] \in JobRow /\ (job[j].kind = "none" => job[j].status = "none")
    BY <1>0, Types DEF JobsAreWhole
  <2>2. job'[j] = IF job[j].status = "running" THEN [job[j] EXCEPT !.status = "queued"] ELSE job[j]
    BY <1>0
  <2> QED BY <2>1, <2>2 DEF JobRow, JobStatus
<1>2. job' \in [Jobs -> JobRow]
  BY <1>0, <1>1
<1>3. TypeOK'
  BY <1>0, <1>2 DEF TypeOK
<1>4. RunsAreOfJobs' /\ FileFirst'
  BY <1>0, <1>1, RunOf, Types DEF RunsAreOfJobs, FileFirst
<1>5. JobsAreWhole' /\ ConfirmedIsFrozen' /\ PeriodIsOwn' /\ ExportedIsReal'
  BY <1>0, <1>1, ReviewSame DEF ExportedIsReal
<1> QED BY <1>3, <1>4, <1>5 DEF IInv

LEMMA Stutter ==
  ASSUME IInv, UNCHANGED vars
  PROVE  IInv'
BY DEF IInv, vars, TypeOK, RunsAreOfJobs, JobsAreWhole, Period, FileFirst, ConfirmedIsFrozen,
       PeriodIsOwn, ExportedIsReal

----------------------------------------------------------------------------
(* The theorems *)

LEMMA Inductive == IInv /\ [Next]_vars => IInv'
<1> SUFFICES ASSUME IInv, [Next]_vars PROVE IInv'
  OBVIOUS
<1>1. CASE User
  BY <1>1, FactsChangeStep, NarrateStep, ConfirmStep, QueueCollectionStep, QueueExportStep,
     CancelReadStep
     DEF User, Select, AddEvidence, BindMetricTemplate, UpdateMetrics, UpdateScores
<1>2. CASE Cancelling
  BY <1>2, CancelWriteStep, QueuedCancellationStep DEF Cancelling
<1>3. "collect" \in Kinds /\ "export" \in Kinds
  BY DEF Kinds
<1>4. CASE Collect
  BY <1>3, <1>4, StartStep, CollectLoadStep, CollectCheckStep, CollectCommitStep, SettleStep,
     TerminalFailureStep DEF Collect
<1>5. CASE Export
  BY <1>3, <1>5, StartStep, ExportLoadStep, ExportClaimStep, ExportCheckStep, ExportCommitStep,
     SettleStep, TerminalFailureStep DEF Export
<1>6. CASE Faults \/ Restart
  BY <1>6, CallbackFailsStep, CrashStep, RestartStep, FailsStep DEF Faults
<1>7. CASE UNCHANGED vars
  BY <1>7, Stutter
<1> QED BY <1>1, <1>2, <1>4, <1>5, <1>6, <1>7 DEF Next

\* The inductive invariant holds in every state the service can reach.
THEOREM QuarterlyInvariant == Spec => []IInv
BY Initially, Inductive, PTL DEF Spec

\* The rows keep their types: no status and no reference outside the tables.
THEOREM TypeCorrect == Spec => []TypeOK
<1>1. IInv => TypeOK
  BY DEF IInv
<1> QED BY <1>1, QuarterlyInvariant, PTL

\* A review is shown as confirmed or exported exactly when it points to an active
\* confirmation that froze the facts and the narrative it has now, whatever
\* collections and exports end, fail or are cancelled meanwhile.
THEOREM ConfirmationFreezes == Spec => []ConfirmedIsFrozen
<1>1. IInv => ConfirmedIsFrozen
  BY DEF IInv
<1> QED BY <1>1, QuarterlyInvariant, PTL

\* A collecting period is ended by the user or by the job that was queued for it,
\* never by the late end of an earlier collection.
THEOREM PeriodsAreOwn == Spec => []PeriodIsOwn
<1>1. IInv => PeriodIsOwn
  BY DEF IInv
<1> QED BY <1>1, QuarterlyInvariant, PTL

\* What is exported has its file, and was exported from the confirmation shown.
THEOREM ExportsAreReal == Spec => []ExportedIsReal
<1>1. IInv => ExportedIsReal
  BY DEF IInv
<1> QED BY <1>1, QuarterlyInvariant, PTL

----------------------------------------------------------------------------
(* What a review says (QuarterlyDraft), for any sources, templates and      *)
(* scores and any bounds.  Its variables have names of their own here.      *)

CONSTANTS Tasks, Evidence, Reports, Metrics, None, Facts, Template, Scores, MaxChanges,
          MaxDraftEdits, MaxTicks

VARIABLES fact, hashes, weekly, collecting, achievement, draft, score, narrative, confirmation,
          attempt, offers, auto, current, left

Draft == INSTANCE QuarterlyDraft WITH review <- draft, run <- collecting, budget <- left,
           MaxEdits <- MaxDraftEdits

Budget == [changes: 0..MaxChanges, edits: 0..MaxDraftEdits, ticks: 0..MaxTicks]

\* Every request, event and tick is paid for.
LEMMA DraftSpends ==
  ASSUME Draft!QuarterlyDraftAssumption, left \in Budget
  PROVE  /\ Draft!Edit => left' \in Budget
         /\ Draft!Event => left' \in Budget
         /\ left.ticks > 0 /\ left' = [left EXCEPT !.ticks = @ - 1] => left' \in Budget
<1> USE DEF Draft!QuarterlyDraftAssumption, Budget
<1>1. left.edits > 0 => left.edits - 1 \in 0..MaxDraftEdits
  OBVIOUS
<1>2. left.changes > 0 => left.changes - 1 \in 0..MaxChanges
  OBVIOUS
<1>3. left.ticks > 0 => left.ticks - 1 \in 0..MaxTicks
  OBVIOUS
<1> QED BY <1>1, <1>2, <1>3 DEF Draft!Edit, Draft!Event

\* The achievements of a review with template x.
Achieved(as, x) == as = [k \in DOMAIN as |-> as[k]] /\ \A k \in DOMAIN as : Draft!Achievement(as[k], x)

Scored == [Metrics -> [user: Scores \union {None}, ai: Scores \union {None}]]

\* Those of the review as it is.
LEMMA AchievedNow ==
  ASSUME Draft!TypeOK
  PROVE  Achieved(achievement, draft.template)
BY DEF Draft!TypeOK, Achieved, Draft!Keys

\* What a request makes of an achievement.
LEMMA Rewritten ==
  ASSUME NEW a, NEW x, Draft!Achievement(a, x)
  PROVE  /\ \A v \in {"collected", "typed"} : Draft!Achievement([a EXCEPT !.text = v], x)
         /\ \A v \in Draft!Selections : Draft!Achievement([a EXCEPT !.select = v], x)
         /\ \A y, v : v \subseteq Draft!MetricsOf(y) => Draft!Achievement([a EXCEPT !.metrics = v], y)
         /\ \A v \in Draft!Levels : \A e : e = [y \in DOMAIN e |-> e[y]] /\ Draft!OnePrimary(e) =>
              Draft!Achievement([a EXCEPT !.ev = e, !.level = v], x)
<1>1. \A v \in {"collected", "typed"} : Draft!Achievement([a EXCEPT !.text = v], x)
  BY DEF Draft!Achievement
<1>2. \A v \in Draft!Selections : Draft!Achievement([a EXCEPT !.select = v], x)
  BY DEF Draft!Achievement
<1>3. \A y, v : v \subseteq Draft!MetricsOf(y) => Draft!Achievement([a EXCEPT !.metrics = v], y)
  BY DEF Draft!Achievement
<1>4. ASSUME NEW v \in Draft!Levels, NEW e, e = [y \in DOMAIN e |-> e[y]] /\ Draft!OnePrimary(e)
      PROVE  Draft!Achievement([a EXCEPT !.ev = e, !.level = v], x)
  BY <1>4 DEF Draft!Achievement
<1> QED BY <1>1, <1>2, <1>3, <1>4

\* One of them replaced.
LEMMA Replaced ==
  ASSUME NEW as, NEW x, Achieved(as, x), NEW k \in DOMAIN as, NEW b, Draft!Achievement(b, x)
  PROVE  Achieved([as EXCEPT ![k] = b], x)
BY DEF Achieved

\* What AddEvidence makes of an achievement.
WithLink(a, e, p, v) ==
  [a EXCEPT !.ev = [y \in DOMAIN @ \union {e} |-> IF y = e THEN Draft!Row(p, v) ELSE @[y]],
            !.level = IF v THEN "complete" ELSE IF @ = "needs_evidence" THEN "partial" ELSE @]

\* A first main evidence is the only one.
LEMMA Linking ==
  ASSUME NEW a, NEW x, Draft!Achievement(a, x), NEW e, e \notin DOMAIN a.ev,
         NEW p, NEW v \in BOOLEAN, p => ~Draft!HasPrimary(a.ev)
  PROVE  Draft!Achievement(WithLink(a, e, p, v), x)
<1> DEFINE ev == [y \in DOMAIN a.ev \union {e} |-> IF y = e THEN Draft!Row(p, v) ELSE a.ev[y]]
           level == IF v THEN "complete" ELSE IF a.level = "needs_evidence" THEN "partial" ELSE a.level
<1>1. Draft!OnePrimary(ev)
  BY DEF Draft!Achievement, Draft!OnePrimary, Draft!HasPrimary, Draft!Row
<1>2. level \in Draft!Levels
  BY DEF Draft!Achievement, Draft!Levels
<1>3. ev = [y \in DOMAIN ev |-> ev[y]]
  OBVIOUS
<1> HIDE DEF ev, level
<1>4. Draft!Achievement([a EXCEPT !.ev = ev, !.level = level], x)
  BY <1>1, <1>2, <1>3, Rewritten
<1> QED BY <1>4 DEF ev, level, WithLink

\* Some of them selected, as the schedule does.
LEMMA Chosen ==
  ASSUME NEW as, NEW x, Achieved(as, x), NEW cs
  PROVE  Achieved([k \in DOMAIN as |->
               IF k \in cs THEN [as[k] EXCEPT !.select = "selected"] ELSE as[k]], x)
<1>1. "selected" \in Draft!Selections
  BY DEF Draft!Selections
<1>2. \A k \in DOMAIN as : Draft!Achievement([as[k] EXCEPT !.select = "selected"], x)
  BY <1>1, Rewritten DEF Achieved
<1> QED BY <1>2 DEF Achieved

\* Another template.
LEMMA Rebound ==
  ASSUME NEW as, NEW x, Achieved(as, x), NEW y
  PROVE  Achieved([k \in DOMAIN as |-> [as[k] EXCEPT !.metrics = @ \intersect Draft!MetricsOf(y)]], y)
<1>1. \A k \in DOMAIN as : Draft!Achievement([as[k] EXCEPT !.metrics = as[k].metrics \intersect Draft!MetricsOf(y)], y)
  BY Rewritten DEF Achieved
<1> QED BY <1>1 DEF Achieved

\* One that is typed.
LEMMA Added ==
  ASSUME NEW as, NEW x, Achieved(as, x), NEW n
  PROVE  Achieved([k \in DOMAIN as \union {n} |-> IF k = n THEN Draft!Typed ELSE as[k]], x)
<1>1. Draft!Achievement(Draft!Typed, x)
  BY DEF Draft!Achievement, Draft!Typed, Draft!Selections, Draft!Levels, Draft!OnePrimary
<1> QED BY <1>1 DEF Achieved

----------------------------------------------------------------------------
(* What is collected: candidates, new or merged into an achievement *)

CandidateLike(c) ==
  /\ c = [level |-> c.level, ev |-> c.ev] /\ c.ev = [y \in DOMAIN c.ev |-> c.ev[y]]
  /\ \A y \in DOMAIN c.ev : c.ev[y] = Draft!Row(c.ev[y].primary, c.ev[y].available)
  /\ Draft!OnePrimary(c.ev) /\ c.level \in Draft!Levels

\* Whatever is collected has a level and one main evidence at most.
LEMMA CandidatesAre ==
  ASSUME NEW f, NEW s
  PROVE  LET cs == Draft!Candidates(f, s) IN
         cs = [k \in DOMAIN cs |-> cs[k]] /\ \A k \in DOMAIN cs : CandidateLike(cs[k])
<1>1. ASSUME NEW g PROVE CandidateLike(Draft!Cluster(f, s, g))
  BY DEF Draft!Cluster, CandidateLike, Draft!OnePrimary, Draft!Row, Draft!Levels
<1>2. ASSUME NEW l \in Draft!Levels, NEW x, NEW v PROVE CandidateLike(Draft!Alone(l, x, v))
  BY DEF Draft!Alone, CandidateLike, Draft!OnePrimary, Draft!Row
<1>3. "partial" \in Draft!Levels /\ "complete" \in Draft!Levels /\ "needs_evidence" \in Draft!Levels
  BY DEF Draft!Levels
<1>4. ASSUME NEW k \in Draft!CandidateKeys(f, s) PROVE CandidateLike(Draft!Candidate(f, s, k))
  <2>1. k[1] = "cluster" \/ k[1] = "identity" \/ k[1] = "report"
    BY DEF Draft!CandidateKeys
  <2>2. CASE k[1] = "cluster"
    BY <1>1, <2>2 DEF Draft!Candidate
  <2>3. CASE k[1] = "identity"
    BY <1>2, <1>3, <2>3 DEF Draft!Candidate
  <2>4. CASE k[1] = "report"
    BY <1>2, <1>3, <2>4 DEF Draft!Candidate
  <2> QED BY <2>1, <2>2, <2>3, <2>4
<1> QED BY <1>4 DEF Draft!Candidates

\* A candidate becomes an achievement.
LEMMA NewIs ==
  ASSUME NEW c, CandidateLike(c), NEW x
  PROVE  Draft!Achievement(Draft!New(c), x)
BY DEF CandidateLike, Draft!New, Draft!Achievement, Draft!Selections

\* An achievement that is collected again keeps what it has.
LEMMA AgainIs ==
  ASSUME NEW c, CandidateLike(c), NEW x, NEW a, Draft!Achievement(a, x)
  PROVE  /\ Draft!Achievement(Draft!Again(a, c), x)
         /\ Draft!Keeps(a, Draft!Again(a, c))
<1> DEFINE ev == [y \in DOMAIN a.ev \union DOMAIN c.ev |->
                    IF y \in DOMAIN a.ev THEN a.ev[y]
                    ELSE [c.ev[y] EXCEPT !.primary = @ /\ ~Draft!HasPrimary(a.ev)]]
           level == IF c.level = "complete" \/ (c.level = "partial" /\ a.level = "needs_evidence")
                    THEN c.level ELSE a.level
<1>0. Draft!Again(a, c) = [a EXCEPT !.ev = ev, !.level = level]
  BY DEF Draft!Again
<1>1. Draft!OnePrimary(ev)
  <2>1. ASSUME NEW y \in DOMAIN c.ev, y \notin DOMAIN a.ev, ev[y].primary
        PROVE  c.ev[y].primary /\ ~Draft!HasPrimary(a.ev)
    <3>1. c.ev[y] = Draft!Row(c.ev[y].primary, c.ev[y].available)
      BY DEF CandidateLike
    <3>2. ev[y] = [c.ev[y] EXCEPT !.primary = @ /\ ~Draft!HasPrimary(a.ev)]
      BY <2>1
    <3>3. ev[y].primary = (c.ev[y].primary /\ ~Draft!HasPrimary(a.ev))
      BY <3>1, <3>2 DEF Draft!Row
    <3> QED BY <2>1, <3>3
  <2>2. ASSUME NEW y \in DOMAIN a.ev PROVE ev[y] = a.ev[y]
    OBVIOUS
  <2>3. DOMAIN ev = DOMAIN a.ev \union DOMAIN c.ev
    OBVIOUS
  <2> HIDE DEF ev
  <2>4. Draft!OnePrimary(a.ev) /\ Draft!OnePrimary(c.ev)
    BY DEF Draft!Achievement, CandidateLike
  <2> QED BY <2>1, <2>2, <2>3, <2>4 DEF Draft!OnePrimary, Draft!HasPrimary
<1>2. level \in Draft!Levels /\ Draft!Rank[level] >= Draft!Rank[a.level]
  BY DEF CandidateLike, Draft!Achievement, Draft!Levels, Draft!Rank
<1>4. DOMAIN ev = DOMAIN a.ev \union DOMAIN c.ev /\ \A y \in DOMAIN a.ev : ev[y] = a.ev[y]
  OBVIOUS
<1>5. ev = [y \in DOMAIN ev |-> ev[y]]
  OBVIOUS
<1> HIDE DEF ev, level
<1>6. Draft!Achievement([a EXCEPT !.ev = ev, !.level = level], x)
  BY <1>1, <1>2, <1>5, Rewritten
<1>7. Draft!Again(a, c).ev = ev /\ Draft!Again(a, c).level = level
  BY <1>0 DEF Draft!Achievement
<1>8. [Draft!Again(a, c) EXCEPT !.ev = a.ev, !.level = a.level] = a
  BY <1>0 DEF Draft!Achievement
<1>9. Draft!Achievement(Draft!Again(a, c), x)
  BY <1>0, <1>6
<1> QED BY <1>2, <1>4, <1>7, <1>8, <1>9 DEF Draft!Keeps

\* The achievements after a collection.
LEMMA MergedIs ==
  ASSUME NEW cs, cs = [k \in DOMAIN cs |-> cs[k]], \A k \in DOMAIN cs : CandidateLike(cs[k]),
         NEW x, Achieved(achievement, x)
  PROVE  /\ Achieved(Draft!Merged(cs), x) /\ DOMAIN Draft!Merged(cs) = Draft!Keys \union DOMAIN cs
         /\ \A k \in Draft!Keys : Draft!Merged(cs)[k] \in {achievement[k], Draft!Again(achievement[k], cs[k])}
         /\ \A k \in Draft!Keys : k \notin DOMAIN cs => Draft!Merged(cs)[k] = achievement[k]
BY NewIs, AgainIs DEF Draft!Merged, Achieved, Draft!Keys

----------------------------------------------------------------------------
(* Types *)

\* What the review becomes.
LEMMA Stamped ==
  ASSUME Draft!TypeOK, NEW status \in Draft!Statuses
  PROVE  /\ LET r == [draft EXCEPT !.status = status] IN
            Draft!Review(r) /\ r.template = draft.template /\ r.status = status /\ r.checks = draft.checks
         /\ draft' = [draft EXCEPT !.status = status, !.checks = Draft!NoChecks] =>
              Draft!Review(draft') /\ draft'.template = draft.template /\ draft'.checks.counts = Draft!NoCounts
         /\ \A f \in {"not_collected", "stale_ack_required", "fresh"} :
              draft' = [draft EXCEPT !.status = status, !.checks = [fresh |-> f, counts |-> Draft!NoCounts]] =>
                Draft!Review(draft') /\ draft'.template = draft.template /\ draft'.checks.counts = Draft!NoCounts
<1>1. Draft!Review(draft)
  BY DEF Draft!TypeOK
<1>2. LET r == [draft EXCEPT !.status = status] IN
      Draft!Review(r) /\ r.template = draft.template /\ r.status = status /\ r.checks = draft.checks
  BY <1>1 DEF Draft!Review
<1>3. ASSUME draft' = [draft EXCEPT !.status = status, !.checks = Draft!NoChecks]
      PROVE  Draft!Review(draft') /\ draft'.template = draft.template /\ draft'.checks.counts = Draft!NoCounts
  BY <1>1, <1>3 DEF Draft!Review, Draft!NoChecks
<1>4. ASSUME NEW f \in {"not_collected", "stale_ack_required", "fresh"},
             draft' = [draft EXCEPT !.status = status, !.checks = [fresh |-> f, counts |-> Draft!NoCounts]]
      PROVE  Draft!Review(draft') /\ draft'.template = draft.template /\ draft'.checks.counts = Draft!NoCounts
  BY <1>1, <1>4 DEF Draft!Review
<1> QED BY <1>2, <1>3, <1>4

\* A write of the review with achievements, template and scores of their types.
LEMMA Bumped ==
  ASSUME Draft!TypeOK, NEW status \in Draft!Statuses \ {"confirmed"},
         NEW x \in DOMAIN Template \union {None}, NEW as,
         Achieved(as, x), NEW scores \in Scored, Draft!Bump(status, x, as, scores), left' \in Budget,
         UNCHANGED <<Draft!Sourced, narrative, Draft!Asked>>
  PROVE  Draft!TypeOK'
<1>1. /\ achievement' = [k \in Draft!Keys' |-> achievement'[k]]
      /\ \A k \in Draft!Keys' : Draft!Achievement(achievement'[k], draft'.template)
  BY DEF Draft!Bump, Achieved, Draft!Keys
<1>2. Draft!Review(draft')
  BY DEF Draft!Bump, Draft!TypeOK, Draft!Review
<1>3. confirmation' # None => draft'.status = "confirmed"
  BY DEF Draft!Bump
<1>4. score' \in Scored /\ current' = {}
  BY DEF Draft!Bump
<1> QED BY <1>1, <1>2, <1>3, <1>4 DEF Draft!TypeOK, Draft!Sourced, Draft!Asked, Scored, Budget

\* The user's changes of achievements, template and scores.
LEMMA UserTypes ==
  ASSUME Draft!QuarterlyDraftAssumption, Draft!TypeOK
  PROVE  /\ Draft!CreateManual => Draft!TypeOK'
         /\ \A k \in Draft!Keys : Draft!Update(k) => Draft!TypeOK'
         /\ \A k \in Draft!Keys, c \in Draft!Selections : Draft!Select(k, c) => Draft!TypeOK'
         /\ \A k \in Draft!Keys : \A e : \A p, v \in BOOLEAN : Draft!AddEvidence(k, e, p, v) => Draft!TypeOK'
         /\ \A k \in Draft!Keys : \A ms : Draft!Map(k, ms) => Draft!TypeOK'
         /\ \A x \in DOMAIN Template : Draft!BindTemplate(x) => Draft!TypeOK'
         /\ \A m \in Metrics, v \in Scores \union {None} : Draft!UpdateScore(m, v) => Draft!TypeOK'
<1>1. Achieved(achievement, draft.template) /\ score \in Scored /\ draft.template \in DOMAIN Template \union {None}
  BY AchievedNow DEF Draft!TypeOK, Draft!Review, Scored
<1>2. Draft!Edit => left' \in Budget
  BY DraftSpends DEF Draft!TypeOK, Budget
<1>3. {"selecting", "scoring"} \subseteq Draft!Statuses \ {"confirmed"}
  BY DEF Draft!Statuses
<1>4. ASSUME NEW status \in {"selecting", "scoring"}, NEW as, Achieved(as, draft.template),
             Draft!Changed(status, as)
      PROVE  Draft!TypeOK'
  BY <1>1, <1>2, <1>3, <1>4, Bumped DEF Draft!Changed
<1>5. ASSUME Draft!CreateManual PROVE Draft!TypeOK'
  BY <1>1, <1>4, <1>5, Added DEF Draft!CreateManual, Draft!Keys
<1>6. ASSUME NEW k \in Draft!Keys PROVE Draft!Achievement(achievement[k], draft.template)
  BY <1>1, <1>6 DEF Achieved, Draft!Keys
<1>7. ASSUME NEW k \in Draft!Keys, NEW b, Draft!Achievement(b, draft.template)
      PROVE  Achieved([achievement EXCEPT ![k] = b], draft.template)
  BY <1>1, <1>7, Replaced DEF Draft!Keys
<1>8. ASSUME NEW k \in Draft!Keys, Draft!Update(k) PROVE Draft!TypeOK'
  <2>1. Achieved([achievement EXCEPT ![k].text = "typed"], draft.template)
    BY <1>6, <1>7, Rewritten
  <2> QED BY <1>4, <1>8, <2>1 DEF Draft!Update
<1>9. ASSUME NEW k \in Draft!Keys, NEW c \in Draft!Selections, Draft!Select(k, c)
        PROVE Draft!TypeOK'
  <2>1. Achieved([achievement EXCEPT ![k].select = c], draft.template)
    BY <1>6, <1>7, Rewritten
  <2> QED BY <1>4, <1>9, <2>1 DEF Draft!Select
<1>10. ASSUME NEW k \in Draft!Keys, NEW e, NEW p \in BOOLEAN, NEW v \in BOOLEAN,
              Draft!AddEvidence(k, e, p, v) PROVE Draft!TypeOK'
  <2>1. e \notin DOMAIN achievement[k].ev /\ (p => ~Draft!HasPrimary(achievement[k].ev))
    BY <1>10 DEF Draft!AddEvidence
  <2> DEFINE b == WithLink(achievement[k], e, p, v)
  <2>2. Draft!Achievement(b, draft.template)
    BY <1>6, <2>1, Linking
  <2>3. Achieved([achievement EXCEPT ![k] = b], draft.template)
    BY <1>7, <2>2
  <2>4. Draft!Changed("selecting", [achievement EXCEPT ![k] = b])
    BY <1>1, <1>10 DEF Draft!AddEvidence, Draft!Keys, Achieved, WithLink
  <2> QED BY <1>4, <2>3, <2>4
<1>11. ASSUME NEW k \in Draft!Keys, NEW ms, Draft!Map(k, ms) PROVE Draft!TypeOK'
  <2>1. Achieved([achievement EXCEPT ![k].metrics = ms], draft.template)
    BY <1>6, <1>7, <1>11, Rewritten DEF Draft!Map
  <2> QED BY <1>4, <1>11, <2>1 DEF Draft!Map
<1>12. ASSUME NEW x \in DOMAIN Template, Draft!BindTemplate(x) PROVE Draft!TypeOK'
  <2> DEFINE as == [k \in DOMAIN achievement |-> [achievement[k] EXCEPT !.metrics = @ \intersect Draft!MetricsOf(x)]]
  <2>1. Achieved(as, x)
    BY <1>1, Rebound
  <2>2. Draft!Edit /\ Draft!Bump("scoring", x, as, score) /\ UNCHANGED <<Draft!Sourced, narrative, Draft!Asked>>
    BY <1>12 DEF Draft!BindTemplate
  <2> HIDE DEF as
  <2> QED BY <1>1, <1>2, <1>3, <2>1, <2>2, Bumped
<1>13. ASSUME NEW m \in Metrics, NEW v \in Scores \union {None}, Draft!UpdateScore(m, v)
         PROVE Draft!TypeOK'
  <2>1. [score EXCEPT ![m].user = v] \in Scored
    BY <1>1 DEF Scored
  <2> QED BY <1>1, <1>2, <1>3, <1>13, <2>1, Bumped DEF Draft!UpdateScore
<1> QED BY <1>5, <1>8, <1>9, <1>10, <1>11, <1>12, <1>13

\* A step that leaves the achievements and the template alone.
LEMMA Unmoved ==
  ASSUME Draft!TypeOK, UNCHANGED achievement, draft'.template = draft.template
  PROVE  /\ achievement' = [k \in Draft!Keys' |-> achievement'[k]]
         /\ \A k \in Draft!Keys' : Draft!Achievement(achievement'[k], draft'.template)
BY DEF Draft!TypeOK, Draft!Keys

\* A new text.
LEMMA TextTypes ==
  ASSUME Draft!TypeOK, NEW text, NEW by \in {"rule", "user"}, Draft!NewText(text, by),
         left' \in Budget, UNCHANGED auto,
         attempt' = [w \in Draft!Who |-> attempt'[w]],
         \A w \in Draft!Who : attempt'[w] # None =>
           attempt'[w] \in [purpose: {"narrative", "scores", "adopt"}, sent: {attempt'[w].sent}]
  PROVE  Draft!TypeOK'
<1>1. /\ Draft!Review(draft') /\ draft'.template = draft.template /\ UNCHANGED achievement
  BY Stamped DEF Draft!NewText, Draft!Statuses
<1> QED BY <1>1, Unmoved DEF Draft!NewText, Draft!TypeOK, Draft!Sourced, Budget

\* The texts of the user.
LEMMA Writing ==
  ASSUME Draft!QuarterlyDraftAssumption, Draft!TypeOK
  PROVE  /\ Draft!CreateRuleNarrative => Draft!TypeOK'
         /\ \A ks : Draft!CreateManualNarrative(ks) => Draft!TypeOK'
         /\ Draft!RestoreNarrative => Draft!TypeOK'
         /\ Draft!AdoptAi => Draft!TypeOK'
         /\ Draft!RejectAi => Draft!TypeOK'
<1>1. Draft!Edit => left' \in Budget
  BY DraftSpends DEF Draft!TypeOK, Budget
<1>2. UNCHANGED attempt =>
        /\ attempt' = [w \in Draft!Who |-> attempt'[w]]
        /\ \A w \in Draft!Who : attempt'[w] # None =>
             attempt'[w] \in [purpose: {"narrative", "scores", "adopt"}, sent: {attempt'[w].sent}]
  BY DEF Draft!TypeOK
<1>3. ASSUME Draft!CreateRuleNarrative PROVE Draft!TypeOK'
  BY <1>1, <1>2, <1>3, TextTypes DEF Draft!CreateRuleNarrative, Draft!RuleNarrative, Draft!Asked
<1>4. ASSUME NEW ks, Draft!CreateManualNarrative(ks) PROVE Draft!TypeOK'
  BY <1>1, <1>2, <1>4, TextTypes DEF Draft!CreateManualNarrative, Draft!Asked
<1>5. ASSUME Draft!RestoreNarrative PROVE Draft!TypeOK'
  BY <1>1, <1>2, <1>5, TextTypes DEF Draft!RestoreNarrative, Draft!Asked
<1>6. ASSUME Draft!AdoptAi PROVE Draft!TypeOK'
  BY <1>1, <1>2, <1>6, TextTypes DEF Draft!AdoptAi
<1>7. ASSUME Draft!RejectAi PROVE Draft!TypeOK'
  BY <1>1, <1>7, Unmoved DEF Draft!RejectAi, Draft!TypeOK, Budget, Draft!Sourced
<1> QED BY <1>3, <1>4, <1>5, <1>6, <1>7

\* The confirmation.
LEMMA ConfirmTypes ==
  ASSUME Draft!QuarterlyDraftAssumption, Draft!TypeOK, NEW acks, Draft!Confirm(acks)
  PROVE  Draft!TypeOK'
<1>1. left' \in Budget
  BY DraftSpends DEF Draft!TypeOK, Budget, Draft!Confirm
<1>2. /\ Draft!Review(draft') /\ draft'.template = draft.template /\ UNCHANGED achievement /\ draft'.status = "confirmed"
  BY Stamped DEF Draft!Confirm, Draft!Statuses
<1> QED BY <1>1, <1>2, Unmoved DEF Draft!Confirm, Draft!TypeOK, Draft!Sourced, Draft!Asked, Budget

\* The sources and the collection; its end knows that nothing is confirmed (see InStep).
LEMMA CollectTypes ==
  ASSUME Draft!QuarterlyDraftAssumption, Draft!TypeOK
  PROVE  /\ Draft!SourceChanges => Draft!TypeOK'
         /\ Draft!NewWeek => Draft!TypeOK'
         /\ \A s, mode : Draft!Collect(s, mode) => Draft!TypeOK'
         /\ Draft!CollectionReads => Draft!TypeOK'
         /\ Draft!CollectionEnds /\ confirmation = None => Draft!TypeOK'
         /\ Draft!CollectionStops /\ confirmation = None => Draft!TypeOK'
         /\ Draft!CollectionIsStale => Draft!TypeOK'
<1>1. /\ Draft!Edit => left' \in Budget
      /\ Draft!Event => left' \in Budget
  BY DraftSpends DEF Draft!TypeOK, Budget
<1>2. ASSUME Draft!SourceChanges PROVE Draft!TypeOK'
  BY <1>1, <1>2, Unmoved DEF Draft!SourceChanges, Draft!TypeOK, Budget, Draft!Asked
<1>3. ASSUME Draft!NewWeek PROVE Draft!TypeOK'
  BY <1>1, <1>3, Unmoved DEF Draft!NewWeek, Draft!TypeOK, Budget, Draft!Asked
<1>4. ASSUME NEW s, NEW mode, Draft!Collect(s, mode) PROVE Draft!TypeOK'
  <2>1. /\ Draft!Review(draft') /\ draft'.template = draft.template /\ UNCHANGED achievement
    BY <1>4, Stamped DEF Draft!Collect, Draft!Queued, Draft!Statuses
  <2>2. collecting' \in [sources: {collecting'.sources}, mode: {collecting'.mode}, read: {collecting'.read}, fallback: Draft!Statuses]
    BY <1>4 DEF Draft!Collect, Draft!Queued, Draft!TypeOK, Draft!Review, Draft!Statuses
  <2> QED BY <1>1, <1>4, <2>1, <2>2, Unmoved DEF Draft!Collect, Draft!Queued, Draft!TypeOK, Budget,
             Draft!Asked
<1>5. ASSUME Draft!CollectionReads PROVE Draft!TypeOK'
  <2>1. collecting' \in [sources: {collecting'.sources}, mode: {collecting'.mode}, read: {collecting'.read}, fallback: Draft!Statuses]
    BY <1>5 DEF Draft!CollectionReads, Draft!TypeOK
  <2> QED BY <1>5, <2>1, Unmoved DEF Draft!CollectionReads, Draft!TypeOK, Draft!Asked
<1>6. ASSUME Draft!CollectionEnds, confirmation = None PROVE Draft!TypeOK'
  <2>1. /\ Draft!Review(draft') /\ draft'.template = draft.template
    <3>1. \/ draft' = [draft EXCEPT !.status = "collection_failed", !.checks = Draft!NoChecks]
          \/ \E f \in {"not_collected", "stale_ack_required", "fresh"} :
               draft' = [draft EXCEPT !.status = "candidates_ready", !.checks = [fresh |-> f, counts |-> Draft!NoCounts]]
      BY <1>6 DEF Draft!CollectionEnds
    <3>2. "collection_failed" \in Draft!Statuses /\ "candidates_ready" \in Draft!Statuses
      BY DEF Draft!Statuses
    <3> QED BY <3>1, <3>2, Stamped
  <2>2. /\ achievement' = [k \in Draft!Keys' |-> achievement'[k]]
        /\ \A k \in Draft!Keys' : Draft!Achievement(achievement'[k], draft.template)
    <3>1. UNCHANGED achievement \/ achievement' = Draft!Merged(Draft!Candidates(collecting.read.f, collecting.sources))
      BY <1>6 DEF Draft!CollectionEnds
    <3>2. Achieved(Draft!Merged(Draft!Candidates(collecting.read.f, collecting.sources)), draft.template)
      BY CandidatesAre, MergedIs, AchievedNow
    <3> QED BY <3>1, <3>2, AchievedNow DEF Achieved, Draft!Keys
  <2>3. weekly' \in BOOLEAN
    BY <1>6 DEF Draft!CollectionEnds, Draft!TypeOK
  <2> QED BY <1>6, <2>1, <2>2, <2>3 DEF Draft!CollectionEnds, Draft!TypeOK, Draft!Asked
<1>7. ASSUME Draft!CollectionStops, confirmation = None PROVE Draft!TypeOK'
  <2>1. /\ Draft!Review(draft') /\ draft'.template = draft.template /\ UNCHANGED achievement
    <3>1. \/ draft' = [draft EXCEPT !.status = collecting.fallback]
          \/ draft' = [draft EXCEPT !.status = "collection_failed", !.checks = Draft!NoChecks]
      BY <1>7 DEF Draft!CollectionStops
    <3>2. "collection_failed" \in Draft!Statuses /\ collecting.fallback \in Draft!Statuses /\ UNCHANGED achievement
      BY <1>7 DEF Draft!CollectionStops, Draft!TypeOK, Draft!Statuses
    <3> QED BY <3>1, <3>2, Stamped
  <2> QED BY <1>1, <1>7, <2>1, Unmoved DEF Draft!CollectionStops, Draft!TypeOK, Budget, Draft!Asked
<1>8. ASSUME Draft!CollectionIsStale PROVE Draft!TypeOK'
  BY <1>8, Unmoved DEF Draft!CollectionIsStale, Draft!TypeOK, Draft!Asked
<1> QED BY <1>2, <1>3, <1>4, <1>5, <1>6, <1>7, <1>8

\* A request to the AI, and those of the user and the schedule.
Attempt(a) == a # None => a \in [purpose: {"narrative", "scores", "adopt"}, sent: {a.sent}]
Attempts(f) == f = [w \in Draft!Who |-> f[w]] /\ \A w \in Draft!Who : Attempt(f[w])

\* Whatever is asked next.
LEMMA Asking ==
  ASSUME Draft!TypeOK, NEW w \in Draft!Who
  PROVE  /\ Attempts(attempt) /\ Attempts([attempt EXCEPT ![w] = None])
         /\ \A p \in {"narrative", "scores", "adopt"} : \A x :
              Attempts([attempt EXCEPT ![w] = [purpose |-> p, sent |-> x]])
         /\ attempt[w] # None => \A x : Attempts([attempt EXCEPT ![w] = [attempt[w] EXCEPT !.sent = x]])
<1>1. Attempts(attempt)
  BY DEF Draft!TypeOK, Attempts, Attempt
<1>2. \A p \in {"narrative", "scores", "adopt"} : \A x : Attempt([purpose |-> p, sent |-> x])
  BY DEF Attempt
<1>3. \A x : attempt[w] # None => Attempt([attempt[w] EXCEPT !.sent = x])
  BY <1>1 DEF Attempt, Attempts
<1>4. ASSUME NEW a, Attempt(a) PROVE Attempts([attempt EXCEPT ![w] = a])
  BY <1>1, <1>4 DEF Attempts
<1>5. Attempt(None)
  BY DEF Attempt
<1> QED BY <1>1, <1>2, <1>3, <1>4, <1>5

\* A step that changes only what is asked, offered and scored.
LEMMA AskTypes ==
  ASSUME Draft!TypeOK, Attempts(attempt'), auto' \in {"idle", "select", "text", "adopt", "scores"},
         current' \subseteq {"run", "auto", "user", "written", "suggested"},
         left' \in Budget, score' \in Scored,
         UNCHANGED <<Draft!Sourced, achievement, draft, narrative, confirmation>>
  PROVE  Draft!TypeOK'
BY Unmoved DEF Draft!TypeOK, Attempts, Attempt, Budget, Scored, Draft!Sourced

\* The AI, for the user and for the schedule.
LEMMA AiTypes ==
  ASSUME Draft!QuarterlyDraftAssumption, Draft!TypeOK
  PROVE  /\ \A p \in {"narrative", "scores"} : Draft!AskAi(p) => Draft!TypeOK'
         /\ \A w \in Draft!Who : Draft!Load(w) => Draft!TypeOK'
         /\ \A w \in Draft!Who : Draft!Fails(w) => Draft!TypeOK'
         /\ \A w \in Draft!Who : Draft!Dropped(w) => Draft!TypeOK'
         /\ \A w \in Draft!Who : \A cites : Draft!Writes(w, cites) => Draft!TypeOK'
         /\ \A w \in Draft!Who, v \in Scores : \A cites : Draft!Suggests(w, v, cites) => Draft!TypeOK'
<1>1. /\ left \in Budget /\ score \in Scored /\ auto \in {"idle", "select", "text", "adopt", "scores"}
      /\ current \subseteq {"run", "auto", "user", "written", "suggested"}
      /\ Draft!Edit => left' \in Budget
  BY DraftSpends DEF Draft!TypeOK, Budget, Scored
<1>2. ASSUME NEW p \in {"narrative", "scores"}, Draft!AskAi(p) PROVE Draft!TypeOK'
  <2>1. Attempts(attempt')
    BY <1>2, Asking DEF Draft!AskAi, Draft!Asks, Draft!Who
  <2> QED BY <1>1, <1>2, <2>1, AskTypes DEF Draft!AskAi, Draft!Asks
<1>3. ASSUME NEW w \in Draft!Who, Draft!Load(w) PROVE Draft!TypeOK'
  <2>1. Attempts(attempt')
    BY <1>3, Asking DEF Draft!Load
  <2> QED BY <1>1, <1>3, <2>1, AskTypes DEF Draft!Load
<1>4. ASSUME NEW w \in Draft!Who, NEW p, NEW ok \in BOOLEAN, Draft!GoesOn(w, p, ok)
      PROVE  auto' \in {"idle", "select", "text", "adopt", "scores"}
  BY <1>1, <1>4 DEF Draft!GoesOn
<1>5. ASSUME NEW w \in Draft!Who, Draft!Fails(w) PROVE Draft!TypeOK'
  <2>1. Attempts(attempt') /\ auto' \in {"idle", "select", "text", "adopt", "scores"}
    BY <1>4, <1>5, Asking DEF Draft!Fails
  <2>2. UNCHANGED <<offers, left>>
    BY <1>5 DEF Draft!Fails
  <2>3. Draft!RuleNarrative \/ UNCHANGED <<Draft!Sourced, achievement, draft, score, narrative, confirmation, current>>
    BY <1>5 DEF Draft!Fails
  <2>4. CASE Draft!RuleNarrative
    <3>1. PICK text : Draft!NewText(text, "rule")
      BY <2>4 DEF Draft!RuleNarrative
    <3>2. Draft!Review(draft') /\ draft'.template = draft.template /\ UNCHANGED achievement
      BY <3>1, Stamped DEF Draft!NewText, Draft!Statuses
    <3> QED BY <1>1, <2>1, <2>2, <3>1, <3>2, Unmoved DEF Draft!NewText, Draft!TypeOK,
               Draft!Sourced, Budget, Attempts, Attempt
  <2> QED BY <1>1, <2>1, <2>2, <2>3, <2>4, AskTypes
<1>6. ASSUME NEW w \in Draft!Who, Draft!Dropped(w) PROVE Draft!TypeOK'
  BY <1>1, <1>6, Asking, AskTypes DEF Draft!Dropped
<1>7. ASSUME NEW w \in Draft!Who, NEW cites, Draft!Writes(w, cites) PROVE Draft!TypeOK'
  <2>1. Attempts(attempt') /\ auto' \in {"idle", "select", "text", "adopt", "scores"}
    BY <1>4, <1>7, Asking DEF Draft!Writes
  <2> QED BY <1>1, <1>7, <2>1, AskTypes DEF Draft!Writes
<1>8. ASSUME NEW w \in Draft!Who, NEW v \in Scores, NEW cites, Draft!Suggests(w, v, cites)
        PROVE Draft!TypeOK'
  <2>1. Attempts(attempt') /\ auto' \in {"idle", "select", "text", "adopt", "scores"}
    BY <1>4, <1>8, Asking DEF Draft!Suggests
  <2>2. score' \in Scored
    BY <1>1, <1>8 DEF Draft!Suggests, Scored
  <2> QED BY <1>1, <1>8, <2>1, <2>2, AskTypes DEF Draft!Suggests
<1> QED BY <1>2, <1>3, <1>5, <1>6, <1>7, <1>8

\* The schedule.
LEMMA AutoTypes ==
  ASSUME Draft!QuarterlyDraftAssumption, Draft!TypeOK
  PROVE  /\ Draft!AutoTick => Draft!TypeOK'
         /\ Draft!AutoSelect => Draft!TypeOK'
         /\ Draft!AutoAsks => Draft!TypeOK'
         /\ Draft!AutoAdopts => Draft!TypeOK'
         /\ Draft!AutoScores => Draft!TypeOK'
<1>1. /\ left \in Budget /\ score \in Scored /\ auto \in {"idle", "select", "text", "adopt", "scores"}
      /\ current \subseteq {"run", "auto", "user", "written", "suggested"} /\ "auto" \in Draft!Who
      /\ Achieved(achievement, draft.template)
  BY AchievedNow DEF Draft!TypeOK, Budget, Scored, Draft!Who
<1>2. ASSUME Draft!AutoTick PROVE Draft!TypeOK'
  <2>1. left' \in Budget /\ UNCHANGED attempt /\ Attempts(attempt)
    BY <1>1, <1>2, DraftSpends, Asking DEF Draft!AutoTick
  <2>2. CASE Draft!Queued(Draft!Sources, "allow_stale") /\ UNCHANGED auto
    <3>1. Draft!Review(draft') /\ draft'.template = draft.template /\ UNCHANGED achievement
      BY <2>2, Stamped DEF Draft!Queued, Draft!Statuses
    <3>2. collecting' \in [sources: {collecting'.sources}, mode: {collecting'.mode}, read: {collecting'.read}, fallback: Draft!Statuses]
      BY <2>2 DEF Draft!Queued, Draft!TypeOK, Draft!Review, Draft!Statuses
    <3> QED BY <2>1, <2>2, <3>1, <3>2, Unmoved DEF Draft!Queued, Draft!TypeOK, Budget
  <2>3. CASE auto' = "select" /\ current' = current \union {"auto"}
             /\ UNCHANGED <<Draft!Sourced, achievement, draft, score, narrative, confirmation>>
    BY <1>1, <2>1, <2>3, AskTypes
  <2> QED BY <1>2, <2>2, <2>3 DEF Draft!AutoTick
<1>3. ASSUME Draft!AutoSelect PROVE Draft!TypeOK'
  <2> DEFINE cs == {k \in DOMAIN achievement : achievement[k].select = "candidate"}
             as == [k \in DOMAIN achievement |->
               IF k \in cs THEN [achievement[k] EXCEPT !.select = "selected"] ELSE achievement[k]]
  <2>1. CASE UNCHANGED <<achievement, draft, score, confirmation, current>>
    BY <1>1, <1>3, <2>1, AskTypes, Asking DEF Draft!AutoSelect
  <2>2. CASE /\ auto' = "text"
             /\ draft' = [draft EXCEPT !.status = "selecting",
                  !.checks.counts = Draft!Counted(as, draft.template, Draft!Given(score))]
             /\ achievement' = as
             /\ confirmation' = None /\ current' = {"auto"} /\ UNCHANGED score
    <3>1. Achieved(as, draft.template)
      BY <1>1, Chosen
    <3> HIDE DEF as
    <3>2. Draft!Review(draft') /\ draft'.template = draft.template
      BY <2>2 DEF Draft!TypeOK, Draft!Review, Draft!Statuses
    <3>3. /\ achievement' = [k \in Draft!Keys' |-> achievement'[k]]
          /\ \A k \in Draft!Keys' : Draft!Achievement(achievement'[k], draft'.template)
      BY <2>2, <3>1, <3>2 DEF Achieved, Draft!Keys
    <3> QED BY <1>3, <2>2, <3>2, <3>3 DEF Draft!AutoSelect, Draft!TypeOK, Draft!Sourced
  <2> QED BY <1>3, <2>1, <2>2 DEF Draft!AutoSelect
<1>4. ASSUME Draft!AutoAsks PROVE Draft!TypeOK'
  <2>1. Attempts(attempt')
    <3>1. \/ UNCHANGED attempt
          \/ attempt' = [attempt EXCEPT !["auto"] = [purpose |-> "narrative", sent |-> None]]
      BY <1>4 DEF Draft!AutoAsks, Draft!Asks
    <3>2. Attempts(attempt) /\ Attempts([attempt EXCEPT !["auto"] = [purpose |-> "narrative", sent |-> None]])
      BY <1>1, Asking
    <3> QED BY <3>1, <3>2
  <2> QED BY <1>1, <1>4, <2>1, AskTypes DEF Draft!AutoAsks, Draft!Asks
<1>5. ASSUME Draft!AutoAdopts PROVE Draft!TypeOK'
  <2>1. Attempts(attempt')
    BY <1>1, <1>5, Asking DEF Draft!AutoAdopts
  <2>2. CASE UNCHANGED <<Draft!Sourced, achievement, draft, score, narrative, confirmation, offers, current>>
    BY <1>1, <1>5, <2>1, <2>2, AskTypes DEF Draft!AutoAdopts
  <2>3. CASE ~ UNCHANGED <<Draft!Sourced, achievement, draft, score, narrative, confirmation, offers, current>>
    <3>1. Draft!Review(draft') /\ draft'.template = draft.template /\ UNCHANGED achievement
      BY <1>5, <2>3, Stamped DEF Draft!AutoAdopts, Draft!Statuses
    <3> QED BY <1>1, <1>5, <2>1, <2>3, <3>1, Unmoved DEF Draft!AutoAdopts, Draft!TypeOK,
               Draft!Sourced, Attempts, Attempt
  <2> QED BY <2>2, <2>3
<1>6. ASSUME Draft!AutoScores PROVE Draft!TypeOK'
  <2>1. Attempts(attempt')
    <3>1. \/ UNCHANGED attempt
          \/ attempt' = [attempt EXCEPT !["auto"] = [purpose |-> "scores", sent |-> None]]
      BY <1>6 DEF Draft!AutoScores, Draft!Asks
    <3>2. Attempts(attempt) /\ Attempts([attempt EXCEPT !["auto"] = [purpose |-> "scores", sent |-> None]])
      BY <1>1, Asking
    <3> QED BY <3>1, <3>2
  <2> QED BY <1>1, <1>6, <2>1, AskTypes DEF Draft!AutoScores, Draft!Asks
<1> QED BY <1>2, <1>3, <1>4, <1>5, <1>6

----------------------------------------------------------------------------
(* What is in step *)

\* Each who still knows the version has asked about the review as it is.
LEMMA StaysInStep ==
  ASSUME Draft!InStep,
         "run" \in current' => confirmation' = None \/ ("run" \in current /\ UNCHANGED confirmation),
         auto' \in {"idle", "select"} => attempt'["auto"] = None,
         \A w \in Draft!Who : w \in current' =>
           \/ ~Draft!Waits(attempt'[w])
           \/ /\ UNCHANGED achievement /\ draft'.template = draft.template
              /\ \/ attempt'[w] = attempt[w] /\ w \in current
                 \/ attempt'[w].sent = Draft!Loaded(draft.template)
  PROVE  Draft!InStep'
<1>1. ASSUME UNCHANGED achievement, draft'.template = draft.template
      PROVE  Draft!Loaded(draft.template)' = Draft!Loaded(draft.template)
  BY <1>1 DEF Draft!Loaded, Draft!Selected
<1>2. ASSUME NEW w \in Draft!Who, w \in current', Draft!Waits(attempt'[w])
      PROVE  attempt'[w].sent = Draft!Loaded(draft.template)'
  BY <1>1, <1>2 DEF Draft!InStep
<1> QED BY <1>2 DEF Draft!InStep, Draft!Waits

\* A version that nobody knows.
LEMMA Emptied ==
  ASSUME Draft!InStep, current' = {}, UNCHANGED <<attempt, auto>>
  PROVE  Draft!InStep'
BY DEF Draft!InStep

\* Every write of the review leaves a version that nobody knows.
LEMMA InStepUser ==
  ASSUME Draft!InStep
  PROVE  /\ Draft!CreateManual => Draft!InStep'
         /\ \A k : Draft!Update(k) => Draft!InStep'
         /\ \A k, c : Draft!Select(k, c) => Draft!InStep'
         /\ \A k, e, p, v : Draft!AddEvidence(k, e, p, v) => Draft!InStep'
         /\ \A k, ms : Draft!Map(k, ms) => Draft!InStep'
         /\ \A x : Draft!BindTemplate(x) => Draft!InStep'
         /\ \A m, v : Draft!UpdateScore(m, v) => Draft!InStep'
         /\ Draft!CreateRuleNarrative => Draft!InStep'
         /\ \A ks : Draft!CreateManualNarrative(ks) => Draft!InStep'
         /\ Draft!RestoreNarrative => Draft!InStep'
         /\ Draft!AdoptAi => Draft!InStep'
         /\ \A acks : Draft!Confirm(acks) => Draft!InStep'
         /\ Draft!CollectionEnds => Draft!InStep'
         /\ Draft!CollectionStops => Draft!InStep'
<1>1. ASSUME NEW status, NEW as, Draft!Changed(status, as) PROVE Draft!InStep'
  BY <1>1, Emptied DEF Draft!Changed, Draft!Bump, Draft!Asked
<1>2. ASSUME NEW text, NEW by, Draft!NewText(text, by), UNCHANGED <<attempt, auto>>
        PROVE Draft!InStep'
  BY <1>2, Emptied DEF Draft!NewText
<1>3. Draft!CreateManual => Draft!InStep'
  BY <1>1 DEF Draft!CreateManual
<1>4. ASSUME NEW k, Draft!Update(k) PROVE Draft!InStep'
  BY <1>1, <1>4 DEF Draft!Update
<1>5. ASSUME NEW k, NEW c, Draft!Select(k, c) PROVE Draft!InStep'
  BY <1>1, <1>5 DEF Draft!Select
<1>6. ASSUME NEW k, NEW e, NEW p, NEW v, Draft!AddEvidence(k, e, p, v) PROVE Draft!InStep'
  BY <1>1, <1>6 DEF Draft!AddEvidence
<1>7. ASSUME NEW k, NEW ms, Draft!Map(k, ms) PROVE Draft!InStep'
  BY <1>1, <1>7 DEF Draft!Map
<1>8. ASSUME NEW x, Draft!BindTemplate(x) PROVE Draft!InStep'
  BY <1>8, Emptied DEF Draft!BindTemplate, Draft!Bump, Draft!Asked
<1>9. ASSUME NEW m, NEW v, Draft!UpdateScore(m, v) PROVE Draft!InStep'
  BY <1>9, Emptied DEF Draft!UpdateScore, Draft!Bump, Draft!Asked
<1>10. Draft!CreateRuleNarrative => Draft!InStep'
  BY <1>2 DEF Draft!CreateRuleNarrative, Draft!RuleNarrative, Draft!Asked
<1>11. ASSUME NEW ks, Draft!CreateManualNarrative(ks) PROVE Draft!InStep'
  BY <1>2, <1>11 DEF Draft!CreateManualNarrative, Draft!Asked
<1>12. Draft!RestoreNarrative => Draft!InStep'
  BY <1>2 DEF Draft!RestoreNarrative, Draft!Asked
<1>13. Draft!AdoptAi => Draft!InStep'
  BY <1>2 DEF Draft!AdoptAi
<1>14. ASSUME NEW acks, Draft!Confirm(acks) PROVE Draft!InStep'
  BY <1>14, Emptied DEF Draft!Confirm, Draft!Asked
<1>15. Draft!CollectionEnds => Draft!InStep'
  BY Emptied DEF Draft!CollectionEnds, Draft!Asked
<1>16. Draft!CollectionStops => Draft!InStep'
  BY Emptied DEF Draft!CollectionStops, Draft!Asked
<1> QED BY <1>3, <1>4, <1>5, <1>6, <1>7, <1>8, <1>9, <1>10, <1>11, <1>12, <1>13, <1>14, <1>15, <1>16

\* Steps that leave the review and what is asked alone.
LEMMA InStepSources ==
  ASSUME Draft!InStep
  PROVE  /\ Draft!SourceChanges => Draft!InStep'
         /\ Draft!NewWeek => Draft!InStep'
         /\ Draft!CollectionReads => Draft!InStep'
         /\ Draft!CollectionIsStale => Draft!InStep'
         /\ Draft!RejectAi => Draft!InStep'
         /\ \A s, mode : Draft!Collect(s, mode) => Draft!InStep'
<1>1. ASSUME UNCHANGED <<achievement, draft, confirmation, current, attempt, auto>>
        PROVE Draft!InStep'
  BY <1>1, StaysInStep DEF Draft!InStep
<1>2. Draft!SourceChanges => Draft!InStep'
  BY <1>1 DEF Draft!SourceChanges, Draft!Asked
<1>3. Draft!NewWeek => Draft!InStep'
  BY <1>1 DEF Draft!NewWeek, Draft!Asked
<1>4. Draft!CollectionReads => Draft!InStep'
  BY <1>1 DEF Draft!CollectionReads, Draft!Asked
<1>5. Draft!CollectionIsStale => Draft!InStep'
  BY <1>1 DEF Draft!CollectionIsStale, Draft!Asked
<1>6. Draft!RejectAi => Draft!InStep'
  BY <1>1 DEF Draft!RejectAi
<1>7. ASSUME NEW s, NEW mode, Draft!Collect(s, mode) PROVE Draft!InStep'
  BY <1>7 DEF Draft!Collect, Draft!Queued, Draft!InStep, Draft!Asked, Draft!Who
<1> QED BY <1>2, <1>3, <1>4, <1>5, <1>6, <1>7

\* What is sent to the AI is loaded from the review, and an answer ends the question.
LEMMA InStepAi ==
  ASSUME Draft!TypeOK, Draft!InStep
  PROVE  /\ \A p : Draft!AskAi(p) => Draft!InStep'
         /\ \A w \in Draft!Who : Draft!Load(w) => Draft!InStep'
         /\ \A w \in Draft!Who : Draft!Fails(w) => Draft!InStep'
         /\ \A w \in Draft!Who : Draft!Dropped(w) => Draft!InStep'
         /\ \A w \in Draft!Who : \A cites : Draft!Writes(w, cites) => Draft!InStep'
         /\ \A w \in Draft!Who : \A v, cites : Draft!Suggests(w, v, cites) => Draft!InStep'
<1>1. /\ attempt = [w \in Draft!Who |-> attempt[w]] /\ Draft!Who = {"user", "auto"}
      /\ auto \in {"idle", "select"} => attempt["auto"] = None
      /\ \A w \in Draft!Who : attempt[w] # None =>
           attempt[w] \in [purpose: {"narrative", "scores", "adopt"}, sent: {attempt[w].sent}]
  BY DEF Draft!TypeOK, Draft!InStep, Draft!Who
<1>2. ASSUME NEW p, Draft!AskAi(p) PROVE Draft!InStep'
  BY <1>1, <1>2, StaysInStep DEF Draft!AskAi, Draft!Asks, Draft!Waits
<1>3. ASSUME NEW w \in Draft!Who, Draft!Load(w) PROVE Draft!InStep'
  BY <1>1, <1>3, StaysInStep DEF Draft!Load, Draft!Waits
<1>4. ASSUME NEW w \in Draft!Who, Draft!Fails(w) PROVE Draft!InStep'
  <2>1. CASE Draft!RuleNarrative
    BY <1>1, <1>4, <2>1, StaysInStep DEF Draft!Fails, Draft!RuleNarrative, Draft!NewText,
       Draft!GoesOn, Draft!Waits
  <2>2. CASE UNCHANGED <<Draft!Sourced, achievement, draft, score, narrative, confirmation, current>>
    BY <1>1, <1>4, <2>2, StaysInStep DEF Draft!Fails, Draft!GoesOn, Draft!Waits
  <2> QED BY <1>4, <2>1, <2>2 DEF Draft!Fails
<1>5. ASSUME NEW w \in Draft!Who, Draft!Dropped(w) PROVE Draft!InStep'
  BY <1>1, <1>5, StaysInStep DEF Draft!Dropped, Draft!Waits
<1>6. ASSUME NEW w \in Draft!Who, NEW cites, Draft!Writes(w, cites) PROVE Draft!InStep'
  BY <1>1, <1>6, StaysInStep DEF Draft!Writes, Draft!GoesOn, Draft!Waits
<1>7. ASSUME NEW w \in Draft!Who, NEW v, NEW cites, Draft!Suggests(w, v, cites) PROVE Draft!InStep'
  BY <1>1, <1>7, StaysInStep DEF Draft!Suggests, Draft!GoesOn, Draft!Waits
<1> QED BY <1>2, <1>3, <1>4, <1>5, <1>6, <1>7

\* The schedule asks only while it says so, and its own writes come between questions.
LEMMA InStepAuto ==
  ASSUME Draft!TypeOK, Draft!InStep
  PROVE  /\ Draft!AutoTick => Draft!InStep'
         /\ Draft!AutoSelect => Draft!InStep'
         /\ Draft!AutoAsks => Draft!InStep'
         /\ Draft!AutoAdopts => Draft!InStep'
         /\ Draft!AutoScores => Draft!InStep'
<1>1. /\ attempt = [w \in Draft!Who |-> attempt[w]] /\ Draft!Who = {"user", "auto"}
      /\ auto \in {"idle", "select"} => attempt["auto"] = None
      /\ auto \in {"idle", "select", "text", "adopt", "scores"}
  BY DEF Draft!TypeOK, Draft!InStep, Draft!Who
<1>2. ASSUME Draft!AutoTick PROVE Draft!InStep'
  BY <1>1, <1>2, StaysInStep DEF Draft!AutoTick, Draft!Queued, Draft!Waits
<1>3. ASSUME Draft!AutoSelect PROVE Draft!InStep'
  <2>1. CASE UNCHANGED <<achievement, draft, score, confirmation, current>>
    BY <1>1, <1>3, <2>1, StaysInStep DEF Draft!AutoSelect
  <2>2. CASE current' = {"auto"} /\ auto' = "text"
    BY <1>1, <1>3, <2>2, StaysInStep DEF Draft!AutoSelect, Draft!Waits
  <2> QED BY <1>3, <2>1, <2>2 DEF Draft!AutoSelect
<1>4. ASSUME Draft!AutoAsks PROVE Draft!InStep'
  BY <1>1, <1>4, StaysInStep DEF Draft!AutoAsks, Draft!Asks, Draft!Waits
<1>5. ASSUME Draft!AutoAdopts PROVE Draft!InStep'
  BY <1>1, <1>5, StaysInStep DEF Draft!AutoAdopts, Draft!Waits
<1>6. ASSUME Draft!AutoScores PROVE Draft!InStep'
  BY <1>1, <1>6, StaysInStep DEF Draft!AutoScores, Draft!Asks, Draft!Waits
<1> QED BY <1>2, <1>3, <1>4, <1>5, <1>6

----------------------------------------------------------------------------
(* The checks and the confirmation *)

\* The checks depend on the achievements, the template and the user's scores.
LEMMA ChecksKept ==
  ASSUME Draft!ChecksAreCurrent, UNCHANGED achievement, draft'.template = draft.template,
         Draft!Given(score') = Draft!Given(score),
         draft'.checks.counts \in {draft.checks.counts, Draft!NoCounts}
  PROVE  Draft!ChecksAreCurrent'
<1>1. Draft!Counted(achievement', draft'.template, Draft!Given(score')) = Draft!Counted(achievement, draft.template, Draft!Given(score))
  OBVIOUS
<1> QED BY <1>1 DEF Draft!ChecksAreCurrent, Draft!NoCounts

\* A write of the review counts anew and ends the confirmation.
LEMMA BumpCounts ==
  ASSUME Draft!TypeOK, NEW status, NEW x, NEW as, NEW scores, Draft!Bump(status, x, as, scores)
  PROVE  Draft!ChecksAreCurrent' /\ Draft!ConfirmationTells'
<1>1. draft'.checks.counts = Draft!Counted(as, x, Draft!Given(scores)) /\ draft'.template = x
  BY DEF Draft!Bump, Draft!TypeOK, Draft!Review
<1>2. achievement' = as /\ score' = scores /\ confirmation' = None
  BY DEF Draft!Bump
<1>3. Draft!ChecksAreCurrent'
  BY <1>1, <1>2 DEF Draft!ChecksAreCurrent
<1> QED BY <1>2, <1>3 DEF Draft!ConfirmationTells

\* So does what a confirmation tells.
LEMMA TellsKept ==
  ASSUME Draft!ConfirmationTells, UNCHANGED <<achievement, confirmation>>,
         Draft!Given(score') = Draft!Given(score),
         narrative'.text = narrative.text, draft'.template = draft.template, draft'.checks = draft.checks
  PROVE  Draft!ConfirmationTells'
<1>1. Draft!Counted(achievement', draft'.template, Draft!Given(score')) = Draft!Counted(achievement, draft.template, Draft!Given(score))
  OBVIOUS
<1>2. Draft!Calculated(draft'.template, Draft!Given(score')) = Draft!Calculated(draft.template, Draft!Given(score))
  OBVIOUS
<1>3. Draft!Recounted' = Draft!Recounted
  BY <1>1 DEF Draft!Recounted
<1>4. Draft!Risks(Draft!Recounted)' = Draft!Risks(Draft!Recounted)
  BY <1>3
<1>5. Draft!Selected(achievement)' = Draft!Selected(achievement)
  OBVIOUS
<1> QED BY <1>2, <1>4, <1>5 DEF Draft!ConfirmationTells

\* The two invariants together.
Sound == Draft!ChecksAreCurrent /\ Draft!ConfirmationTells

\* A total, unless the calculation throws an error.
LEMMA CalculatedIs ==
  ASSUME NEW x, NEW given, Draft!Calculated(x, given) # None
  PROVE  Draft!Calculated(x, given) = [total |-> Draft!Calculated(x, given).total]
<1>1. \A n : [total |-> n].total = n
  OBVIOUS
<1> QED BY <1>1 DEF Draft!Calculated

\* A text ends the confirmation and leaves the checks.
LEMMA SoundText ==
  ASSUME Draft!TypeOK, Sound, NEW text, NEW by, Draft!NewText(text, by)
  PROVE  Sound'
<1>1. draft'.template = draft.template /\ draft'.checks = draft.checks
  BY Stamped DEF Draft!NewText, Draft!Statuses
<1> QED BY <1>1, ChecksKept DEF Sound, Draft!NewText, Draft!ConfirmationTells

\* The user's changes.
LEMMA SoundUser ==
  ASSUME Draft!TypeOK, Sound
  PROVE  /\ Draft!CreateManual => Sound'
         /\ \A k : Draft!Update(k) => Sound'
         /\ \A k, c : Draft!Select(k, c) => Sound'
         /\ \A k, e, p, v : Draft!AddEvidence(k, e, p, v) => Sound'
         /\ \A k, ms : Draft!Map(k, ms) => Sound'
         /\ \A x : Draft!BindTemplate(x) => Sound'
         /\ \A m, v : Draft!UpdateScore(m, v) => Sound'
<1>1. ASSUME NEW status, NEW as, Draft!Changed(status, as) PROVE Sound'
  BY <1>1, BumpCounts DEF Draft!Changed, Sound
<1>2. Draft!CreateManual => Sound'
  BY <1>1 DEF Draft!CreateManual
<1>3. ASSUME NEW k, Draft!Update(k) PROVE Sound'
  BY <1>1, <1>3 DEF Draft!Update
<1>4. ASSUME NEW k, NEW c, Draft!Select(k, c) PROVE Sound'
  BY <1>1, <1>4 DEF Draft!Select
<1>5. ASSUME NEW k, NEW e, NEW p, NEW v, Draft!AddEvidence(k, e, p, v) PROVE Sound'
  BY <1>1, <1>5 DEF Draft!AddEvidence
<1>6. ASSUME NEW k, NEW ms, Draft!Map(k, ms) PROVE Sound'
  BY <1>1, <1>6 DEF Draft!Map
<1>7. ASSUME NEW x, Draft!BindTemplate(x) PROVE Sound'
  BY <1>7, BumpCounts DEF Draft!BindTemplate, Sound
<1>8. ASSUME NEW m, NEW v, Draft!UpdateScore(m, v) PROVE Sound'
  BY <1>8, BumpCounts DEF Draft!UpdateScore, Sound
<1> QED BY <1>2, <1>3, <1>4, <1>5, <1>6, <1>7, <1>8

\* The texts of the user.
LEMMA SoundTexts ==
  ASSUME Draft!TypeOK, Sound
  PROVE  /\ Draft!CreateRuleNarrative => Sound'
         /\ Draft!RestoreNarrative => Sound'
         /\ Draft!AdoptAi => Sound'
         /\ \A ks : Draft!CreateManualNarrative(ks) => Sound'
BY SoundText DEF Draft!CreateRuleNarrative, Draft!RuleNarrative, Draft!CreateManualNarrative,
   Draft!RestoreNarrative, Draft!AdoptAi

\* The confirmation freezes the review as it is.
LEMMA SoundConfirm ==
  ASSUME Draft!TypeOK, Sound, NEW acks, Draft!Confirm(acks)
  PROVE  Sound'
<1>1. draft'.template = draft.template /\ draft'.checks = draft.checks
  BY Stamped DEF Draft!Confirm, Draft!Statuses
<1>2. Draft!ChecksAreCurrent'
  BY <1>1, ChecksKept DEF Sound, Draft!Confirm
<1>3. /\ confirmation'.frozen = Draft!Frozen(Draft!Recounted) /\ confirmation'.acks = Draft!Risks(Draft!Recounted)
      /\ confirmation'.total = Draft!Calculated(draft.template, Draft!Given(score)).total
  BY DEF Draft!Confirm
<1>4. UNCHANGED <<achievement, score, narrative>> /\ Draft!Calculated(draft.template, Draft!Given(score)) # None
  BY DEF Draft!Confirm
<1>5. Draft!Recounted' = Draft!Recounted
  BY <1>1, <1>4 DEF Draft!Recounted
<1>6. Draft!Risks(Draft!Recounted)' \subseteq confirmation'.acks
  BY <1>3, <1>5
<1>7. Draft!Calculated(draft'.template, Draft!Given(score')) = [total |-> confirmation'.total]
  BY <1>1, <1>3, <1>4, CalculatedIs
<1>8. LET f == confirmation'.frozen IN
      /\ f.achs = [k \in Draft!Selected(achievement') |-> achievement'[k]] /\ f.template = draft'.template
      /\ Draft!Given(f.scores) = Draft!Given(score') /\ f.text = narrative'.text
  BY <1>1, <1>3, <1>4 DEF Draft!Frozen
<1> QED BY <1>2, <1>6, <1>7, <1>8 DEF Draft!ConfirmationTells, Sound

\* A collection has ended the confirmation when it begins, and forgets the checks when it ends.
LEMMA SoundCollect ==
  ASSUME Draft!TypeOK, Draft!InStep, Sound
  PROVE  /\ Draft!SourceChanges => Sound'
         /\ Draft!NewWeek => Sound'
         /\ Draft!CollectionReads => Sound'
         /\ Draft!CollectionIsStale => Sound'
         /\ Draft!CollectionEnds => Sound'
         /\ Draft!CollectionStops => Sound'
         /\ \A s, mode : Draft!Queued(s, mode) => Sound'
<1>1. ASSUME UNCHANGED <<achievement, draft, score, narrative, confirmation>> PROVE Sound'
  BY <1>1, ChecksKept, TellsKept DEF Sound
<1>2. Draft!SourceChanges => Sound'
  BY <1>1 DEF Draft!SourceChanges
<1>3. Draft!NewWeek => Sound'
  BY <1>1 DEF Draft!NewWeek
<1>4. Draft!CollectionReads => Sound'
  BY <1>1 DEF Draft!CollectionReads
<1>5. Draft!CollectionIsStale => Sound'
  BY <1>1 DEF Draft!CollectionIsStale
<1>6. ASSUME Draft!CollectionEnds PROVE Sound'
  <2>1. confirmation' = None
    BY <1>6 DEF Draft!CollectionEnds, Draft!InStep
  <2>2. \/ draft' = [draft EXCEPT !.status = "collection_failed", !.checks = Draft!NoChecks]
        \/ \E f \in {"not_collected", "stale_ack_required", "fresh"} :
             draft' = [draft EXCEPT !.status = "candidates_ready", !.checks = [fresh |-> f, counts |-> Draft!NoCounts]]
    BY <1>6 DEF Draft!CollectionEnds
  <2>3. draft'.checks.counts = Draft!NoCounts
    BY <2>2, Stamped DEF Draft!Statuses
  <2> QED BY <2>1, <2>3 DEF Sound, Draft!ChecksAreCurrent, Draft!ConfirmationTells
<1>7. ASSUME Draft!CollectionStops PROVE Sound'
  <2>1. confirmation' = None
    BY <1>7 DEF Draft!CollectionStops, Draft!InStep
  <2>2. collecting.fallback \in Draft!Statuses /\ "collection_failed" \in Draft!Statuses /\ UNCHANGED <<achievement, score>>
    BY <1>7 DEF Draft!CollectionStops, Draft!TypeOK, Draft!Statuses
  <2>3. CASE draft' = [draft EXCEPT !.status = collecting.fallback]
    BY <2>1, <2>2, <2>3, Stamped, ChecksKept DEF Sound, Draft!ConfirmationTells
  <2>4. CASE draft' = [draft EXCEPT !.status = "collection_failed", !.checks = Draft!NoChecks]
    BY <2>1, <2>2, <2>4, Stamped DEF Sound, Draft!ChecksAreCurrent, Draft!ConfirmationTells
  <2> QED BY <1>7, <2>3, <2>4 DEF Draft!CollectionStops
<1>8. ASSUME NEW s, NEW mode, Draft!Queued(s, mode) PROVE Sound'
  <2>1. draft'.template = draft.template /\ draft'.checks = draft.checks
    BY <1>8, Stamped DEF Draft!Queued, Draft!Statuses
  <2> QED BY <1>8, <2>1, ChecksKept DEF Sound, Draft!Queued, Draft!ConfirmationTells
<1> QED BY <1>2, <1>3, <1>4, <1>5, <1>6, <1>7, <1>8

\* Suggestions of the AI leave the user's scores alone.
LEMMA SoundAi ==
  ASSUME Draft!TypeOK, Sound
  PROVE  /\ Draft!RejectAi => Sound'
         /\ \A p : Draft!AskAi(p) => Sound'
         /\ \A w \in Draft!Who : Draft!Load(w) => Sound'
         /\ \A w \in Draft!Who : Draft!Fails(w) => Sound'
         /\ \A w \in Draft!Who : Draft!Dropped(w) => Sound'
         /\ \A w \in Draft!Who : \A cites : Draft!Writes(w, cites) => Sound'
         /\ \A w \in Draft!Who : \A v, cites : Draft!Suggests(w, v, cites) => Sound'
<1>1. ASSUME UNCHANGED <<achievement, draft, narrative, confirmation>>,
             Draft!Given(score') = Draft!Given(score) PROVE Sound'
  BY <1>1, ChecksKept, TellsKept DEF Sound
<1>2. UNCHANGED score => Draft!Given(score') = Draft!Given(score)
  OBVIOUS
<1>3. Draft!RejectAi => Sound'
  BY <1>1, <1>2 DEF Draft!RejectAi
<1>4. ASSUME NEW p, Draft!AskAi(p) PROVE Sound'
  BY <1>1, <1>2, <1>4 DEF Draft!AskAi, Draft!Asks
<1>5. ASSUME NEW w \in Draft!Who, Draft!Load(w) PROVE Sound'
  BY <1>1, <1>2, <1>5 DEF Draft!Load
<1>6. ASSUME NEW w \in Draft!Who, Draft!Fails(w) PROVE Sound'
  BY <1>1, <1>2, <1>6, SoundText DEF Draft!Fails, Draft!RuleNarrative
<1>7. ASSUME NEW w \in Draft!Who, Draft!Dropped(w) PROVE Sound'
  BY <1>1, <1>2, <1>7 DEF Draft!Dropped
<1>8. ASSUME NEW w \in Draft!Who, NEW cites, Draft!Writes(w, cites) PROVE Sound'
  BY <1>1, <1>2, <1>8 DEF Draft!Writes
<1>9. ASSUME NEW w \in Draft!Who, NEW v, NEW cites, Draft!Suggests(w, v, cites) PROVE Sound'
  <2>1. \A m \in Metrics : score'[m].user = score[m].user
    BY <1>9 DEF Draft!Suggests, Draft!TypeOK
  <2>2. Draft!Given(score') = Draft!Given(score)
    BY <2>1 DEF Draft!Given
  <2> QED BY <1>1, <1>9, <2>2 DEF Draft!Suggests
<1> QED BY <1>3, <1>4, <1>5, <1>6, <1>7, <1>8, <1>9

\* The schedule counts anew what it selects.
LEMMA SoundAuto ==
  ASSUME Draft!TypeOK, Draft!InStep, Sound
  PROVE  /\ Draft!AutoTick => Sound'
         /\ Draft!AutoSelect => Sound'
         /\ Draft!AutoAsks => Sound'
         /\ Draft!AutoAdopts => Sound'
         /\ Draft!AutoScores => Sound'
<1>1. ASSUME UNCHANGED <<achievement, draft, score, narrative, confirmation>> PROVE Sound'
  BY <1>1, ChecksKept, TellsKept DEF Sound
<1>2. Draft!AutoTick => Sound'
  BY <1>1, SoundCollect DEF Draft!AutoTick
<1>3. ASSUME Draft!AutoSelect PROVE Sound'
  <2>1. CASE UNCHANGED <<achievement, draft, score, confirmation, current>>
    BY <1>1, <1>3, <2>1 DEF Draft!AutoSelect
  <2> DEFINE cs == {k \in DOMAIN achievement : achievement[k].select = "candidate"}
             as == [k \in DOMAIN achievement |->
               IF k \in cs THEN [achievement[k] EXCEPT !.select = "selected"] ELSE achievement[k]]
  <2>2. CASE /\ draft' = [draft EXCEPT !.status = "selecting",
                  !.checks.counts = Draft!Counted(as, draft.template, Draft!Given(score))]
             /\ achievement' = as /\ confirmation' = None /\ UNCHANGED score
    <3> HIDE DEF as
    <3>1. draft'.template = draft.template /\ draft'.checks.counts = Draft!Counted(as, draft.template, Draft!Given(score))
      BY <2>2 DEF Draft!TypeOK, Draft!Review
    <3>2. Draft!ChecksAreCurrent'
      BY <2>2, <3>1 DEF Draft!ChecksAreCurrent
    <3> QED BY <2>2, <3>2 DEF Sound, Draft!ConfirmationTells
  <2> QED BY <1>3, <2>1, <2>2 DEF Draft!AutoSelect
<1>4. Draft!AutoAsks => Sound'
  BY <1>1 DEF Draft!AutoAsks, Draft!Asks
<1>5. ASSUME Draft!AutoAdopts PROVE Sound'
  <2>1. CASE UNCHANGED <<Draft!Sourced, achievement, draft, score, narrative, confirmation, offers, current>>
    BY <1>1, <2>1
  <2>2. CASE ~ UNCHANGED <<Draft!Sourced, achievement, draft, score, narrative, confirmation, offers, current>>
    <3>1. /\ draft'.template = draft.template /\ draft'.checks = draft.checks
          /\ confirmation' = None /\ UNCHANGED <<achievement, score>>
      BY <1>5, <2>2, Stamped DEF Draft!AutoAdopts, Draft!Statuses
    <3> QED BY <3>1, ChecksKept DEF Sound, Draft!ConfirmationTells
  <2> QED BY <2>1, <2>2
<1>6. Draft!AutoScores => Sound'
  BY <1>1 DEF Draft!AutoScores, Draft!Asks
<1> QED BY <1>2, <1>3, <1>4, <1>5, <1>6

----------------------------------------------------------------------------
(* The steps *)

\* A level has a rank.
LEMMA RankIs ==
  ASSUME NEW l \in Draft!Levels
  PROVE  Draft!Rank[l] \in Nat
BY DEF Draft!Rank, Draft!Levels

\* What stays as it is is kept.
LEMMA Stays ==
  ASSUME NEW a, NEW x, Draft!Achievement(a, x)
  PROVE  Draft!Keeps(a, a) /\ Draft!OnePrimary(a.ev)
<1>1. a.level \in Draft!Levels /\ Draft!OnePrimary(a.ev)
  BY DEF Draft!Achievement
<1>2. Draft!Rank[a.level] >= Draft!Rank[a.level]
  BY <1>1, RankIs
<1>3. [a EXCEPT !.ev = a.ev, !.level = a.level] = a
  BY DEF Draft!Achievement
<1> QED BY <1>1, <1>2, <1>3 DEF Draft!Keeps

\* So are the achievements of a step that leaves them alone.
LEMMA Kindly ==
  ASSUME Draft!TypeOK, UNCHANGED achievement
  PROVE  Draft!CollectsKindly
<1>1. \A k \in Draft!Keys : Draft!Achievement(achievement[k], draft.template)
  BY DEF Draft!TypeOK
<1> QED BY <1>1, Stays DEF Draft!CollectsKindly, Draft!Keys

\* And those of a collection.
LEMMA EndsKindly ==
  ASSUME Draft!TypeOK, Draft!TypeOK', Draft!CollectionEnds
  PROVE  Draft!CollectsKindly
<1> DEFINE cs == Draft!Candidates(collecting.read.f, collecting.sources)
<1>1. UNCHANGED achievement \/ achievement' = Draft!Merged(cs)
  BY DEF Draft!CollectionEnds
<1>2. cs = [k \in DOMAIN cs |-> cs[k]] /\ \A k \in DOMAIN cs : CandidateLike(cs[k])
  BY CandidatesAre
<1> HIDE DEF cs
<1>3. CASE achievement' = Draft!Merged(cs)
  <2>1. /\ DOMAIN achievement' = Draft!Keys \union DOMAIN cs
        /\ \A k \in Draft!Keys \intersect DOMAIN cs : achievement'[k] = Draft!Again(achievement[k], cs[k])
        /\ \A k \in Draft!Keys \ DOMAIN cs : achievement'[k] = achievement[k]
    BY <1>3 DEF Draft!Merged, Draft!Keys
  <2>2. \A k \in Draft!Keys : Draft!Achievement(achievement[k], draft.template)
    BY DEF Draft!TypeOK
  <2>3. ASSUME NEW k \in Draft!Keys
          PROVE k \in DOMAIN achievement' /\ Draft!Keeps(achievement[k], achievement'[k])
    <3> DEFINE a == achievement[k]  c == cs[k]
    <3>1. CASE k \in DOMAIN cs
      <4>1. Draft!Achievement(a, draft.template) /\ CandidateLike(c)
        BY <1>2, <2>2, <3>1
      <4>2. Draft!Keeps(a, Draft!Again(a, c))
        BY <4>1, AgainIs
      <4>3. achievement'[k] = Draft!Again(a, c)
        BY <2>1, <3>1
      <4> QED BY <2>1, <4>2, <4>3
    <3>2. CASE k \notin DOMAIN cs
      BY <2>1, <2>2, <3>2, Stays
    <3> QED BY <3>1, <3>2
  <2>4. ASSUME NEW k \in DOMAIN achievement'
        PROVE  Draft!OnePrimary(achievement'[k].ev)
    BY Stays DEF Draft!TypeOK, Draft!Keys
  <2> QED BY <2>3, <2>4 DEF Draft!CollectsKindly
<1> QED BY <1>1, <1>3, Kindly

\* A text of the AI rests on what was sent, which is the review as it is.
LEMMA WritesGrounded ==
  ASSUME Draft!InStep, NEW w \in Draft!Who, NEW cites, Draft!Writes(w, cites)
  PROVE  Draft!ProposesGrounded
<1>1. attempt[w].sent = Draft!Loaded(draft.template) /\ cites # {} /\ cites \subseteq DOMAIN attempt[w].sent.achs
  BY DEF Draft!Writes, Draft!InStep, Draft!Knows
<1> DEFINE sent == Draft!Loaded(draft.template)
<1>2. /\ DOMAIN sent.achs = Draft!Selected(achievement)
      /\ \A k \in Draft!Selected(achievement) :
           /\ sent.achs[k].metrics = achievement[k].metrics
           /\ sent.achs[k].ev \subseteq {<<k, x>> : x \in DOMAIN achievement[k].ev}
  BY DEF Draft!Loaded
<1>3. \A text \in offers' \ offers : text = Draft!CitedText(sent, cites)
  BY <1>1 DEF Draft!Writes
<1>4. UNCHANGED score
  BY DEF Draft!Writes
<1> HIDE DEF sent
<1>5. Draft!Valid(Draft!CitedText(sent, cites)) /\ Draft!CitedText(sent, cites).achs # {}
  BY <1>1, <1>2 DEF Draft!Valid, Draft!CitedText, Draft!Text, Draft!About, sent
<1> QED BY <1>3, <1>4, <1>5 DEF Draft!ProposesGrounded

\* So does a score.
LEMMA SuggestsGrounded ==
  ASSUME Draft!TypeOK, Draft!InStep, NEW w \in Draft!Who, NEW v, NEW cites,
         Draft!Suggests(w, v, cites)
  PROVE  Draft!ProposesGrounded
<1>1. attempt[w].sent = Draft!Loaded(draft.template) /\ cites \subseteq DOMAIN attempt[w].sent.achs
  BY DEF Draft!Suggests, Draft!InStep, Draft!Knows
<1> DEFINE sent == Draft!Loaded(draft.template)
<1>2. /\ DOMAIN sent.achs = Draft!Selected(achievement)
      /\ \A k \in Draft!Selected(achievement) : sent.achs[k].metrics = achievement[k].metrics
  BY DEF Draft!Loaded
<1> HIDE DEF sent
<1>3. ASSUME NEW m \in Metrics, score'[m].ai # score[m].ai
      PROVE  /\ score'[m].user = score[m].user
             /\ \E k \in Draft!Selected(achievement) : m \in achievement[k].metrics
  <2>1. m \in attempt[w].sent.metrics /\ score'[m] = [score[m] EXCEPT !.ai = v]
    BY <1>3 DEF Draft!Suggests
  <2>2. \E k \in cites : m \in attempt[w].sent.achs[k].metrics
    BY <2>1 DEF Draft!Suggests
  <2>3. score[m] \in [user: Scores \union {None}, ai: Scores \union {None}]
    BY DEF Draft!TypeOK
  <2>4. score'[m].user = score[m].user
    BY <2>1, <2>3
  <2>5. PICK k \in cites : m \in sent.achs[k].metrics
    BY <1>1, <2>2 DEF sent
  <2>6. k \in Draft!Selected(achievement)
    BY <1>1, <1>2 DEF sent
  <2> QED BY <1>2, <2>4, <2>5, <2>6
<1>4. UNCHANGED offers
  BY DEF Draft!Suggests
<1> QED BY <1>3, <1>4 DEF Draft!ProposesGrounded

\* Steps that offer nothing and suggest nothing.
LEMMA Silent ==
  ASSUME offers' \subseteq offers, \A m \in Metrics : score'[m].ai = score[m].ai
  PROVE  Draft!ProposesGrounded
BY DEF Draft!ProposesGrounded

\* The review begins without achievements.
LEMMA DraftStarts ==
  ASSUME Draft!QuarterlyDraftAssumption, Draft!Init
  PROVE  Draft!IInv
<1>1. Draft!TypeOK
  <2>1. achievement = [k \in Draft!Keys |-> achievement[k]] /\ Draft!Keys = {}
    BY DEF Draft!Init, Draft!Keys
  <2>2. Draft!Review(draft)
    BY DEF Draft!Init, Draft!Review, Draft!Statuses, Draft!NoChecks, Draft!NoCounts
  <2>3. score \in [Metrics -> [user: Scores \union {None}, ai: Scores \union {None}]]
    BY DEF Draft!Init, Draft!Unscored
  <2>4. left \in [changes: 0..MaxChanges, edits: 0..MaxDraftEdits, ticks: 0..MaxTicks]
    BY DEF Draft!Init, Draft!QuarterlyDraftAssumption
  <2>5. collecting = None /\ confirmation = None /\ attempt = [w \in Draft!Who |-> attempt[w]] /\ \A w \in Draft!Who : attempt[w] = None
    BY DEF Draft!Init
  <2> QED BY <2>1, <2>2, <2>3, <2>4, <2>5 DEF Draft!Init, Draft!TypeOK
<1>2. Draft!InStep
  BY DEF Draft!Init, Draft!InStep, Draft!Waits, Draft!Who
<1>3. Draft!ChecksAreCurrent /\ Draft!ConfirmationTells
  BY DEF Draft!Init, Draft!ChecksAreCurrent, Draft!ConfirmationTells, Draft!NoChecks
<1> QED BY <1>1, <1>2, <1>3 DEF Draft!IInv

\* No step breaks the invariant.
LEMMA DraftPreserved ==
  ASSUME Draft!QuarterlyDraftAssumption, Draft!IInv, Draft!Next
  PROVE  Draft!IInv'
<1>0. Draft!TypeOK /\ Draft!InStep /\ Sound /\ Draft!Keys = DOMAIN achievement /\ BOOLEAN = {TRUE, FALSE}
  BY DEF Draft!IInv, Sound, Draft!Keys
<1>1. ASSUME Draft!SourceChanges \/ Draft!NewWeek \/ (\E s, mode : Draft!Collect(s, mode))
      PROVE  Draft!IInv'
  <2>1. Draft!TypeOK' /\ Draft!InStep'
    BY <1>0, <1>1, CollectTypes, InStepSources
  <2>2. Sound'
    BY <1>0, <1>1, SoundCollect DEF Draft!Collect
  <2> QED BY <2>1, <2>2 DEF Draft!IInv, Sound
<1>2. ASSUME Draft!CollectionReads \/ Draft!CollectionEnds \/ Draft!CollectionStops \/ Draft!CollectionIsStale PROVE Draft!IInv'
  <2>1. Draft!CollectionEnds \/ Draft!CollectionStops => confirmation = None
    BY <1>0 DEF Draft!CollectionEnds, Draft!CollectionStops, Draft!InStep
  <2>2. Draft!TypeOK'
    BY <1>0, <1>2, <2>1, CollectTypes
  <2>3. Draft!InStep' /\ Sound'
    BY <1>0, <1>2, InStepSources, InStepUser, SoundCollect
  <2> QED BY <2>2, <2>3 DEF Draft!IInv, Sound
<1>3. ASSUME Draft!CreateManual PROVE Draft!IInv'
  BY <1>0, <1>3, UserTypes, InStepUser, SoundUser DEF Draft!IInv, Sound
<1>4. ASSUME NEW k \in Draft!Keys, Draft!Update(k) PROVE Draft!IInv'
  BY <1>0, <1>4, UserTypes, InStepUser, SoundUser DEF Draft!IInv, Sound
<1>5. ASSUME NEW k \in Draft!Keys, NEW choice \in Draft!Selections, Draft!Select(k, choice)
        PROVE Draft!IInv'
  BY <1>0, <1>5, UserTypes, InStepUser, SoundUser DEF Draft!IInv, Sound
<1>6. ASSUME NEW k \in Draft!Keys, NEW p \in BOOLEAN, NEW v \in BOOLEAN,
             Draft!AddEvidence(k, Draft!ManualLink, p, v) PROVE Draft!IInv'
  BY <1>0, <1>6, UserTypes, InStepUser, SoundUser DEF Draft!IInv, Sound
<1>7. ASSUME NEW k \in Draft!Keys, NEW ms, Draft!Map(k, ms) PROVE Draft!IInv'
  BY <1>0, <1>7, UserTypes, InStepUser, SoundUser DEF Draft!IInv, Sound
<1>8. ASSUME NEW x \in DOMAIN Template, Draft!BindTemplate(x) PROVE Draft!IInv'
  BY <1>0, <1>8, UserTypes, InStepUser, SoundUser DEF Draft!IInv, Sound
<1>9. ASSUME NEW m \in Metrics, NEW v \in Scores \union {None}, Draft!UpdateScore(m, v)
        PROVE Draft!IInv'
  BY <1>0, <1>9, UserTypes, InStepUser, SoundUser DEF Draft!IInv, Sound
<1>10. ASSUME Draft!CreateRuleNarrative \/ (\E ks \in SUBSET Draft!Keys : Draft!CreateManualNarrative(ks)) \/ Draft!RestoreNarrative \/ Draft!AdoptAi
       PROVE  Draft!IInv'
  <2>1. Draft!TypeOK'
    BY <1>0, <1>10, Writing
  <2>2. Draft!InStep' /\ Sound'
    BY <1>0, <1>10, InStepUser, SoundTexts
  <2> QED BY <2>1, <2>2 DEF Draft!IInv, Sound
<1>11. ASSUME Draft!RejectAi PROVE Draft!IInv'
  BY <1>0, <1>11, Writing, InStepSources, SoundAi DEF Draft!IInv, Sound
<1>12. ASSUME NEW acks, Draft!Confirm(acks) PROVE Draft!IInv'
  BY <1>0, <1>12, ConfirmTypes, InStepUser, SoundConfirm DEF Draft!IInv, Sound
<1>13. ASSUME NEW p \in {"narrative", "scores"}, Draft!AskAi(p) PROVE Draft!IInv'
  BY <1>0, <1>13, AiTypes, InStepAi, SoundAi DEF Draft!IInv, Sound
<1>14. ASSUME NEW w \in Draft!Who, Draft!Load(w) \/ Draft!Fails(w) \/ Draft!Dropped(w)
         PROVE Draft!IInv'
  <2>1. Draft!TypeOK'
    BY <1>0, <1>14, AiTypes
  <2>2. Draft!InStep' /\ Sound'
    BY <1>0, <1>14, InStepAi, SoundAi
  <2> QED BY <2>1, <2>2 DEF Draft!IInv, Sound
<1>15. ASSUME NEW w \in Draft!Who, NEW cites, Draft!Writes(w, cites) PROVE Draft!IInv'
  BY <1>0, <1>15, AiTypes, InStepAi, SoundAi DEF Draft!IInv, Sound
<1>16. ASSUME NEW w \in Draft!Who, NEW v \in Scores, NEW cites, Draft!Suggests(w, v, cites)
         PROVE Draft!IInv'
  BY <1>0, <1>16, AiTypes, InStepAi, SoundAi DEF Draft!IInv, Sound
<1>17. ASSUME Draft!AutoTick \/ Draft!AutoSelect \/ Draft!AutoAsks \/ Draft!AutoAdopts \/ Draft!AutoScores PROVE Draft!IInv'
  <2>1. Draft!TypeOK'
    BY <1>0, <1>17, AutoTypes
  <2>2. Draft!InStep' /\ Sound'
    BY <1>0, <1>17, InStepAuto, SoundAuto
  <2> QED BY <2>1, <2>2 DEF Draft!IInv, Sound
<1> QED BY <1>1, <1>2, <1>3, <1>4, <1>5, <1>6, <1>7, <1>8, <1>9, <1>10, <1>11, <1>12, <1>13, <1>14,
           <1>15, <1>16, <1>17 DEF Draft!Next

\* Neither does a stutter.
LEMMA DraftStutters ==
  ASSUME Draft!IInv, UNCHANGED Draft!vars
  PROVE  Draft!IInv'
<1>1. Draft!TypeOK'
  BY Unmoved DEF Draft!IInv, Draft!TypeOK, Draft!vars
<1>2. Draft!InStep'
  BY StaysInStep DEF Draft!IInv, Draft!InStep, Draft!vars
<1>3. Draft!ChecksAreCurrent' /\ Draft!ConfirmationTells'
  BY ChecksKept, TellsKept DEF Draft!IInv, Draft!vars
<1> QED BY <1>1, <1>2, <1>3 DEF Draft!IInv

\* The invariant holds in every reachable state: types, who knows which version of the review, its
\* checks and its confirmation (quarterly-reviews).
THEOREM DraftInvariant ==
  ASSUME Draft!QuarterlyDraftAssumption
  PROVE  Draft!Spec => []Draft!IInv
<1>1. Draft!Init => Draft!IInv
  BY DraftStarts
<1>2. Draft!IInv /\ [Draft!Next]_Draft!vars => Draft!IInv'
  BY DraftPreserved, DraftStutters
<1> QED BY <1>1, <1>2, PTL DEF Draft!Spec

\* Every reachable review has the types it declares: an achievement has one main evidence at most
\* and links to metrics of the bound template only (quarterly-achievement.service.ts,
\* quarterly-review.service.ts, bindMetricTemplate).
THEOREM DraftTypeCorrect ==
  ASSUME Draft!QuarterlyDraftAssumption
  PROVE  Draft!Spec => []Draft!TypeOK
<1>1. Draft!IInv => Draft!TypeOK
  BY DEF Draft!IInv
<1> QED BY <1>1, DraftInvariant, PTL

\* An active confirmation is that of the review as it is, whatever the user, the AI, the schedule
\* and a collection did since (quarterly-narrative-confirmation.service.ts).
THEOREM ConfirmationIsTold ==
  ASSUME Draft!QuarterlyDraftAssumption
  PROVE  Draft!Spec => []Draft!ConfirmationTells
<1>1. Draft!IInv => Draft!ConfirmationTells
  BY DEF Draft!IInv
<1> QED BY <1>1, DraftInvariant, PTL

\* Checks that are counted are those of the achievements, template and scores as they are
\* (quarterly-completeness.service.ts).
THEOREM ChecksAreOfReview ==
  ASSUME Draft!QuarterlyDraftAssumption
  PROVE  Draft!Spec => []Draft!ChecksAreCurrent
<1>1. Draft!IInv => Draft!ChecksAreCurrent
  BY DEF Draft!IInv
<1> QED BY <1>1, DraftInvariant, PTL

\* What a step of the schedule, of the user or of the sources may never do.
LEMMA StepsKeep ==
  ASSUME Draft!QuarterlyDraftAssumption, Draft!IInv, Draft!Next
  PROVE  Draft!CollectsKindly /\ Draft!ProposesGrounded
<1>0. Draft!TypeOK /\ Draft!InStep /\ Draft!TypeOK'
  BY DraftPreserved DEF Draft!IInv
<1>1. ASSUME UNCHANGED score, offers' \subseteq offers,
             UNCHANGED achievement \/ UNCHANGED collecting
      PROVE  Draft!CollectsKindly /\ Draft!ProposesGrounded
  BY <1>0, <1>1, Kindly, Silent DEF Draft!CollectsKindly
<1>2. ASSUME Draft!SourceChanges \/ Draft!NewWeek \/ Draft!CollectionReads \/ Draft!CollectionStops \/ Draft!CollectionIsStale
             \/ \E s \in {Draft!Sources, {"tasks"}}, mode \in {"require_fresh", "allow_stale"} : Draft!Collect(s, mode)
      PROVE  Draft!CollectsKindly /\ Draft!ProposesGrounded
  BY <1>1, <1>2 DEF Draft!SourceChanges, Draft!NewWeek, Draft!CollectionReads,
     Draft!CollectionStops, Draft!CollectionIsStale, Draft!Collect, Draft!Queued, Draft!Asked
<1>3. ASSUME Draft!CollectionEnds PROVE Draft!CollectsKindly /\ Draft!ProposesGrounded
  <2>1. UNCHANGED <<score, offers>>
    BY <1>3 DEF Draft!CollectionEnds, Draft!Asked
  <2> QED BY <1>0, <1>3, <2>1, EndsKindly, Silent
<1>4. ASSUME NEW status, NEW as, Draft!Changed(status, as)
        PROVE Draft!CollectsKindly /\ Draft!ProposesGrounded
  BY <1>1, <1>4 DEF Draft!Changed, Draft!Bump, Draft!Sourced, Draft!Asked
<1>5. ASSUME Draft!CreateManual \/ (\E k \in Draft!Keys : \/ Draft!Update(k) \/ (\E choice \in Draft!Selections : Draft!Select(k, choice))
                     \/ (\E p, v \in BOOLEAN : Draft!AddEvidence(k, Draft!ManualLink, p, v))
                     \/ (\E ms \in SUBSET Metrics : Draft!Map(k, ms)))
      PROVE  Draft!CollectsKindly /\ Draft!ProposesGrounded
  BY <1>4, <1>5 DEF Draft!CreateManual, Draft!Update, Draft!Select, Draft!AddEvidence, Draft!Map
<1>6. ASSUME NEW x \in DOMAIN Template, Draft!BindTemplate(x)
        PROVE Draft!CollectsKindly /\ Draft!ProposesGrounded
  BY <1>1, <1>6 DEF Draft!BindTemplate, Draft!Bump, Draft!Sourced, Draft!Asked
<1>7. ASSUME NEW m \in Metrics, NEW v \in Scores \union {None}, Draft!UpdateScore(m, v)
      PROVE  Draft!CollectsKindly /\ Draft!ProposesGrounded
  <2>1. \A n \in Metrics : score'[n].ai = score[n].ai
    BY <1>0, <1>7 DEF Draft!UpdateScore, Draft!Bump, Draft!TypeOK
  <2>2. UNCHANGED <<achievement, offers>>
    BY <1>7 DEF Draft!UpdateScore, Draft!Bump, Draft!Asked
  <2> QED BY <1>0, <2>1, <2>2, Kindly, Silent
<1>8. ASSUME Draft!CreateRuleNarrative \/ (\E ks \in SUBSET Draft!Keys : Draft!CreateManualNarrative(ks)) \/ Draft!RestoreNarrative
             \/ Draft!AdoptAi \/ Draft!RejectAi
      PROVE  Draft!CollectsKindly /\ Draft!ProposesGrounded
  BY <1>1, <1>8 DEF Draft!CreateRuleNarrative, Draft!RuleNarrative, Draft!CreateManualNarrative,
     Draft!RestoreNarrative, Draft!AdoptAi, Draft!RejectAi, Draft!NewText, Draft!Asked
<1>9. ASSUME NEW acks, Draft!Confirm(acks) PROVE Draft!CollectsKindly /\ Draft!ProposesGrounded
  BY <1>1, <1>9 DEF Draft!Confirm, Draft!Asked
<1>10. ASSUME NEW p, Draft!AskAi(p) PROVE Draft!CollectsKindly /\ Draft!ProposesGrounded
  BY <1>1, <1>10 DEF Draft!AskAi, Draft!Asks
<1>11. ASSUME NEW w \in Draft!Who, Draft!Load(w) \/ Draft!Fails(w) \/ Draft!Dropped(w)
         PROVE Draft!CollectsKindly /\ Draft!ProposesGrounded
  BY <1>1, <1>11 DEF Draft!Load, Draft!Fails, Draft!Dropped, Draft!RuleNarrative, Draft!NewText
<1>12. ASSUME NEW w \in Draft!Who, NEW cites, Draft!Writes(w, cites)
         PROVE Draft!CollectsKindly /\ Draft!ProposesGrounded
  BY <1>0, <1>12, Kindly, WritesGrounded DEF Draft!Writes
<1>13. ASSUME NEW w \in Draft!Who, NEW v \in Scores, NEW cites, Draft!Suggests(w, v, cites)
         PROVE Draft!CollectsKindly /\ Draft!ProposesGrounded
  BY <1>0, <1>13, Kindly, SuggestsGrounded DEF Draft!Suggests
<1>14. ASSUME Draft!AutoTick \/ Draft!AutoSelect \/ Draft!AutoAsks \/ Draft!AutoAdopts \/ Draft!AutoScores
       PROVE  Draft!CollectsKindly /\ Draft!ProposesGrounded
  BY <1>1, <1>14 DEF Draft!AutoTick, Draft!Queued, Draft!AutoSelect, Draft!AutoAsks,
     Draft!AutoAdopts, Draft!AutoScores, Draft!Asks, Draft!Sourced
<1> QED BY <1>2, <1>3, <1>5, <1>6, <1>7, <1>8, <1>9, <1>10, <1>11, <1>12, <1>13, <1>14
      DEF Draft!Next

\* A collection takes nothing from the user, whatever was synchronised or typed since the last one
\* (quarterly-collection.service.ts).
THEOREM RecollectionIsKind ==
  ASSUME Draft!QuarterlyDraftAssumption
  PROVE  Draft!Spec => Draft!RecollectionKeeps
<1>1. Draft!IInv /\ [Draft!Next]_Draft!vars => [Draft!CollectsKindly]_Draft!vars
  BY StepsKeep
<1> QED BY <1>1, DraftInvariant, PTL DEF Draft!Spec, Draft!RecollectionKeeps

\* A text or a score of the AI rests on the review as it is when it is stored, whatever was changed
\* while it was asked (quarterly-review-ai.service.ts).
THEOREM ProposalsRest ==
  ASSUME Draft!QuarterlyDraftAssumption
  PROVE  Draft!Spec => Draft!ProposalsAreGrounded
<1>1. Draft!IInv /\ [Draft!Next]_Draft!vars => [Draft!ProposesGrounded]_Draft!vars
  BY StepsKeep
<1> QED BY <1>1, DraftInvariant, PTL DEF Draft!Spec, Draft!ProposalsAreGrounded

----------------------------------------------------------------------------
(* The page of the reviews (QuarterlyPage), for any achievements and        *)
(* templates, any review it is opened on and any bounds.                    *)

CONSTANTS Achievements, Templates, Starts, Others, Budgets

VARIABLES rows, page, form, calls

Page == INSTANCE QuarterlyPage WITH review <- draft, budget <- left

\* What a request makes of the review and its rows.
Moves ==
  /\ draft' \in Page!Review /\ rows' \in Page!Rows /\ offers' \subseteq Nat
  /\ \/ draft' = draft /\ rows' = rows
     \/ draft'.version = draft.version + 1
  /\ draft'.template = None => draft.template = None /\ draft'.scores = 0
  /\ \A a \in Achievements : rows[a] # None =>
       /\ rows'[a] # None /\ rows[a].version <= rows'[a].version
       /\ rows'[a].version = rows[a].version => Page!Said(rows'[a]) = Page!Said(rows[a])

\* A row that is there is a row.
LEMMA RowIsRow ==
  ASSUME Page!QuarterlyPageAssumption, rows \in Page!Rows, NEW a \in Achievements, rows[a] # None
  PROVE  /\ rows[a] \in Page!Row /\ rows[a].version \in Nat /\ rows[a].text \in Nat
         /\ rows[a].select \in Page!Selections /\ rows[a].links \in Nat /\ rows[a].ev \in Nat
BY DEF Page!Rows, Page!Row

\* A row has these fields.
LEMMA RowFields ==
  ASSUME NEW r \in Page!Row
  PROVE  r = [version |-> r.version, text |-> r.text, select |-> r.select, links |-> r.links, ev |-> r.ev]
BY DEF Page!Row

\* A row loses its links, or is collected again.
LEMMA RowUnlinked ==
  ASSUME NEW r \in Page!Row
  PROVE  /\ [r EXCEPT !.links = 0, !.version = @ + 1] \in Page!Row
         /\ [r EXCEPT !.links = 0, !.version = @ + 1].version = r.version + 1
<1> DEFINE v == r.version + 1
           c == [r EXCEPT !.links = 0, !.version = v]
<1>1. v \in Nat
  BY DEF Page!Row, Page!Selections
<1>2. c \in Page!Row /\ c.version = v
  <2> HIDE DEF v
  <2> QED BY <1>1 DEF Page!Row, Page!Selections
<1> QED BY <1>2

LEMMA RowCollected ==
  ASSUME Page!QuarterlyPageAssumption, NEW r \in Page!Row, Page!Stamp \in Nat, NEW rises \in BOOLEAN
  PROVE  /\ Page!Collected(r, rises) \in Page!Row /\ r.version <= Page!Collected(r, rises).version
         /\ Page!Said(Page!Collected(r, rises)) = Page!Said(r)
<1> DEFINE v == IF rises THEN r.version + 1 ELSE r.version
           c == [r EXCEPT !.ev = Page!Stamp, !.version = v]
<1>1. v \in Nat /\ r.version <= v
  BY DEF Page!Row, Page!Selections
<1>2. c \in Page!Row /\ c.version = v /\ c.text = r.text /\ c.select = r.select /\ c.links = r.links
  <2> HIDE DEF v
  <2> QED BY <1>1 DEF Page!Row, Page!Selections
<1>3. Page!Collected(r, rises) = c
  BY DEF Page!Collected, Page!QuarterlyPageAssumption
<1> HIDE DEF c
<1> QED BY <1>1, <1>2, <1>3 DEF Page!Said

\* A review that is written is a review.
LEMMA ReviewFields ==
  ASSUME draft \in Page!Review
  PROVE  /\ draft.version \in Nat /\ draft.template \in Templates \union {None} /\ draft.scores \in Nat
         /\ draft.text \in Nat /\ draft.confirmed \in Page!Confirmed \union {None}
         /\ draft.collecting \in BOOLEAN
         /\ draft = [version |-> draft.version, template |-> draft.template, scores |-> draft.scores,
                     text |-> draft.text, confirmed |-> draft.confirmed, collecting |-> draft.collecting]
         /\ draft.version + 1 \in Nat
BY DEF Page!Review

LEMMA ReviewBumped ==
  ASSUME draft \in Page!Review, Page!TypeOK
  PROVE  /\ Page!Bumped(draft) \in Page!Review
         /\ \A x \in Templates : [Page!Bumped(draft) EXCEPT !.template = x] \in Page!Review
         /\ \A n \in Nat : [Page!Bumped(draft) EXCEPT !.scores = n] \in Page!Review
         /\ \A n \in Nat : [Page!Bumped(draft) EXCEPT !.text = n] \in Page!Review
         /\ [Page!Bumped(draft) EXCEPT !.collecting = TRUE] \in Page!Review
         /\ \A c \in Page!Confirmed :
              [draft EXCEPT !.version = @ + 1, !.collecting = FALSE, !.confirmed = c] \in Page!Review
         /\ [draft EXCEPT !.version = @ + 1, !.collecting = FALSE] \in Page!Review
BY ReviewFields DEF Page!Review, Page!Bumped

\* The fields of a review that is written.
LEMMA BumpedFields ==
  ASSUME draft \in Page!Review
  PROVE  LET r == Page!Bumped(draft)
         IN /\ r.version = draft.version + 1 /\ r.template = draft.template /\ r.scores = draft.scores
            /\ \A x : /\ [r EXCEPT !.template = x].version = draft.version + 1
                      /\ [r EXCEPT !.template = x].template = x
            /\ \A x : /\ [r EXCEPT !.scores = x].version = draft.version + 1
                      /\ [r EXCEPT !.scores = x].template = draft.template
            /\ \A x : /\ [r EXCEPT !.text = x].version = draft.version + 1
                      /\ [r EXCEPT !.text = x].template = draft.template
                      /\ [r EXCEPT !.text = x].scores = draft.scores
            /\ \A x : /\ [r EXCEPT !.collecting = x].version = draft.version + 1
                      /\ [r EXCEPT !.collecting = x].template = draft.template
                      /\ [r EXCEPT !.collecting = x].scores = draft.scores
BY DEF Page!Review, Page!Bumped

\* Achievements are made, edited, decided on, proved or mapped.
LEMMA RowsMove ==
  ASSUME Page!QuarterlyPageAssumption, Page!TypeOK, NEW m, NEW b,
         Page!WritesRows(m, b) \/ Page!CreatesManual(m, b)
  PROVE  Moves
<1> USE DEF Page!TypeOK
<1>1. Page!Stamp \in Nat
  BY ReviewFields DEF Page!Stamp
<1>2. draft' = Page!Bumped(draft) /\ offers' = offers
  BY DEF Page!WritesRows, Page!CreatesManual
<1>3. CASE Page!WritesRows(m, b)
  <2> DEFINE new(a) == Page!Rewritten(m, b, rows[a])
  <2>1. rows' = [a \in Achievements |-> IF a \in DOMAIN b.rows THEN new(a) ELSE rows[a]]
    BY <1>3 DEF Page!WritesRows
  <2>2. \A a \in Achievements : a \in DOMAIN b.rows => rows[a] # None
    BY <1>3 DEF Page!WritesRows, Page!Current
  <2>3. ASSUME NEW a \in Achievements, rows[a] # None
        PROVE  new(a) \in Page!Row /\ new(a).version = rows[a].version + 1
    <3>1. m = "select" => b.choice \in Page!Selections
      BY <1>3 DEF Page!WritesRows
    <3> DEFINE t == IF m = "save" THEN Page!Stamp ELSE rows[a].text
               x == IF m = "select" THEN b.choice ELSE rows[a].select
               l == IF m = "map" THEN Page!Stamp ELSE rows[a].links
               e == IF m = "evidence" THEN Page!Stamp ELSE rows[a].ev
    <3>2. t \in Nat /\ x \in Page!Selections /\ l \in Nat /\ e \in Nat /\ rows[a].version + 1 \in Nat
      BY <1>1, <2>3, <3>1, RowIsRow
    <3>3. new(a) = [version |-> rows[a].version + 1, text |-> t, select |-> x, links |-> l, ev |-> e]
      <4> HIDE DEF t, x, l, e
      <4>1. PICK r \in Page!Row : r = rows[a]
        BY <2>3, RowIsRow
      <4>2. r = [version |-> r.version, text |-> r.text, select |-> r.select, links |-> r.links, ev |-> r.ev]
        BY RowFields
      <4>3. new(a) = [rows[a] EXCEPT !.version = @ + 1, !.text = t, !.select = x, !.links = l, !.ev = e]
        BY DEF Page!Rewritten, t, x, l, e
      <4> QED BY <4>1, <4>2, <4>3
    <3> QED BY <3>2, <3>3 DEF Page!Row
  <2>4. rows' \in Page!Rows
    BY <2>1, <2>2, <2>3 DEF Page!Rows
  <2>5. ASSUME NEW a \in Achievements, rows[a] # None
        PROVE  /\ rows'[a] # None /\ rows[a].version <= rows'[a].version
               /\ rows'[a].version = rows[a].version => Page!Said(rows'[a]) = Page!Said(rows[a])
    <3>1. CASE a \in DOMAIN b.rows
      BY <2>1, <2>3, <2>5, <3>1, RowIsRow DEF Page!QuarterlyPageAssumption
    <3>2. CASE a \notin DOMAIN b.rows
      BY <2>1, <2>5, <3>2, RowIsRow
    <3> QED BY <3>1, <3>2
  <2> QED BY <1>2, <2>4, <2>5, ReviewBumped, BumpedFields DEF Moves
<1>4. CASE Page!CreatesManual(m, b)
  <2>1. PICK a \in Achievements : rows[a] = None /\ rows' = [rows EXCEPT ![a] = Page!Manual]
    BY <1>4 DEF Page!CreatesManual
  <2>2. Page!Manual \in Page!Row
    BY <1>1 DEF Page!Manual, Page!Row, Page!Selections
  <2>3. rows' \in Page!Rows
    BY <2>1, <2>2 DEF Page!Rows
  <2>4. \A x \in Achievements : rows[x] # None => rows'[x] = rows[x]
    BY <2>1 DEF Page!Rows
  <2>5. ASSUME NEW x \in Achievements, rows[x] # None
        PROVE  /\ rows'[x] # None /\ rows[x].version <= rows'[x].version
               /\ rows'[x].version = rows[x].version => Page!Said(rows'[x]) = Page!Said(rows[x])
    BY <2>4, <2>5, RowIsRow
  <2> QED BY <1>2, <2>3, <2>5, ReviewBumped, BumpedFields DEF Moves
<1> QED BY <1>3, <1>4

\* The rows as they are move nowhere.
LEMMA RowsStay ==
  ASSUME Page!QuarterlyPageAssumption, rows \in Page!Rows, rows' = rows
  PROVE  \A a \in Achievements : rows[a] # None =>
           /\ rows'[a] # None /\ rows[a].version <= rows'[a].version
           /\ rows'[a].version = rows[a].version => Page!Said(rows'[a]) = Page!Said(rows[a])
BY RowIsRow

\* Every request moves the review or leaves it.
LEMMA RequestsMove ==
  ASSUME Page!QuarterlyPageAssumption, Page!TypeOK, NEW m, NEW b, Page!Does(m, b)
  PROVE  Moves
<1> USE DEF Page!TypeOK
<1>1. Page!Stamp \in Nat /\ draft.version \in Nat
  BY ReviewFields DEF Page!Stamp
<1>2. CASE Page!WritesRows(m, b) \/ Page!CreatesManual(m, b)
  BY <1>2, RowsMove
<1>3. CASE Page!Binds(m, b)
  <2>1. CASE draft' = draft /\ rows' = rows
    BY <1>3, <2>1, RowsStay DEF Page!Binds, Moves
  <2>2. CASE draft' # draft \/ rows' # rows
    <3> DEFINE new(a) == [rows[a] EXCEPT !.links = 0, !.version = @ + 1]
    <3>1. /\ b.choice \in Templates /\ offers' = offers
          /\ draft' = [Page!Bumped(draft) EXCEPT !.template = b.choice]
          /\ rows' = [a \in Achievements |->
               IF rows[a] # None /\ rows[a].links # 0 THEN new(a) ELSE rows[a]]
      BY <1>3, <2>2 DEF Page!Binds
    <3>2. ASSUME NEW a \in Achievements, rows[a] # None
          PROVE  new(a) \in Page!Row /\ new(a).version = rows[a].version + 1
      BY <3>2, RowIsRow, RowUnlinked
    <3>3. rows' \in Page!Rows
      BY <3>1, <3>2 DEF Page!Rows
    <3>4. ASSUME NEW a \in Achievements, rows[a] # None
          PROVE  /\ rows'[a] # None /\ rows[a].version <= rows'[a].version
                 /\ rows'[a].version = rows[a].version => Page!Said(rows'[a]) = Page!Said(rows[a])
      <4>1. CASE rows[a].links # 0
        <5>1. rows'[a] = new(a)
          BY <3>1, <3>4, <4>1
        <5>2. new(a) \in Page!Row /\ new(a).version = rows[a].version + 1 /\ rows[a].version \in Nat
          BY <3>2, <3>4, RowIsRow
        <5> HIDE DEF new
        <5> QED BY <5>1, <5>2 DEF Page!QuarterlyPageAssumption
      <4>2. CASE rows[a].links = 0
        <5>1. rows'[a] = rows[a]
          BY <3>1, <4>2
        <5> QED BY <3>4, <5>1, RowIsRow
      <4> QED BY <4>1, <4>2
    <3>5. draft'.template # None
      BY <3>1, BumpedFields DEF Page!QuarterlyPageAssumption
    <3> QED BY <3>1, <3>3, <3>4, <3>5, ReviewBumped, BumpedFields DEF Moves
  <2> QED BY <2>1, <2>2
<1>4. CASE Page!Scores(m, b)
  <2>1. /\ draft.template # None /\ draft' = [Page!Bumped(draft) EXCEPT !.scores = Page!Stamp]
        /\ rows' = rows /\ offers' = offers
    BY <1>4 DEF Page!Scores
  <2> QED BY <1>1, <2>1, RowsStay, ReviewBumped, BumpedFields DEF Moves
<1>5. CASE Page!WritesText(m, b)
  <2>1. /\ draft' = [Page!Bumped(draft) EXCEPT !.text = Page!Stamp]
        /\ rows' = rows /\ offers' \subseteq offers
    BY <1>5 DEF Page!WritesText
  <2> QED BY <1>1, <2>1, RowsStay, ReviewBumped, BumpedFields DEF Moves
<1>6. CASE Page!Rejects(m, b) \/ Page!Generates(m, b)
  <2>1. draft' = draft /\ rows' = rows /\ offers' \subseteq offers \union {draft.version}
    BY <1>6 DEF Page!Rejects, Page!Generates
  <2> QED BY <1>1, <2>1, RowsStay DEF Moves
<1>7. CASE Page!Collects(m, b)
  <2>1. /\ draft' = [Page!Bumped(draft) EXCEPT !.collecting = TRUE]
        /\ rows' = rows /\ offers' = offers
    BY <1>7 DEF Page!Collects
  <2> QED BY <1>1, <2>1, RowsStay, ReviewBumped, BumpedFields DEF Moves
<1>8. CASE Page!Confirms(m, b)
  <2> DEFINE c == [at |-> draft.version, text |-> draft.text, acks |-> Page!Risks]
  <2>1. rows' = rows /\ offers' = offers
    BY <1>8 DEF Page!Confirms
  <2>2. CASE draft' = draft
    BY <2>1, <2>2, RowsStay DEF Moves
  <2>3. CASE draft' # draft
    <3>1. draft' = [draft EXCEPT !.version = @ + 1, !.collecting = FALSE, !.confirmed = c]
      BY <1>8, <2>3 DEF Page!Confirms
    <3>2. c \in Page!Confirmed
      BY ReviewFields DEF Page!Confirmed, Page!Risks
    <3>3. draft' \in Page!Review
      BY <3>1, <3>2, ReviewBumped
    <3>4. draft'.version = draft.version + 1 /\ draft'.template = draft.template
          /\ draft'.scores = draft.scores
      BY <3>1 DEF Page!Review
    <3> QED BY <2>1, <3>3, <3>4, RowsStay DEF Moves
  <2> QED BY <2>2, <2>3
<1> QED BY <1>2, <1>3, <1>4, <1>5, <1>6, <1>7, <1>8 DEF Page!Does

\* A collection moves the review.
LEMMA CollectionMoves ==
  ASSUME Page!QuarterlyPageAssumption, Page!TypeOK, NEW as, NEW rises \in BOOLEAN,
         Page!CollectionEnds(as, rises)
  PROVE  Moves
<1> USE DEF Page!TypeOK
<1> DEFINE new(a) == Page!Collected(rows[a], rises)
<1>1. Page!Stamp \in Nat /\ draft.version \in Nat
  BY ReviewFields DEF Page!Stamp
<1>2. /\ rows' = [a \in Achievements |-> IF a \in as THEN new(a) ELSE rows[a]]
      /\ draft' = [draft EXCEPT !.version = @ + 1, !.collecting = FALSE] /\ offers' = offers
  BY DEF Page!CollectionEnds
<1>3. ASSUME NEW a \in Achievements
      PROVE  /\ new(a) \in Page!Row
             /\ rows[a] # None =>
                  /\ rows[a].version <= new(a).version
                  /\ Page!Said(new(a)) = Page!Said(rows[a])
  <2>1. CASE rows[a] = None
    BY <1>1, <2>1 DEF Page!Collected, Page!Row, Page!Selections
  <2>2. CASE rows[a] # None
    <3>1. PICK r \in Page!Row : r = rows[a]
      BY <2>2, RowIsRow
    <3>2. new(a) = Page!Collected(r, rises)
      BY <3>1
    <3>3. new(a) \in Page!Row /\ r.version <= new(a).version /\ Page!Said(new(a)) = Page!Said(r)
      BY <1>1, <3>2, RowCollected
    <3> HIDE DEF new
    <3> QED BY <3>1, <3>3
  <2> QED BY <2>1, <2>2
<1>4. rows' \in Page!Rows
  BY <1>2, <1>3 DEF Page!Rows
<1>5. ASSUME NEW a \in Achievements, rows[a] # None
      PROVE  /\ rows'[a] # None /\ rows[a].version <= rows'[a].version
             /\ rows'[a].version = rows[a].version => Page!Said(rows'[a]) = Page!Said(rows[a])
  <2>1. CASE a \in as
    BY <1>2, <1>3, <1>5, <2>1 DEF Page!QuarterlyPageAssumption
  <2>2. CASE a \notin as
    BY <1>2, <1>5, <2>2, RowIsRow
  <2> QED BY <2>1, <2>2
<1>6. draft' \in Page!Review
  BY <1>2, ReviewBumped
<1>7. draft'.version = draft.version + 1 /\ draft'.template = draft.template
      /\ draft'.scores = draft.scores
  BY <1>2 DEF Page!Review
<1> QED BY <1>2, <1>4, <1>5, <1>6, <1>7 DEF Moves

\* Older copies stay older or true.
LEMMA CopiesStay ==
  ASSUME Page!TypeOK, Moves
  PROVE  /\ \A d : Page!ReviewTells(d) => Page!ReviewTells(d)'
         /\ \A f : Page!RowsTell(f) => Page!RowsTell(f)'
         /\ \A list, at : Page!ListTells(list, at) => Page!ListTells(list, at)'
<1> USE DEF Page!TypeOK
<1>1. draft.version \in Nat /\ draft'.version \in Nat /\ draft.version <= draft'.version
      /\ (draft'.version = draft.version => draft' = draft /\ rows' = rows)
  <2>1. draft.version \in Nat
    BY ReviewFields
  <2> QED BY <2>1 DEF Moves
<1>2. ASSUME NEW d, Page!ReviewTells(d)
      PROVE  Page!ReviewTells(d)'
  <2>1. d.version \in Nat /\ d \in Page!Review
    BY <1>2 DEF Page!ReviewTells, Page!Review
  <2>2. d.version <= draft'.version /\ (d.version = draft'.version => d = draft')
    BY <1>1, <1>2, <2>1 DEF Page!ReviewTells
  <2>3. draft'.template = None => d.template = None
    BY <1>2 DEF Page!ReviewTells, Moves
  <2> QED BY <1>2, <2>1, <2>2, <2>3 DEF Page!ReviewTells
<1>3. ASSUME NEW f, Page!RowsTell(f)
      PROVE  Page!RowsTell(f)'
  <2>1. ASSUME NEW a \in DOMAIN f
        PROVE  Page!RowTells(a, f[a])'
    <3>1. a \in Achievements /\ Page!RowTells(a, f[a])
      BY <1>3 DEF Page!RowsTell
    <3>2. /\ f[a] \in Page!Row /\ rows[a] # None /\ f[a].version <= rows[a].version
          /\ f[a].version = rows[a].version => Page!Said(f[a]) = Page!Said(rows[a])
      BY <3>1 DEF Page!RowTells
    <3>3. f[a].version \in Nat
      BY <3>2 DEF Page!Row
    <3>4. /\ rows'[a] # None /\ rows[a].version <= rows'[a].version
          /\ rows'[a].version = rows[a].version => Page!Said(rows'[a]) = Page!Said(rows[a])
      BY <3>1, <3>2 DEF Moves
    <3>5. rows[a].version \in Nat /\ rows'[a].version \in Nat
      <4>1. rows[a] \in Page!Row \union {None} /\ rows'[a] \in Page!Row \union {None}
        BY <3>1 DEF Page!Rows, Moves
      <4>2. rows[a] \in Page!Row /\ rows'[a] \in Page!Row
        BY <3>2, <3>4, <4>1
      <4> QED BY <4>2 DEF Page!Row
    <3>6. f[a].version <= rows'[a].version
      BY <3>2, <3>3, <3>4, <3>5
    <3>7. f[a].version = rows'[a].version => Page!Said(f[a]) = Page!Said(rows'[a])
      BY <3>2, <3>3, <3>4, <3>5
    <3> QED BY <3>2, <3>4, <3>6, <3>7 DEF Page!RowTells, Page!Said
  <2> QED BY <1>3, <2>1 DEF Page!RowsTell
<1>4. ASSUME NEW list, NEW at, Page!ListTells(list, at)
      PROVE  Page!ListTells(list, at)'
  <2>1. at \in Nat /\ at <= draft.version
    BY <1>4 DEF Page!ListTells
  <2>2. at <= draft'.version
    BY <1>1, <2>1
  <2>3. at = draft'.version => draft' = draft /\ rows' = rows /\ at = draft.version
    BY <1>1, <2>1
  <2>4. at = draft'.version => list = Page!Copy(Page!Stored)'
    BY <1>4, <2>3 DEF Page!ListTells, Page!Copy, Page!Stored
  <2> QED BY <2>1, <2>2, <2>4 DEF Page!ListTells
<1> QED BY <1>2, <1>3, <1>4

\* What is read is true.
LEMMA ReadsTell ==
  ASSUME Page!QuarterlyPageAssumption, Page!TypeOK
  PROVE  /\ Page!ReviewTells(draft)
         /\ \A s : s \subseteq Page!Stored => Page!RowsTell(Page!Copy(s))
         /\ Page!ListTells(Page!Copy(Page!Stored), draft.version)
<1> USE DEF Page!TypeOK
<1>1. draft.version \in Nat
  BY ReviewFields
<1>2. Page!ReviewTells(draft)
  BY <1>1 DEF Page!ReviewTells
<1>3. ASSUME NEW s, s \subseteq Page!Stored
      PROVE  Page!RowsTell(Page!Copy(s))
  <2>1. ASSUME NEW a \in s
        PROVE  a \in Achievements /\ Page!RowTells(a, Page!Copy(s)[a])
    <3>1. a \in Achievements /\ rows[a] # None /\ Page!Copy(s)[a] = rows[a]
      BY <1>3, <2>1 DEF Page!Stored, Page!Copy
    <3> QED BY <3>1, RowIsRow DEF Page!RowTells
  <2> QED BY <2>1 DEF Page!RowsTell, Page!Copy
<1>4. Page!ListTells(Page!Copy(Page!Stored), draft.version)
  BY <1>1 DEF Page!ListTells
<1> QED BY <1>2, <1>3, <1>4

\* What a copy of the page, a form and a request tell.
PageTells(p) ==
  /\ Page!ReviewTells(p.detail) /\ Page!RowsTell(p.table) /\ Page!RowsTell(p.all)
  /\ Page!ListTells(p.all, p.at)
  /\ p.scores = p.detail.scores /\ p.text \in {None, p.detail.text}
CallTells(b) ==
  /\ Page!ReviewTells(b.detail) /\ Page!RowsTell(b.rows) /\ Page!ListTells(b.all, b.at)
  /\ b.scores = b.detail.scores /\ b.text \in {None, b.detail.text}

LEMMA CopiesTellIs ==
  Page!CopiesTell <=>
    /\ PageTells(page)
    /\ form # None => Page!RowsTell(form.rows)
    /\ \A m \in Page!Mutations : calls[m] # None => CallTells(calls[m])
BY DEF Page!CopiesTell, PageTells, CallTells

\* They go on telling it when others write.
LEMMA TellsStay ==
  ASSUME Page!TypeOK, Moves
  PROVE  /\ \A p : PageTells(p) => PageTells(p)'
         /\ \A b : CallTells(b) => CallTells(b)'
BY CopiesStay DEF PageTells, CallTells

\* The database stays.
LEMMA StaysMoves ==
  ASSUME Page!QuarterlyPageAssumption, Page!TypeOK, UNCHANGED <<draft, rows, offers>>
  PROVE  Moves
BY RowsStay DEF Moves, Page!TypeOK

\* Everything the page shows but x.
Keeps(q, p, x) ==
  /\ x = "detail" \/ q.detail = p.detail
  /\ x = "text" \/ q.text = p.text
  /\ x = "table" \/ q.table = p.table
  /\ x = "all" \/ q.all = p.all
  /\ x = "at" \/ q.at = p.at
  /\ x = "scores" \/ q.scores = p.scores
  /\ x = "due" \/ q.due = p.due

\* What is written into the page, and what it leaves.
LEMMA PutDue ==
  ASSUME NEW p, Page!Paged(p), NEW x, x \subseteq Page!Queries, NEW q, q = [p EXCEPT !.due = x]
  PROVE  Page!Paged(q) /\ q.due = x /\ Keeps(q, p, "due")
BY DEF Page!Paged, Keeps

LEMMA PutFilter ==
  ASSUME NEW p, Page!Paged(p), NEW x, x \in Page!Filters, NEW q, q = [p EXCEPT !.filter = x]
  PROVE  Page!Paged(q) /\ q.filter = x /\ Keeps(q, p, "filter")
BY DEF Page!Paged, Keeps

LEMMA PutDetail ==
  ASSUME NEW p, Page!Paged(p), NEW x, NEW q, q = [p EXCEPT !.detail = x]
  PROVE  Page!Paged(q) /\ q.detail = x /\ Keeps(q, p, "detail")
BY DEF Page!Paged, Keeps

LEMMA PutText ==
  ASSUME NEW p, Page!Paged(p), NEW x, NEW q, q = [p EXCEPT !.text = x]
  PROVE  Page!Paged(q) /\ q.text = x /\ Keeps(q, p, "text")
BY DEF Page!Paged, Keeps

LEMMA PutTable ==
  ASSUME NEW p, Page!Paged(p), NEW x, NEW q, q = [p EXCEPT !.table = x]
  PROVE  Page!Paged(q) /\ q.table = x /\ Keeps(q, p, "table")
BY DEF Page!Paged, Keeps

LEMMA PutAll ==
  ASSUME NEW p, Page!Paged(p), NEW x, NEW q, q = [p EXCEPT !.all = x]
  PROVE  Page!Paged(q) /\ q.all = x /\ Keeps(q, p, "all")
BY DEF Page!Paged, Keeps

LEMMA PutAt ==
  ASSUME NEW p, Page!Paged(p), NEW x, NEW q, q = [p EXCEPT !.at = x]
  PROVE  Page!Paged(q) /\ q.at = x /\ Keeps(q, p, "at")
BY DEF Page!Paged, Keeps

LEMMA PutScores ==
  ASSUME NEW p, Page!Paged(p), NEW x, NEW q, q = [p EXCEPT !.scores = x]
  PROVE  Page!Paged(q) /\ q.scores = x /\ Keeps(q, p, "scores")
BY DEF Page!Paged, Keeps

LEMMA PutGate ==
  ASSUME NEW p, Page!Paged(p), NEW x, NEW q, q = [p EXCEPT !.gate = x]
  PROVE  Page!Paged(q) /\ q.gate = x /\ Keeps(q, p, "gate")
BY DEF Page!Paged, Keeps

LEMMA PutOffers ==
  ASSUME NEW p, Page!Paged(p), NEW x, NEW q, q = [p EXCEPT !.offers = x]
  PROVE  Page!Paged(q) /\ q.offers = x /\ Keeps(q, p, "offers")
BY DEF Page!Paged, Keeps

LEMMA PutTicked ==
  ASSUME NEW p, Page!Paged(p), NEW x, NEW q, q = [p EXCEPT !.ticked = x]
  PROVE  Page!Paged(q) /\ q.ticked = x /\ Keeps(q, p, "ticked")
BY DEF Page!Paged, Keeps

LEMMA PutReasons ==
  ASSUME NEW p, Page!Paged(p), NEW x, NEW q, q = [p EXCEPT !.reasons = x]
  PROVE  Page!Paged(q) /\ q.reasons = x /\ Keeps(q, p, "reasons")
BY DEF Page!Paged, Keeps

\* The page shows the same.
LEMMA ShowsTells ==
  ASSUME NEW p, NEW q, PageTells(p), NEW x \in {"due", "gate", "offers", "filter", "ticked", "reasons"},
         Keeps(q, p, x)
  PROVE  PageTells(q)
<1>1. /\ q.detail = p.detail /\ q.text = p.text /\ q.table = p.table /\ q.all = p.all
      /\ q.at = p.at /\ q.scores = p.scores
  BY DEF Keeps
<1> QED BY <1>1 DEF PageTells

\* The review is polled.
LEMMA PagePolled ==
  ASSUME Page!QuarterlyPageAssumption, Page!TypeOK, Page!CopiesTell, Page!Poll
  PROVE  Page!Paged(page') /\ PageTells(page')
<1> DEFINE x == Page!ScoresShown
           due == page.due \union {"text", "gate"}
           q1 == [page EXCEPT !.detail = draft]
           q2 == [q1 EXCEPT !.scores = x]
           q3 == [q2 EXCEPT !.text = None]
           q4 == [q3 EXCEPT !.gate = None]
           q5 == [q4 EXCEPT !.due = due]
<1>1. Page!Paged(page) /\ PageTells(page) /\ Page!ReviewTells(draft)
  BY CopiesTellIs, ReadsTell DEF Page!TypeOK
<1>2. x = draft.scores
  <2>1. Page!ReviewTells(page.detail) /\ page.scores = page.detail.scores
    BY <1>1 DEF PageTells
  <2>2. CASE draft.template # None /\ draft.version # page.detail.version
    BY <2>2 DEF Page!ScoresShown
  <2>3. CASE draft.version = page.detail.version
    BY <2>1, <2>3 DEF Page!ScoresShown, Page!ReviewTells
  <2>4. CASE draft.template = None
    BY <2>1, <2>4 DEF Page!ScoresShown, Page!ReviewTells, Page!TypeOK
  <2> QED BY <2>2, <2>3, <2>4
<1>3. due \in SUBSET Page!Queries
  BY <1>1 DEF Page!Paged, Page!Queries
<1>4. page' = IF draft.text = page.detail.text THEN q2 ELSE q5
  BY DEF Page!Poll, Page!NoText
<1> HIDE DEF x, due
<1>5. Page!Paged(q1) /\ q1.detail = draft /\ Keeps(q1, page, "detail")
  BY <1>1, PutDetail
<1> HIDE DEF q1
<1>6. Page!Paged(q2) /\ q2.scores = x /\ Keeps(q2, q1, "scores")
  BY <1>5, PutScores
<1> HIDE DEF q2
<1>7. Page!Paged(q3) /\ q3.text = None /\ Keeps(q3, q2, "text")
  BY <1>6, PutText
<1> HIDE DEF q3
<1>8. Page!Paged(q4) /\ Keeps(q4, q3, "gate")
  BY <1>7, PutGate
<1> HIDE DEF q4
<1>9. Page!Paged(q5) /\ Keeps(q5, q4, "due")
  BY <1>3, <1>8, PutDue
<1> HIDE DEF q5
<1>10. q2.detail = draft /\ q2.scores = x /\ q2.text = page.text /\ q2.table = page.table
       /\ q2.all = page.all /\ q2.at = page.at
  BY <1>5, <1>6 DEF Keeps
<1>11. q5.detail = draft /\ q5.scores = x /\ q5.text = None /\ q5.table = page.table
       /\ q5.all = page.all /\ q5.at = page.at
  BY <1>7, <1>8, <1>9, <1>10 DEF Keeps
<1>12. draft.text = page.detail.text => PageTells(q2)
  BY <1>1, <1>2, <1>10 DEF PageTells
<1>13. PageTells(q5)
  BY <1>1, <1>2, <1>11 DEF PageTells
<1> QED BY <1>4, <1>6, <1>9, <1>12, <1>13

\* Something is read.
LEMMA PageFetched ==
  ASSUME Page!QuarterlyPageAssumption, Page!TypeOK, Page!CopiesTell, NEW x \in Page!Queries, Page!Fetch(x)
  PROVE  Page!Paged(page') /\ PageTells(page')
<1> DEFINE p == Page!Read(x)
           read == Page!Copy(Page!Passing(page.filter))
           list == Page!Copy(Page!Stored)
           q == [p EXCEPT !.all = list]
<1>1. Page!Paged(page) /\ PageTells(page)
  BY CopiesTellIs DEF Page!TypeOK
<1>2. Page!Paged(p) /\ PageTells(p) /\ p.detail = page.detail
  <2>1. page.due \ {x} \in SUBSET Page!Queries
    BY <1>1 DEF Page!Paged
  <2>2. Page!Paged(p) /\ Keeps(p, page, "due")
    BY <1>1, <2>1, PutDue DEF Page!Read
  <2> HIDE DEF p
  <2> QED BY <1>1, <2>2, ShowsTells DEF Keeps
<1>3. Page!RowsTell(read) /\ Page!RowsTell(list) /\ Page!ListTells(list, draft.version)
  BY ReadsTell DEF Page!Passing
<1>4. page' = CASE x = "text" -> [p EXCEPT !.text = page.detail.text]
                [] x = "table" -> [p EXCEPT !.table = read]
                [] x = "all" -> [q EXCEPT !.at = draft.version]
                [] x = "gate" -> [p EXCEPT !.gate = Page!Gate]
                [] x = "offers" -> [p EXCEPT !.offers = offers]
  BY DEF Page!Fetch
<1> HIDE DEF p, read, list, q
<1>5. CASE x = "text"
  <2> DEFINE r == [p EXCEPT !.text = page.detail.text]
  <2>1. page' = r
    BY <1>4, <1>5
  <2>2. Page!Paged(r) /\ r.text = page.detail.text /\ Keeps(r, p, "text")
    BY <1>2, PutText
  <2> HIDE DEF r
  <2> QED BY <1>2, <2>1, <2>2 DEF PageTells, Keeps
<1>6. CASE x = "table"
  <2> DEFINE r == [p EXCEPT !.table = read]
  <2>1. page' = r
    BY <1>4, <1>6
  <2>2. Page!Paged(r) /\ r.table = read /\ Keeps(r, p, "table")
    BY <1>2, PutTable
  <2> HIDE DEF r
  <2> QED BY <1>2, <1>3, <2>1, <2>2 DEF PageTells, Keeps
<1>7. CASE x = "all"
  <2> DEFINE r == [q EXCEPT !.at = draft.version]
  <2>1. page' = r
    BY <1>4, <1>7
  <2>2. Page!Paged(q) /\ q.all = list /\ Keeps(q, p, "all")
    BY <1>2, PutAll DEF q
  <2>3. Page!Paged(r) /\ r.at = draft.version /\ Keeps(r, q, "at")
    BY <2>2, PutAt
  <2> HIDE DEF r
  <2> QED BY <1>2, <1>3, <2>1, <2>2, <2>3 DEF PageTells, Keeps
<1>8. CASE x = "gate"
  <2> DEFINE r == [p EXCEPT !.gate = Page!Gate]
  <2>1. page' = r
    BY <1>4, <1>8
  <2>2. Page!Paged(r) /\ Keeps(r, p, "gate")
    BY <1>2, PutGate
  <2> HIDE DEF r
  <2> QED BY <1>2, <2>1, <2>2, ShowsTells
<1>9. CASE x = "offers"
  <2> DEFINE r == [p EXCEPT !.offers = offers]
  <2>1. page' = r
    BY <1>4, <1>9
  <2>2. Page!Paged(r) /\ Keeps(r, p, "offers")
    BY <1>2, PutOffers
  <2> HIDE DEF r
  <2> QED BY <1>2, <2>1, <2>2, ShowsTells
<1> QED BY <1>5, <1>6, <1>7, <1>8, <1>9 DEF Page!Queries

\* Everything is to be read again.
LEMMA PageRefreshed ==
  ASSUME NEW p, Page!Paged(p), PageTells(p)
  PROVE  Page!Paged(Page!Refreshed(p)) /\ PageTells(Page!Refreshed(p))
<1> DEFINE q == [p EXCEPT !.due = Page!Queries]
<1>1. Page!Paged(q) /\ Keeps(q, p, "due")
  BY PutDue
<1> HIDE DEF q
<1>2. Page!Paged(q) /\ PageTells(q)
  BY <1>1, ShowsTells
<1> QED BY <1>2 DEF q, Page!Refreshed

\* Another filter is chosen.
LEMMA PageFiltered ==
  ASSUME Page!TypeOK, Page!CopiesTell, NEW f \in Page!Filters, Page!ChooseFilter(f)
  PROVE  Page!Paged(page') /\ PageTells(page')
<1> DEFINE due == page.due \union {"table"}
           q1 == [page EXCEPT !.filter = f]
           q2 == [q1 EXCEPT !.ticked = {}]
           q3 == [q2 EXCEPT !.table = Page!NoRows]
           q4 == [q3 EXCEPT !.due = due]
<1>1. Page!Paged(page) /\ PageTells(page)
  BY CopiesTellIs DEF Page!TypeOK
<1>2. due \in SUBSET Page!Queries
  BY <1>1 DEF Page!Paged, Page!Queries
<1>3. page' = q4
  BY DEF Page!ChooseFilter
<1> HIDE DEF due
<1>4. Page!Paged(q1) /\ Keeps(q1, page, "filter")
  BY <1>1, PutFilter
<1> HIDE DEF q1
<1>5. Page!Paged(q2) /\ Keeps(q2, q1, "ticked")
  BY <1>4, PutTicked
<1> HIDE DEF q2
<1>6. Page!Paged(q3) /\ q3.table = Page!NoRows /\ Keeps(q3, q2, "table")
  BY <1>5, PutTable
<1> HIDE DEF q3
<1>7. Page!Paged(q4) /\ Keeps(q4, q3, "due")
  BY <1>2, <1>6, PutDue
<1> HIDE DEF q4
<1>8. Page!RowsTell(Page!NoRows)
  BY DEF Page!RowsTell, Page!NoRows
<1>9. q4.detail = page.detail /\ q4.scores = page.scores /\ q4.text = page.text
      /\ q4.table = Page!NoRows /\ q4.all = page.all /\ q4.at = page.at
  BY <1>4, <1>5, <1>6, <1>7 DEF Keeps
<1> QED BY <1>1, <1>3, <1>7, <1>8, <1>9 DEF PageTells

\* Rows are ticked, and reasons given.
LEMMA PageTicked ==
  ASSUME NEW p, Page!Paged(p), PageTells(p), NEW x
  PROVE  /\ Page!Paged([p EXCEPT !.ticked = x]) /\ PageTells([p EXCEPT !.ticked = x])
         /\ Page!Paged([p EXCEPT !.reasons = x]) /\ PageTells([p EXCEPT !.reasons = x])
<1> DEFINE q == [p EXCEPT !.ticked = x]
           r == [p EXCEPT !.reasons = x]
<1>1. Page!Paged(q) /\ Keeps(q, p, "ticked") /\ Page!Paged(r) /\ Keeps(r, p, "reasons")
  BY PutTicked, PutReasons
<1> HIDE DEF q, r
<1>2. Page!Paged(q) /\ PageTells(q) /\ Page!Paged(r) /\ PageTells(r)
  BY <1>1, ShowsTells
<1> QED BY <1>2 DEF q, r
\* The parts of a step that keep the invariant.
LEMMA StepKeeps ==
  ASSUME Page!IInv, Moves, Page!Paged(page'), PageTells(page'),
         form' # None => Page!Formed(form') /\ Page!RowsTell(form'.rows),
         calls' = [m \in Page!Mutations |-> calls'[m]],
         \A m \in Page!Mutations : calls'[m] # None =>
           /\ Page!Call(calls'[m]) /\ CallTells(calls'[m])
           /\ m \notin Page!RowRequests => DOMAIN calls'[m].rows = {},
         left' \in [own: Nat, other: Nat]
  PROVE  Page!IInv'
<1>1. Page!TypeOK
  BY DEF Page!IInv
<1>2. PageTells(page)'
  BY <1>1, TellsStay
<1>3. form' # None => Page!RowsTell(form.rows)'
  BY <1>1, CopiesStay
<1>4. \A m \in Page!Mutations : calls'[m] # None => CallTells(calls[m])'
  BY <1>1, TellsStay
<1>5. Page!CopiesTell'
  BY <1>2, <1>3, <1>4 DEF Page!CopiesTell, PageTells, CallTells
<1>6. Page!TypeOK'
  BY DEF Page!TypeOK, Moves, Page!Paged, Page!Formed, Page!Call
<1>7. Page!RequestsFit'
  BY DEF Page!RequestsFit
<1> QED BY <1>5, <1>6, <1>7 DEF Page!IInv

\* What the page, the form and the requests are before a step.
LEMMA BeforeStep ==
  ASSUME Page!IInv
  PROVE  /\ Page!TypeOK /\ Page!CopiesTell
         /\ Page!Paged(page) /\ PageTells(page)
         /\ form # None => Page!Formed(form) /\ Page!RowsTell(form.rows)
         /\ calls = [m \in Page!Mutations |-> calls[m]]
         /\ \A m \in Page!Mutations : calls[m] # None =>
              /\ Page!Call(calls[m]) /\ CallTells(calls[m])
              /\ m \notin Page!RowRequests => DOMAIN calls[m].rows = {}
         /\ left \in [own: Nat, other: Nat]
BY CopiesTellIs DEF Page!IInv, Page!TypeOK, Page!RequestsFit

\* The page reads, or is looked at in another way.
LEMMA PageSteps ==
  ASSUME Page!QuarterlyPageAssumption, Page!IInv,
         \/ Page!Poll \/ Page!Refresh \/ Page!Reason
         \/ \E x \in Page!Queries : Page!Fetch(x)
         \/ \E f \in Page!Filters : Page!ChooseFilter(f)
         \/ \E a \in Achievements : Page!Tick(a)
  PROVE  Page!IInv'
<1> USE BeforeStep
<1>1. UNCHANGED <<draft, rows, offers, form, calls, left>>
  BY DEF Page!Poll, Page!Refresh, Page!Reason, Page!Fetch, Page!ChooseFilter, Page!Tick, Page!database
<1>2. Page!Paged(page') /\ PageTells(page')
  <2>1. CASE Page!Poll
    BY <2>1, PagePolled
  <2>2. CASE Page!Refresh
    BY <2>2, PageRefreshed DEF Page!Refresh
  <2>3. CASE Page!Reason
    BY <2>3, PageTicked DEF Page!Reason
  <2>4. CASE \E x \in Page!Queries : Page!Fetch(x)
    BY <2>4, PageFetched
  <2>5. CASE \E f \in Page!Filters : Page!ChooseFilter(f)
    BY <2>5, PageFiltered
  <2>6. CASE \E a \in Achievements : Page!Tick(a)
    <3>1. PICK a \in Achievements : Page!Tick(a)
      BY <2>6
    <3> DEFINE x == IF a \in page.ticked THEN page.ticked \ {a} ELSE page.ticked \union {a}
    <3>2. page' = [page EXCEPT !.ticked = x]
      BY <3>1 DEF Page!Tick
    <3> HIDE DEF x
    <3> QED BY <3>2, PageTicked
  <2> QED BY <2>1, <2>2, <2>3, <2>4, <2>5, <2>6
<1>3. Moves
  BY <1>1, StaysMoves
<1> QED BY <1>1, <1>2, <1>3, StepKeeps

\* The rows a form is filled with, and those that are ticked, tell what the page shows.
LEMMA ShownRows ==
  ASSUME Page!IInv
  PROVE  /\ Page!RowsTell(Page!NoRows) /\ DOMAIN Page!NoRows = {}
         /\ \A a \in DOMAIN page.table : Page!RowsTell(Page!TableRow(a))
         /\ \A a \in DOMAIN page.all : Page!RowsTell(Page!ListRow(a))
         /\ Page!RowsTell(Page!TickedRows)
<1>1. Page!RowsTell(page.table) /\ Page!RowsTell(page.all)
  BY BeforeStep DEF PageTells
<1>2. /\ \A a \in DOMAIN page.table : a \in Achievements /\ Page!RowTells(a, page.table[a])
      /\ \A a \in DOMAIN page.all : a \in Achievements /\ Page!RowTells(a, page.all[a])
  BY <1>1 DEF Page!RowsTell
<1>3. Page!RowsTell(Page!NoRows) /\ DOMAIN Page!NoRows = {}
  BY DEF Page!RowsTell, Page!NoRows
<1>4. \A a \in DOMAIN page.table : Page!RowsTell(Page!TableRow(a))
  BY <1>2 DEF Page!RowsTell, Page!TableRow
<1>5. \A a \in DOMAIN page.all : Page!RowsTell(Page!ListRow(a))
  BY <1>2 DEF Page!RowsTell, Page!ListRow
<1>6. Page!RowsTell(Page!TickedRows)
  BY <1>2 DEF Page!RowsTell, Page!TickedRows
<1> QED BY <1>3, <1>4, <1>5, <1>6

\* A form is opened.
LEMMA Opening ==
  ASSUME Page!QuarterlyPageAssumption, Page!IInv, NEW m \in Page!Mutations, NEW r, NEW choice, NEW offer,
         Page!Open(m, r, choice, offer), Page!RowsTell(r)
  PROVE  Page!IInv'
<1>1. UNCHANGED <<draft, rows, offers, page, calls, left>>
  BY DEF Page!Open, Page!database
<1>2. Page!Formed(form') /\ form'.rows = r
  BY DEF Page!Open, Page!Formed
<1>3. Moves
  BY <1>1, StaysMoves, BeforeStep
<1> QED BY <1>1, <1>2, <1>3, StepKeeps, BeforeStep

LEMMA FormSteps ==
  ASSUME Page!QuarterlyPageAssumption, Page!IInv, Page!Opens \/ Page!Close
  PROVE  Page!IInv'
<1> USE ShownRows DEF Page!Mutations
<1>1. ASSUME NEW r \in Page!Captured, Page!OpenAchievementEditor(r)
      PROVE  Page!IInv'
  <2>1. Page!RowsTell(r) /\ Page!Open("save", r, None, 0)
    BY <1>1 DEF Page!OpenAchievementEditor
  <2> QED BY <2>1, Opening
<1>2. ASSUME NEW a \in Achievements, Page!OpenEvidence(a)
      PROVE  Page!IInv'
  <2>1. Page!RowsTell(Page!TableRow(a)) /\ Page!Open("evidence", Page!TableRow(a), None, 0)
    BY <1>2 DEF Page!OpenEvidence
  <2> QED BY <2>1, Opening
<1>3. ASSUME NEW a \in Achievements, Page!OpenMapping(a)
      PROVE  Page!IInv'
  <2>1. \/ Page!RowsTell(Page!TableRow(a)) /\ Page!Open("map", Page!TableRow(a), None, 0)
        \/ Page!RowsTell(Page!ListRow(a)) /\ Page!Open("map", Page!ListRow(a), None, 0)
    BY <1>3 DEF Page!OpenMapping, Page!Listed
  <2> QED BY <2>1, Opening
<1>4. ASSUME NEW a \in Achievements, Page!Drag(a)
      PROVE  Page!IInv'
  <2>1. UNCHANGED <<draft, rows, offers, calls, left>>
    BY <1>4 DEF Page!Drag, Page!database
  <2>2. Page!Paged(page') /\ PageTells(page')
    BY <1>4, PageTicked, BeforeStep DEF Page!Drag
  <2>3. Page!Formed(form') /\ form'.rows = Page!NoRows
    BY <1>4 DEF Page!Drag, Page!Formed
  <2>4. Moves
    BY <2>1, StaysMoves, BeforeStep
  <2> QED BY <2>1, <2>2, <2>3, <2>4, StepKeeps, BeforeStep
<1>5. ASSUME NEW x \in Page!Choices, Page!OpenSelection(x)
      PROVE  Page!IInv'
  BY <1>5, Opening DEF Page!OpenSelection
<1>6. ASSUME NEW x \in Page!Choices, NEW o, Page!OpenDecision(x, o)
      PROVE  Page!IInv'
  BY <1>6, Opening DEF Page!OpenDecision
<1>7. ASSUME Page!OpenCollection \/ Page!OpenNarrativeEditor \/ Page!OpenConfirmation
      PROVE  Page!IInv'
  BY <1>7, Opening DEF Page!OpenCollection, Page!OpenNarrativeEditor, Page!OpenConfirmation
<1>8. ASSUME Page!Close
      PROVE  Page!IInv'
  <2>1. UNCHANGED <<draft, rows, offers, page, calls, left>> /\ form' = None
    BY <1>8 DEF Page!Close, Page!database
  <2>2. Moves
    BY <2>1, StaysMoves, BeforeStep
  <2> QED BY <2>1, <2>2, StepKeeps, BeforeStep
<1> QED BY <1>1, <1>2, <1>3, <1>4, <1>5, <1>6, <1>7, <1>8 DEF Page!Opens

\* A request is sent.
LEMMA Sending ==
  ASSUME Page!QuarterlyPageAssumption, Page!IInv, NEW m \in Page!Mutations, NEW r, NEW choice, NEW offer,
         Page!Send(m, r, choice, offer), Page!RowsTell(r), m \in Page!RowRequests \/ r = Page!NoRows
  PROVE  Page!IInv'
<1> DEFINE b == Page!Body(r, choice, offer)
<1>1. UNCHANGED <<draft, rows, offers, page, form>>
  BY DEF Page!Send, Page!database
<1>2. Page!Call(b) /\ b.rows = r
  BY DEF Page!Body, Page!Call
<1>3. CallTells(b)
  <2>1. /\ b.detail = page.detail /\ b.all = page.all /\ b.at = page.at /\ b.scores = page.scores
        /\ b.text = page.text
    BY DEF Page!Body
  <2> HIDE DEF b
  <2> QED BY <1>2, <2>1, BeforeStep DEF CallTells, PageTells
<1>4. calls' = [calls EXCEPT ![m] = b]
  BY DEF Page!Send
<1>5. left' \in [own: Nat, other: Nat]
  <2> DEFINE n == left.own - 1
  <2>1. n \in Nat /\ left' = [left EXCEPT !.own = n]
    BY BeforeStep DEF Page!Send
  <2> HIDE DEF n
  <2> QED BY <2>1, BeforeStep
<1> HIDE DEF b
<1>6. m \notin Page!RowRequests => DOMAIN b.rows = {}
  BY <1>2, ShownRows
<1>7. /\ calls' = [x \in Page!Mutations |-> calls'[x]]
      /\ \A x \in Page!Mutations : calls'[x] # None =>
           /\ Page!Call(calls'[x]) /\ CallTells(calls'[x])
           /\ x \notin Page!RowRequests => DOMAIN calls'[x].rows = {}
  <2>1. calls' = [x \in Page!Mutations |-> IF x = m THEN b ELSE calls[x]]
    BY <1>4, BeforeStep
  <2> QED BY <1>2, <1>3, <1>6, <2>1, BeforeStep
<1>8. Moves
  BY <1>1, StaysMoves, BeforeStep
<1> QED BY <1>1, <1>5, <1>7, <1>8, StepKeeps, BeforeStep

LEMMA Submitting ==
  ASSUME Page!QuarterlyPageAssumption, Page!IInv, Page!Submit \/ Page!Presses
  PROVE  Page!IInv'
<1> USE DEF Page!Mutations, Page!RowRequests
<1>1. ASSUME NEW m \in {"save", "evidence", "map"}, form # None, Page!Send(m, form.rows, None, 0)
      PROVE  Page!IInv'
  BY <1>1, BeforeStep, Sending
<1>2. ASSUME Page!SubmitSelection
      PROVE  Page!IInv'
  BY <1>2, ShownRows, Sending DEF Page!SubmitSelection
<1>3. ASSUME NEW m \in Page!Mutations, NEW choice, NEW offer, Page!Send(m, Page!NoRows, choice, offer)
      PROVE  Page!IInv'
  BY <1>3, ShownRows, Sending
<1>4. CASE Page!Submit
  BY <1>1, <1>2, <1>3, <1>4 DEF Page!Submit, Page!SubmitAchievement, Page!SubmitEvidence, Page!SubmitMapping,
     Page!SubmitCollection, Page!SubmitNarrative, Page!SubmitDecision, Page!SubmitConfirmation
<1>5. CASE Page!Presses
  BY <1>3, <1>5 DEF Page!Presses, Page!BindTemplate, Page!SaveScores, Page!GenerateAi,
     Page!CreateRuleNarrative
<1> QED BY <1>4, <1>5

\* The answer of the server is noted.
LEMMA Staged ==
  ASSUME NEW b, Page!Call(b), CallTells(b), NEW s \in {"sent", "accepted", "refused"},
         NEW q, q = [b EXCEPT !.stage = s]
  PROVE  Page!Call(q) /\ CallTells(q) /\ q.rows = b.rows /\ q.stage = s
<1>1. /\ Page!Call(q) /\ q.rows = b.rows /\ q.stage = s /\ q.detail = b.detail /\ q.all = b.all
      /\ q.at = b.at /\ q.scores = b.scores /\ q.text = b.text
  BY DEF Page!Call
<1> QED BY <1>1 DEF CallTells

\* A request is served.
LEMMA Serving ==
  ASSUME Page!QuarterlyPageAssumption, Page!IInv, NEW m \in Page!Mutations, NEW ok \in BOOLEAN,
         Page!Served(m, ok)
  PROVE  Page!IInv'
<1> DEFINE s == IF ok THEN "accepted" ELSE "refused"
           q == [calls[m] EXCEPT !.stage = s]
<1>1. calls[m] # None /\ UNCHANGED <<page, form, left>> /\ calls' = [calls EXCEPT ![m] = q]
  BY DEF Page!Served
<1>2. Moves
  <2>1. CASE ok
    BY <2>1, BeforeStep, RequestsMove DEF Page!Served
  <2>2. CASE ~ok
    BY <2>2, BeforeStep, StaysMoves DEF Page!Served, Page!database
  <2> QED BY <2>1, <2>2
<1>3. Page!Call(q) /\ CallTells(q) /\ q.rows = calls[m].rows
  BY <1>1, BeforeStep, Staged
<1> HIDE DEF q
<1>4. calls' = [x \in Page!Mutations |-> IF x = m THEN q ELSE calls[x]]
  BY <1>1, BeforeStep
<1>5. \A x \in Page!Mutations : calls'[x] # None =>
        /\ Page!Call(calls'[x]) /\ CallTells(calls'[x])
        /\ x \notin Page!RowRequests => DOMAIN calls'[x].rows = {}
  BY <1>1, <1>3, <1>4, BeforeStep
<1>6. calls' = [x \in Page!Mutations |-> calls'[x]]
  BY <1>4
<1> QED BY <1>1, <1>2, <1>5, <1>6, StepKeeps, BeforeStep

\* An answer arrives, or is lost.
LEMMA Answering ==
  ASSUME Page!QuarterlyPageAssumption, Page!IInv, NEW m \in Page!Mutations,
         Page!Succeeds(m) \/ Page!Fails(m)
  PROVE  Page!IInv'
<1>1. /\ UNCHANGED <<draft, rows, offers, left>> /\ calls' = [calls EXCEPT ![m] = None]
      /\ form' = None \/ form' = form
  BY DEF Page!Succeeds, Page!Fails, Page!database
<1>2. Page!Paged(page') /\ PageTells(page')
  <2>1. CASE Page!Fails(m)
    BY <2>1, BeforeStep DEF Page!Fails
  <2>2. CASE Page!Succeeds(m)
    <3> DEFINE p == Page!Refreshed(page)
    <3>1. Page!Paged(p) /\ PageTells(p)
      BY BeforeStep, PageRefreshed
    <3> DEFINE q == [p EXCEPT !.ticked = {}]
    <3>2. page' = p \/ page' = q
      BY <2>2 DEF Page!Succeeds
    <3>3. Page!Paged(q) /\ PageTells(q)
      <4> HIDE DEF p
      <4> QED BY <3>1, PageTicked
    <3> HIDE DEF p, q
    <3> QED BY <3>1, <3>2, <3>3
  <2> QED BY <2>1, <2>2
<1>3. calls' = [x \in Page!Mutations |-> IF x = m THEN None ELSE calls[x]]
  BY <1>1, BeforeStep
<1>4. \A x \in Page!Mutations : calls'[x] # None => calls'[x] = calls[x]
  BY <1>3
<1>5. calls' = [x \in Page!Mutations |-> calls'[x]]
  BY <1>3
<1>6. Moves
  BY <1>1, StaysMoves, BeforeStep
<1> QED BY <1>1, <1>2, <1>4, <1>5, <1>6, StepKeeps, BeforeStep

\* Others write, and collections end.
LEMMA OthersWriting ==
  ASSUME Page!QuarterlyPageAssumption, Page!IInv, Moves, UNCHANGED <<page, form, calls>>, Page!Event
  PROVE  Page!IInv'
<1>1. left' \in [own: Nat, other: Nat]
  <2> DEFINE n == left.other - 1
  <2>1. n \in Nat /\ left' = [left EXCEPT !.other = n]
    BY BeforeStep DEF Page!Event
  <2> HIDE DEF n
  <2> QED BY <2>1, BeforeStep
<1> QED BY <1>1, StepKeeps, BeforeStep

\* The page is opened.
LEMMA PageOpened ==
  ASSUME Page!QuarterlyPageAssumption, Page!Init
  PROVE  Page!IInv
<1>1. PICK s \in Starts : draft = s.review /\ rows = s.rows
  BY DEF Page!Init
<1>2. draft \in Page!Review /\ rows \in Page!Rows /\ (draft.template = None => draft.scores = 0)
  BY <1>1 DEF Page!QuarterlyPageAssumption, Page!Start
<1>3. /\ offers = {} /\ page = Page!Opened /\ form = None
      /\ calls = [m \in Page!Mutations |-> None] /\ left \in Budgets
  BY DEF Page!Init
<1>4. Page!Paged(page)
  BY <1>3 DEF Page!Opened, Page!Paged, Page!Queries, Page!Filters
<1>5. Page!TypeOK
  BY <1>2, <1>3, <1>4 DEF Page!TypeOK, Page!QuarterlyPageAssumption
<1>6. /\ page.detail = draft /\ page.text = draft.text /\ page.table = Page!Copy(Page!Stored)
      /\ page.all = Page!Copy(Page!Stored) /\ page.at = draft.version /\ page.scores = draft.scores
  BY <1>3 DEF Page!Opened
<1>7. PageTells(page)
  BY <1>5, <1>6, ReadsTell DEF PageTells
<1>8. Page!CopiesTell
  BY <1>3, <1>7, CopiesTellIs
<1>9. Page!RequestsFit
  BY <1>3 DEF Page!RequestsFit
<1> QED BY <1>5, <1>8, <1>9 DEF Page!IInv

\* IInv is inductive.
LEMMA PageInductive ==
  ASSUME Page!QuarterlyPageAssumption, Page!IInv, [Page!Next]_(Page!vars)
  PROVE  Page!IInv'
<1>1. CASE UNCHANGED Page!vars
  <2>1. UNCHANGED <<draft, rows, offers, page, form, calls, left>>
    BY <1>1 DEF Page!vars, Page!database
  <2> QED BY <2>1, BeforeStep, StaysMoves, StepKeeps
<1>2. ASSUME NEW m \in Page!Mutations, NEW as, NEW x, NEW o, Page!OtherWrites(m, as, x, o)
      PROVE  Page!IInv'
  BY <1>2, BeforeStep, RequestsMove, OthersWriting DEF Page!OtherWrites
<1>3. ASSUME NEW as, NEW rises \in BOOLEAN, Page!CollectionEnds(as, rises)
      PROVE  Page!IInv'
  <2>1. Moves
    BY <1>3, BeforeStep, CollectionMoves
  <2> QED BY <1>3, <2>1, OthersWriting DEF Page!CollectionEnds
<1> QED BY <1>1, <1>2, <1>3, PageSteps, FormSteps, Submitting, Serving, Answering DEF Page!Next

\* The page, whatever is read, pressed, sent and written by others in whichever order, is in a state
\* that IInv describes (QuarterlyReviewsPage.tsx).
THEOREM PageInvariant ==
  ASSUME Page!QuarterlyPageAssumption
  PROVE  Page!Spec => []Page!IInv
<1>1. Page!Init => Page!IInv
  BY PageOpened
<1>2. Page!IInv /\ [Page!Next]_(Page!vars) => Page!IInv'
  BY PageInductive
<1> QED BY <1>1, <1>2, PTL DEF Page!Spec

\* The page, its forms and its requests hold copies with the fields the code gives them
\* (QuarterlyReviewsPage.tsx, the states of the component).
THEOREM PageTypes ==
  ASSUME Page!QuarterlyPageAssumption
  PROVE  Page!Spec => []Page!TypeOK
<1>1. Page!IInv => Page!TypeOK
  BY DEF Page!IInv
<1> QED BY <1>1, PageInvariant, PTL

\* Every copy in the page, in a form and in a request is an older one or says what the database says
\* (QuarterlyReviewsPage.tsx, the queries and refreshReview).
THEOREM PageCopiesTell ==
  ASSUME Page!QuarterlyPageAssumption
  PROVE  Page!Spec => []Page!CopiesTell
<1>1. Page!IInv => Page!CopiesTell
  BY DEF Page!IInv
<1> QED BY <1>1, PageInvariant, PTL

\* A request that is served replaces what the page showed.
LEMMA ServedAsShown ==
  ASSUME Page!IInv, NEW m \in Page!Mutations, calls[m] # None, Page!Does(m, calls[m])
  PROVE  Page!WritesOverShown(m, calls[m])
<1> DEFINE b == calls[m]
<1>1. CallTells(b) /\ (m \notin Page!RowRequests => DOMAIN b.rows = {})
  BY BeforeStep
<1> HIDE DEF b
<1>2. Page!Does(m, b)
  BY DEF b
<1>3. ASSUME Page!Current(b)
      PROVE  /\ b.detail = draft
             /\ \A a \in DOMAIN b.rows : Page!Said(rows[a]) = Page!Said(b.rows[a])
             /\ b.at = b.detail.version => b.all = Page!Copy(Page!Stored)
  <2>1. b.detail = draft
    BY <1>1, <1>3 DEF CallTells, Page!ReviewTells, Page!Current
  <2>2. ASSUME NEW a \in DOMAIN b.rows
        PROVE  Page!Said(rows[a]) = Page!Said(b.rows[a])
    BY <1>1, <1>3, <2>2 DEF CallTells, Page!RowsTell, Page!RowTells, Page!Current
  <2>3. b.at = b.detail.version => b.all = Page!Copy(Page!Stored)
    BY <1>1, <2>1 DEF CallTells, Page!ListTells
  <2> QED BY <2>1, <2>2, <2>3
<1>4. \A a \in DOMAIN b.rows : Page!Said(rows[a]) = Page!Said(b.rows[a])
  <2>1. CASE m \in Page!RowRequests
    <3>1. Page!Current(b)
      BY <1>2, <2>1 DEF Page!Does, Page!RowRequests, Page!WritesRows, Page!CreatesManual, Page!Binds,
         Page!Scores, Page!WritesText, Page!Rejects, Page!Generates, Page!Collects, Page!Confirms
    <3> QED BY <1>3, <3>1
  <2>2. CASE m \notin Page!RowRequests
    BY <1>1, <2>2
  <2> QED BY <2>1, <2>2
<1>5. ASSUME m = "scores"
      PROVE  draft.scores = b.scores /\ draft.template = b.detail.template
  <2>1. Page!Current(b)
    BY <1>2, <1>5 DEF Page!Does, Page!RowRequests, Page!WritesRows, Page!CreatesManual, Page!Binds,
       Page!Scores, Page!WritesText, Page!Rejects, Page!Generates, Page!Collects, Page!Confirms
  <2> QED BY <1>1, <1>3, <2>1 DEF CallTells
<1>6. ASSUME m = "confirm", draft'.confirmed # draft.confirmed
      PROVE  /\ b.text \in {None, draft.text} /\ b.scores = draft.scores /\ Page!Risks \subseteq b.acks
             /\ b.at = b.detail.version => b.all = Page!Copy(Page!Stored)
  <2>1. Page!Confirms(m, b)
    BY <1>2, <1>6 DEF Page!Does, Page!RowRequests, Page!WritesRows, Page!CreatesManual, Page!Binds,
       Page!Scores, Page!WritesText, Page!Rejects, Page!Generates, Page!Collects
  <2>2. Page!Current(b) /\ Page!Risks \subseteq b.acks
    BY <1>6, <2>1 DEF Page!Confirms
  <2> QED BY <1>1, <1>3, <2>2 DEF CallTells
<1>7. Page!WritesOverShown(m, b)
  BY <1>4, <1>5, <1>6 DEF Page!WritesOverShown
<1> QED BY <1>7 DEF b

\* Only the server accepts.
LEMMA OnlyServed ==
  ASSUME Page!IInv, [Page!Next]_(Page!vars), NEW m \in Page!Mutations,
         calls[m] # None, calls'[m] # None, calls[m].stage = "sent", calls'[m].stage = "accepted"
  PROVE  Page!Does(m, calls[m])
<1>1. calls' # calls
  OBVIOUS
<1>2. ASSUME NEW x \in Page!Mutations, NEW r, NEW choice, NEW offer, Page!Send(x, r, choice, offer)
      PROVE  FALSE
  <2>1. calls[x] = None /\ calls' = [calls EXCEPT ![x] = Page!Body(r, choice, offer)]
    BY <1>2 DEF Page!Send
  <2>2. calls'[m] = calls[m]
    BY <2>1, BeforeStep
  <2> QED BY <2>2
<1>3. ~ (Page!Submit \/ Page!Presses)
  BY <1>2 DEF Page!Submit, Page!Presses, Page!SubmitAchievement, Page!SubmitEvidence, Page!SubmitMapping,
     Page!SubmitSelection, Page!SubmitCollection, Page!SubmitNarrative, Page!SubmitDecision,
     Page!SubmitConfirmation, Page!BindTemplate, Page!SaveScores, Page!GenerateAi,
     Page!CreateRuleNarrative, Page!Mutations
<1>4. ASSUME NEW x \in Page!Mutations, Page!Succeeds(x) \/ Page!Fails(x)
      PROVE  FALSE
  <2>1. calls' = [calls EXCEPT ![x] = None]
    BY <1>4 DEF Page!Succeeds, Page!Fails
  <2>2. calls'[m] = None \/ calls'[m] = calls[m]
    BY <2>1, BeforeStep
  <2> QED BY <2>2
<1>5. ASSUME NEW x \in Page!Mutations, NEW ok \in BOOLEAN, Page!Served(x, ok)
      PROVE  Page!Does(m, calls[m])
  <2> DEFINE s == IF ok THEN "accepted" ELSE "refused"
             q == [calls[x] EXCEPT !.stage = s]
  <2>1. calls[x] # None /\ calls' = [calls EXCEPT ![x] = q] /\ (ok => Page!Does(x, calls[x]))
    BY <1>5 DEF Page!Served
  <2>2. q.stage = s
    BY <2>1, BeforeStep, Staged
  <2> HIDE DEF q
  <2>3. x = m
    BY <2>1, BeforeStep
  <2>4. calls'[m] = q
    BY <2>1, <2>3, BeforeStep
  <2> QED BY <2>1, <2>2, <2>3, <2>4
<1>6. \/ Page!Poll \/ Page!Refresh \/ Page!Reason \/ Page!Opens \/ Page!Close
      \/ \E x \in Page!Queries : Page!Fetch(x)
      \/ \E f \in Page!Filters : Page!ChooseFilter(f)
      \/ \E a \in Achievements : Page!Tick(a)
      \/ \E x, as, c, o : Page!OtherWrites(x, as, c, o)
      \/ \E as, rises : Page!CollectionEnds(as, rises)
      => calls' = calls
  BY DEF Page!Poll, Page!Refresh, Page!Reason, Page!Opens, Page!Close, Page!Fetch, Page!ChooseFilter,
     Page!Tick, Page!OtherWrites, Page!CollectionEnds, Page!OpenAchievementEditor, Page!OpenEvidence,
     Page!OpenMapping, Page!Drag, Page!OpenSelection, Page!OpenDecision, Page!OpenCollection,
     Page!OpenNarrativeEditor, Page!OpenConfirmation, Page!Open
<1> QED BY <1>1, <1>3, <1>4, <1>5, <1>6 DEF Page!Next, Page!vars

\* An achievement, a mapping, a decision or scores that the server accepts from the page replace what
\* the page had shown when the form was filled, whoever wrote meanwhile; a confirmation freezes the
\* scores, and no other text, than the page showed, with its risks acknowledged
\* (QuarterlyReviewsPage.tsx, the mutations with their versions).
THEOREM PageSavesAsShown ==
  ASSUME Page!QuarterlyPageAssumption
  PROVE  Page!Spec => Page!AcceptedAsShown
<1>1. Page!IInv /\ [Page!Next]_(Page!vars) => [Page!SavesAsShown]_(Page!vars)
  BY OnlyServed, ServedAsShown DEF Page!SavesAsShown
<1> QED BY <1>1, PageInvariant, PTL DEF Page!Spec, Page!AcceptedAsShown
=============================================================================
