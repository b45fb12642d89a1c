--------------------------- MODULE JobRefinement ---------------------------
(***************************************************************************)
(* The queue and its runner implement OneShotJob when one service runs on  *)
(* the machine (the case the instance lease is there to ensure).           *)
(***************************************************************************)
EXTENDS JobRunner

\* An execution counts until its last write, whatever the row says meanwhile.
Executes(j) == \E p \in Procs, g \in Lanes : exec[p][j][g] # "none"

Phase(j) ==
  IF Executes(j) THEN "executing"
  ELSE CASE job[j].status = "queued" -> "waiting"
         [] job[j].status = "running" -> "orphan"
         [] job[j].status = "unknown" -> "doubt"
         [] job[j].status = "absent" -> "absent"
         [] OTHER -> "ended"

Promise == INSTANCE OneShotJob WITH
  phase <- [j \in Jobs |-> Phase(j)],
  once <- [j \in Jobs |-> job[j].status # "absent" /\ ManualReview(j)],
  starts <- [j \in Jobs |-> job[j].attempts]

\* Whatever is cancelled, crashes and is restarted between the awaits of the
\* queue, each job goes through the phases of OneShotJob: no second execution
\* beside a first, no start that is not counted, no requeue of an external write,
\* no end that is taken back, no recovery of what still executes.
OneShotJobs == Promise!Spec
=============================================================================
