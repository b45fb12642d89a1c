----------------------------- MODULE OneShotJob -----------------------------
(***************************************************************************)
(* What the job queue promises to the modules that rely on it, whatever    *)
(* polls, leases, heartbeats, cancels and restarts are needed: a job waits, *)
(* is executed by one execution at a time, and ends; an execution whose    *)
(* service died is an orphan until it is recovered; a job that acts outside *)
(* the database (once) is started once and, when in doubt, left to a human. *)
(***************************************************************************)
EXTENDS Naturals

CONSTANT Jobs

VARIABLES
  phase,     \* phase[j]: where j is
  once,      \* once[j]: j must not be repeated
  starts     \* starts[j]: executions of j so far

vars == <<phase, once, starts>>

Phases == {"absent", "waiting", "executing", "orphan", "doubt", "ended"}

TypeOK ==
  /\ phase \in [Jobs -> Phases]
  /\ once \in [Jobs -> BOOLEAN]
  /\ starts \in [Jobs -> Nat]

Init ==
  /\ phase = [j \in Jobs |-> "absent"]
  /\ once = [j \in Jobs |-> FALSE]
  /\ starts = [j \in Jobs |-> 0]

Move(j, from, to) == phase[j] = from /\ phase' = [phase EXCEPT ![j] = to]

Accept(j) ==
  /\ Move(j, "absent", "waiting")
  /\ \E b \in BOOLEAN : once' = [once EXCEPT ![j] = b]
  /\ UNCHANGED starts

Start(j) ==
  /\ Move(j, "waiting", "executing")
  /\ starts' = [starts EXCEPT ![j] = @ + 1]
  /\ UNCHANGED once

\* The execution ends, for good or to be retried.
Finish(j) ==
  /\ \/ Move(j, "executing", "ended")
     \/ once[j] /\ Move(j, "executing", "doubt")
     \/ ~once[j] /\ Move(j, "executing", "waiting")
  /\ UNCHANGED <<once, starts>>

\* A cancel: of a waiting job, or one that loses its race against the start of
\* the job and reaches a row that is already in doubt.
Cancel(j) ==
  /\ Move(j, "waiting", "ended") \/ Move(j, "doubt", "ended")
  /\ UNCHANGED <<once, starts>>

\* The executions of a service end with it, whatever they have written.
Abandon ==
  /\ \E S \in SUBSET {j \in Jobs : phase[j] = "executing"} :
       \E left \in [S -> {"orphan", "doubt", "ended"}] :
         /\ \A j \in S : left[j] = "doubt" => once[j]
         /\ phase' = [j \in Jobs |-> IF j \in S THEN left[j] ELSE phase[j]]
  /\ UNCHANGED <<once, starts>>

Recover(j) ==
  /\ IF once[j] THEN Move(j, "orphan", "doubt") ELSE Move(j, "orphan", "waiting")
  /\ UNCHANGED <<once, starts>>

Next ==
  \/ Abandon
  \/ \E j \in Jobs : Accept(j) \/ Start(j) \/ Finish(j) \/ Cancel(j) \/ Recover(j)

Spec == Init /\ [][Next]_vars

----------------------------------------------------------------------------
\* A job that must not be repeated is started at most once (job-runner.service.ts:31-50).
AtMostOnce == \A j \in Jobs : once[j] => starts[j] <= 1

\* And one that has been started never waits again.
OnceInv ==
  \A j \in Jobs :
    /\ once[j] => starts[j] <= 1
    /\ once[j] /\ starts[j] # 0 => phase[j] # "waiting"
    /\ phase[j] = "absent" => starts[j] = 0
=============================================================================
