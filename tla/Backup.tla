------------------------------- MODULE Backup -------------------------------
(***************************************************************************)
(* Backups of the database and the restore of one: three jobs of           *)
(* BackupHandlers (create, verify, prepare a restore), the page that asks  *)
(* for them, and applyPendingRestore, which the next start runs before the *)
(* database is opened.                                                     *)
(*                                                                         *)
(* The database is a file and its write-ahead log.  A content keeps how    *)
(* often the other components have written, the schema, the rows of the    *)
(* backups and the jobs about them.  A backup is a snapshot of a content;  *)
(* its hash is that of the file as it was made, so it matches as long as   *)
(* the file is whole.  Leases, attempts and the cancellation of jobs are   *)
(* those of JobRunner: here a job is queued, running or gone.              *)
(***************************************************************************)
EXTENDS Naturals, FiniteSets

CONSTANTS
  None,
  MaxBackups,    \* bound: backups that are ever begun
  Bounds         \* bounds: requests, writes, damaged files, crashes, starts, upgrades

Artifacts == 1..MaxBackups
Statuses == {"none", "running", "succeeded", "failed", "failed_late", "verification_failed", "verified"}
Types == {"create", "verify", "restore"}

\* A job by its dedupe key: a backup is asked for by hand or by the daily schedule.
Jobs == ({"create"} \X {"manual", "daily"}) \union ({"verify", "restore"} \X Artifacts)

Content == [writes: Nat, schema: Nat, row: [Artifacts -> Statuses],
            queued: SUBSET Jobs, running: SUBSET Jobs]
Manifest == [backup: Artifacts, safety: Artifacts]
Budget == [requests: Nat, writes: Nat, damages: Nat, crashes: Nat, starts: Nat, upgrades: Nat]
Steps == {"hashed", "copied", "moved", "cleared", "switched", "ready"}

\* What the constants must be; the module that gives them values assumes it.
BackupAssumption ==
  /\ MaxBackups \in Nat
  /\ Bounds \in Budget
  /\ None \notin Content \union Manifest \union Artifacts \union Nat

VARIABLES
  main,      \* the database file, None when there is none
  wal,       \* what main and its write-ahead log hold, None when there is no log
  backup,    \* the files of the backups: [is, of]
  copies,    \* the emergency copies: pairs of a start and a content
  pending,   \* pending-restore.json: the backup to restore and the safety backup
  app,       \* where the process is: down, a step of its start, or up
  moved,     \* the database file that this start has moved away
  code,      \* the schema of the installed version
  exec,      \* what the process executes: a job of each type
  page,      \* the backup whose restore the page asks to confirm
  left,      \* history: what the last process left, the start that moved its file, the log removed
  budget     \* what the bounds still allow

jobVars == <<backup, pending, exec>>
startVars == <<copies, app, moved, code, left>>
vars == <<main, wal, backup, copies, pending, app, moved, code, exec, page, left, budget>>

-----------------------------------------------------------------------------
\* What the application reads.
Live == IF wal = None THEN main ELSE wal

\* A statement of the application goes to the log; a checkpoint writes the log to the file.
Store(c) == wal' = c /\ UNCHANGED main
Checkpoint == main' = Live /\ wal' = None

Row(c, a, status) == [c EXCEPT !.row[a] = status]
Queue(c, js) == [c EXCEPT !.queued = @ \union js]
Spend(what) == budget[what] > 0 /\ budget' = [budget EXCEPT ![what] = @ - 1]

NoFile == [is |-> "none", of |-> None]
Fresh(schema, writes) ==
  [writes |-> writes, schema |-> schema, row |-> [a \in Artifacts |-> "none"], queued |-> {}, running |-> {}]
Left(live, file) ==
  [live |-> live, main |-> file, pending |-> pending, moved |-> None, lost |-> None]

\* The log goes, and with it what only the log held.
DropLog == wal' = None /\ left' = [left EXCEPT !.lost = IF wal = None THEN @ ELSE wal]

Init ==
  /\ main = Fresh(1, 1) /\ wal = None
  /\ backup = [a \in Artifacts |-> NoFile]
  /\ copies = {} /\ pending = None
  /\ app = "up" /\ moved = None /\ code = 1
  /\ exec = [t \in Types |-> None] /\ page = None
  /\ left = Left(main, main)
  /\ budget = Bounds

-----------------------------------------------------------------------------
(* The application runs: its pages and its other components.               *)

\* The other components write.
Write ==
  /\ app = "up" /\ Spend("writes")
  /\ Store([Live EXCEPT !.writes = @ + 1])
  /\ UNCHANGED <<jobVars, startVars, page>>

\* SQLite writes the log back when it has grown.
AutoCheckpoint ==
  /\ app = "up" /\ wal # None /\ Checkpoint
  /\ UNCHANGED <<jobVars, startVars, page, budget>>

\* An active job of the same key is not doubled.
Enqueue(j) ==
  /\ j \notin Live.queued \union Live.running /\ Spend("requests")
  /\ Store(Queue(Live, {j}))

RequestBackup == app = "up" /\ Enqueue(<<"create", "manual">>) /\ UNCHANGED <<jobVars, startVars, page>>
ScheduleDailyBackup == app = "up" /\ Enqueue(<<"create", "daily">>) /\ UNCHANGED <<jobVars, startVars, page>>

RequestVerify(a) ==
  /\ app = "up" /\ Live.row[a] # "none" /\ Enqueue(<<"verify", a>>)
  /\ UNCHANGED <<jobVars, startVars, page>>

Compatible(a) == Live.row[a] = "verified" /\ backup[a].of.schema = Live.schema

\* The page loads the preflight of a backup and shows it, however long.
OpenRestore(a) ==
  /\ app = "up" /\ Compatible(a) /\ page' = a
  /\ UNCHANGED <<main, wal, jobVars, startVars, budget>>

\* The preflight is made again before the job is queued.
RequestRestore ==
  /\ app = "up" /\ page # None /\ Compatible(page)
  /\ Enqueue(<<"restore", page>>) /\ page' = None
  /\ UNCHANGED <<jobVars, startVars>>

CancelPendingRestore ==
  /\ app = "up" /\ pending # None /\ pending' = None
  /\ UNCHANGED <<main, wal, backup, exec, startVars, page, budget>>

\* A file of a backup goes bad outside the program.
Damage(a) ==
  /\ backup[a].is = "whole" /\ Spend("damages")
  /\ backup' = [backup EXCEPT ![a].is = "damaged"]
  /\ UNCHANGED <<main, wal, pending, exec, startVars, page>>

-----------------------------------------------------------------------------
(* The jobs.                                                               *)

\* One job of a type at a time.
Claim(j) ==
  /\ app = "up" /\ j \in Live.queued /\ exec[j[1]] = None
  /\ Store([Live EXCEPT !.queued = @ \ {j}, !.running = @ \union {j}])
  /\ exec' = [exec EXCEPT ![j[1]] = [job |-> j, at |-> "start", of |-> None]]
  /\ UNCHANGED <<backup, pending, startVars, page, budget>>

At(t, step) == app = "up" /\ exec[t] # None /\ exec[t].at = step
Goes(t, step) == exec' = [exec EXCEPT ![t].at = step]

\* createBackup, as a job of its own or for the safety backup of a restore.
CreateBegins(t) ==
  /\ At(t, IF t = "restore" THEN "checked" ELSE "start") /\ t # "verify"
  /\ \E a \in Artifacts :
       /\ backup[a].is = "none" /\ \A b \in Artifacts : b < a => backup[b].is # "none"
       /\ backup' = [backup EXCEPT ![a].is = "begun"]
       /\ Store(Row(Live, a, "running"))
       /\ exec' = [exec EXCEPT ![t] = [@ EXCEPT !.at = "begun", !.of = a]]
  /\ UNCHANGED <<pending, startVars, page, budget>>

\* VACUUM INTO takes the log in.
CreateCopies(t) ==
  /\ At(t, "begun") /\ Goes(t, "vacuumed")
  /\ backup' = [backup EXCEPT ![exec[t].of] = [is |-> "temporary", of |-> Live]]
  /\ UNCHANGED <<main, wal, pending, startVars, page, budget>>

CreateRenames(t) ==
  /\ At(t, "vacuumed") /\ Goes(t, "renamed")
  /\ backup' = [backup EXCEPT ![exec[t].of].is = "whole"]
  /\ UNCHANGED <<main, wal, pending, startVars, page, budget>>

CreateSucceeds(t) ==
  /\ At(t, "renamed") /\ Goes(t, "made")
  /\ Store(Row(Live, exec[t].of, "succeeded"))
  /\ UNCHANGED <<backup, pending, startVars, page, budget>>

\* The temporary file goes; a file that has its name stays, and so does a hash in the row.
CreateFails(t) ==
  /\ \E s \in {"begun", "vacuumed", "renamed", "made"} : At(t, s)
  /\ Goes(t, "failed")
  /\ backup' = [backup EXCEPT ![exec[t].of] = IF @.is = "temporary" THEN [NoFile EXCEPT !.is = "begun"] ELSE @]
  /\ Store(Row(Live, exec[t].of, IF exec[t].at = "made" THEN "failed_late" ELSE "failed"))
  /\ UNCHANGED <<pending, startVars, page, budget>>

Target(t) == exec[t].job[2]
\* The row has the hash of its file.
Made == {"succeeded", "failed_late", "verification_failed", "verified"}

VerifyHashes ==
  /\ At("verify", "start")
  /\ LET a == Target("verify")
         bad == Live.row[a] \in Made /\ backup[a].is = "damaged"
     IN /\ Goes("verify", IF Live.row[a] \in Made /\ backup[a].is = "whole" THEN "hashed" ELSE "failed")
        /\ IF bad THEN Store(Row(Live, a, "verification_failed")) ELSE UNCHANGED <<main, wal>>
  /\ UNCHANGED <<backup, pending, startVars, page, budget>>

VerifySucceeds ==
  /\ At("verify", "hashed") /\ Goes("verify", "done")
  /\ Store(Row(Live, Target("verify"), "verified"))
  /\ UNCHANGED <<backup, pending, startVars, page, budget>>

\* The row must be verified, no other restore pending, the file whole and of the same schema.
PrepareChecks ==
  /\ At("restore", "start")
  /\ LET a == Target("restore")
         replay == pending # None /\ Live.row[a] = "verified" /\ pending.backup = a
         good == pending = None /\ Compatible(a) /\ backup[a].is = "whole"
     IN /\ Goes("restore", IF good THEN "checked" ELSE IF replay THEN "done" ELSE "failed")
        /\ IF good THEN Checkpoint ELSE UNCHANGED <<main, wal>>
  /\ UNCHANGED <<backup, pending, startVars, page, budget>>

PrepareWrites ==
  /\ At("restore", "made") /\ Goes("restore", "done")
  /\ pending' = [backup |-> Target("restore"), safety |-> exec["restore"].of]
  /\ UNCHANGED <<main, wal, backup, startVars, page, budget>>

\* Where a handler may throw without a trace of its own: no space, no connection, a bad check.
Throws(t) ==
  /\ \/ \E s \in {"start", "hashed", "checked"} : At(t, s)
     \/ t = "restore" /\ At(t, "made")
  /\ Goes(t, "failed")
  /\ UNCHANGED <<main, wal, backup, pending, startVars, page, budget>>

\* A failed backup may be tried again, the other jobs have one attempt.
Settles(t) ==
  /\ At(t, "done") \/ At(t, "failed") \/ (t = "create" /\ At(t, "made"))
  /\ \E again \in SUBSET {exec[t].job} :
       /\ IF again = {} THEN UNCHANGED budget
          ELSE t = "create" /\ exec[t].at = "failed" /\ Spend("requests")
       /\ Store(Queue([Live EXCEPT !.running = @ \ {exec[t].job}], again))
  /\ exec' = [exec EXCEPT ![t] = None]
  /\ UNCHANGED <<backup, pending, startVars, page>>

-----------------------------------------------------------------------------
(* The process ends and starts again.                                      *)

Idle == exec' = [t \in Types |-> None]

\* Closing the database writes the log back.
Stop ==
  /\ app = "up" /\ app' = "down" /\ Checkpoint /\ Idle
  /\ left' = Left(Live, Live)
  /\ UNCHANGED <<backup, copies, pending, moved, code, page, budget>>

Crash ==
  /\ app # "down" /\ app' = "down" /\ Spend("crashes") /\ Idle /\ moved' = None
  /\ left' = IF app = "up" THEN Left(Live, main)
             ELSE IF app = "ready" THEN [left EXCEPT !.live = Live, !.pending = None] ELSE left
  /\ UNCHANGED <<main, wal, backup, copies, pending, code, page>>

Upgrade ==
  /\ app = "down" /\ Spend("upgrades") /\ code' = code + 1
  /\ UNCHANGED <<main, wal, jobVars, copies, app, moved, page, left>>

\* migrate deploy, before a start of the container or by the installer: SQLite makes a missing
\* database and drops a log that has none.
Migrate ==
  /\ app = "down"
  /\ IF main = None
     THEN main' = Fresh(code, 0) /\ DropLog
     ELSE /\ main' = [Live EXCEPT !.schema = code] /\ wal' = None
          /\ left' = [left EXCEPT !.main = IF left.moved = None THEN main' ELSE @,
                                  !.live = IF pending = None THEN main' ELSE @]
  /\ UNCHANGED <<jobVars, copies, app, moved, code, page, budget>>

\* Without a manifest there is nothing to do; a backup that does not match its hash ends the start.
Start ==
  /\ app = "down" /\ Spend("starts")
  /\ pending # None => backup[pending.backup].is = "whole"
  /\ app' = IF pending = None THEN "ready" ELSE "hashed"
  /\ UNCHANGED <<main, wal, jobVars, copies, moved, code, page, left>>

\* The copy is hashed too.
CopyBackup ==
  /\ app = "hashed"
  /\ app' = IF backup[pending.backup].is = "whole" THEN "copied" ELSE "down"
  /\ UNCHANGED <<main, wal, jobVars, copies, moved, code, page, left, budget>>

MoveDatabase ==
  /\ app = "copied" /\ app' = "moved" /\ main' = None /\ moved' = main
  /\ IF main = None THEN UNCHANGED <<copies, left>>
     ELSE /\ copies' = copies \union {<<budget.starts, main>>}
          /\ left' = [left EXCEPT !.moved = IF @ = None THEN budget.starts ELSE @]
  /\ UNCHANGED <<wal, jobVars, code, page, budget>>

\* A mutant: the log of the old database stays beside the new one.
ClearLogForgotten ==
  /\ app = "moved" /\ app' = "cleared"
  /\ UNCHANGED <<main, wal, jobVars, copies, moved, code, page, left, budget>>

ClearLog ==
  /\ app = "moved" /\ app' = "cleared" /\ DropLog
  /\ UNCHANGED <<main, jobVars, copies, moved, code, page, budget>>

Switch ==
  /\ app = "cleared" /\ app' = "switched" /\ main' = backup[pending.backup].of
  /\ UNCHANGED <<wal, jobVars, copies, moved, code, page, left, budget>>

Applied ==
  /\ app = "switched" /\ app' = "ready" /\ pending' = None /\ moved' = None
  /\ UNCHANGED <<main, wal, backup, exec, copies, code, page, left, budget>>

\* A step of the start throws: the file that was moved comes back if its place is still empty.
StartFails ==
  /\ app \in {"copied", "moved", "cleared", "switched"} /\ app' = "down" /\ moved' = None
  /\ IF moved # None /\ main = None
     THEN /\ main' = moved /\ copies' = copies \ {<<budget.starts, moved>>}
          /\ left' = [left EXCEPT !.moved = IF @ = budget.starts THEN None ELSE @]
     ELSE UNCHANGED <<main, copies, left>>
  /\ UNCHANGED <<wal, jobVars, code, page, budget>>

\* The database is opened; jobs whose lease has run out are queued again.
Connect ==
  /\ app = "ready" /\ app' = "up"
  /\ \E late \in SUBSET Live.running :
       Store(Queue([Live EXCEPT !.running = @ \ late], late))
  /\ UNCHANGED <<jobVars, copies, moved, code, page, left, budget>>

Next ==
  \/ Write \/ AutoCheckpoint \/ RequestBackup \/ ScheduleDailyBackup
  \/ \E a \in Artifacts : RequestVerify(a) \/ OpenRestore(a) \/ Damage(a)
  \/ RequestRestore \/ CancelPendingRestore
  \/ \E j \in Jobs : Claim(j)
  \/ \E t \in Types : \/ CreateBegins(t) \/ CreateCopies(t) \/ CreateRenames(t)
                      \/ CreateSucceeds(t) \/ CreateFails(t) \/ Throws(t) \/ Settles(t)
  \/ VerifyHashes \/ VerifySucceeds \/ PrepareChecks \/ PrepareWrites
  \/ Stop \/ Crash \/ Upgrade \/ Migrate
  \/ Start \/ CopyBackup \/ MoveDatabase \/ ClearLog \/ Switch \/ Applied \/ StartFails \/ Connect

Spec == Init /\ [][Next]_vars

-----------------------------------------------------------------------------
File == [is: {"none", "begun", "temporary", "whole", "damaged"}, of: Content \union {None}]
Execution == [job: Jobs, at: {"start", "begun", "vacuumed", "renamed", "made", "hashed", "checked",
                              "done", "failed"}, of: Artifacts \union {None}]

\* Every variable has its type.
TypeOK ==
  /\ main \in Content \union {None} /\ wal \in Content \union {None}
  /\ backup \in [Artifacts -> File]
  /\ copies \subseteq Nat \X Content
  /\ pending \in Manifest \union {None}
  /\ app \in {"down", "up"} \union Steps
  /\ moved \in Content \union {None} /\ code \in Nat
  /\ exec \in [Types -> Execution \union {None}]
  /\ page \in Artifacts \union {None}
  /\ left \in [live: Content, main: Content, pending: Manifest \union {None},
              moved: Nat \union {None}, lost: Content \union {None}]
  /\ budget \in Budget

\* The application opens exactly the database it left, or, when a restore was pending, exactly the
\* backup it asked for, whatever crashed or failed in between (applyPendingRestore).
ComesUpAsLeft ==
  app = "ready" =>
    /\ main # None
    /\ Live = IF left.pending = None THEN left.live ELSE backup[left.pending.backup].of

\* The same content but for the schema that a migration gave it.
Same(c, d) == [c EXCEPT !.schema = d.schema] = d

\* The database file that was left is in its place or among the emergency copies, and it is there
\* when another one is opened (applyPendingRestore, main.ts).  What is left is in that file, in the
\* log that is still there, or, when a restore was pending, was in the log that the start removed:
\* what a process that crashed had written after its last checkpoint is lost then, even when the
\* start fails afterwards and the file comes back.  The safety backup has what was there when the
\* restore was prepared (PendingIsSafe).
OnlyALogIsLost ==
  /\ app # "up" =>
       /\ IF left.moved = None THEN main = left.main ELSE <<left.moved, left.main>> \in copies
       /\ IF left.pending = None
          THEN app \in {"down", "ready"} /\ Live = left.live
          ELSE Same(left.main, left.live) \/ wal = left.live \/ left.lost = left.live
  /\ app = "ready" /\ left.pending # None => left.moved # None

Contents ==
  ({main, wal} \union {backup[a].of : a \in Artifacts} \union {c[2] : c \in copies}) \ {None}

\* A row that says that a backup was made has its file, in the database and in every copy of it
\* that may become the database (createBackup, verifyBackup).
RowsHaveFiles ==
  \A c \in Contents, a \in Artifacts :
    c.row[a] \in Made => backup[a].is \in {"whole", "damaged"} /\ backup[a].of # None

\* A restore is pending only after a backup of the database that asked for it, which is not the
\* one that is restored (prepareRestore).
PendingIsSafe ==
  pending # None =>
    LET safety == backup[pending.safety]
    IN /\ safety.is \in {"whole", "damaged"} /\ safety.of # None
       /\ pending.safety # pending.backup
       /\ <<"restore", pending.backup>> \in safety.of.running
       /\ safety.of.row[pending.backup] \in Made
=============================================================================
