-------------------------------- MODULE Tasks --------------------------------
(***************************************************************************)
(* The tasks of the user (modules/jira, modules/excel-imports): issues of  *)
(* a Jira connection are read page by page, by full runs and by daily      *)
(* incremental runs behind a watermark, while people go on working in      *)
(* Jira.  A field of a task shows the value of Jira, a supplement          *)
(* confirmed from an Excel sheet while Jira has none, or for a while an    *)
(* override set by the user.                                               *)
(*                                                                         *)
(* One connection.  An issue is its place in the order of keys.  The three *)
(* fields that may be overridden are independent and one stands for all.   *)
(* Every change in Jira has a time of its own, so that the hash of an      *)
(* observation stands for that time.                                       *)
(***************************************************************************)
EXTENDS Integers, FiniteSets

CONSTANTS
  NumIssues,     \* issues of the connection
  Values,        \* what the field may hold
  None,          \* no value
  PageSize,      \* maxResults
  Overlap,       \* overlapSeconds, in ticks of the clock of Jira
  Minute,        \* ticks in a minute: a query names a time by its minute
  Behind,        \* ticks by which the zone of the user at Jira is behind Asia/Shanghai
  Logged,        \* issues on which the user has logged work
  MaxTime,       \* bound: ticks of that clock
  Edited,        \* bound: the issues whose field is edited here
  MaxEdits       \* bound: overrides that are set, and Excel rows that are committed

Issues == 1..NumIssues
Times == 0..MaxTime
Held == Values \union {None}

ASSUME TasksAssumption ==
  /\ NumIssues \in Nat \ {0}
  /\ PageSize \in Nat \ {0} /\ Overlap \in Nat
  /\ Minute \in Nat \ {0} /\ Behind \in Nat
  /\ None \notin Values
  /\ MaxTime \in Nat /\ NumIssues <= MaxTime
  /\ Logged \subseteq Issues /\ Edited \subseteq Issues /\ MaxEdits \in Nat

VARIABLES
  jira,      \* jira[i]: the issue at Jira
  clock,     \* the time at Jira
  task,      \* task[i]: the task row, with the latest observation of Jira
  prov,      \* prov[i]: the active provenance of the field
  source,    \* source[i]: the latest provenance that is not manual
  cursor,    \* the watermark that full and incremental runs share; 0: none
  run,       \* the run in progress, in memory
  seen,      \* history: what the properties except
  budget     \* overrides and Excel rows that may still come

fieldVars == <<prov, source>>
vars == <<jira, clock, task, prov, source, cursor, run, seen, budget>>

Scopes == {"full", "incremental", "period"}

Issue == [updated: Times, value: Held, mine: BOOLEAN]
Task == [known: BOOLEAN, shown: Held, visible: BOOLEAN,
         saved: Times, heard: Held,               \* time and value of the observation
         latest: {"none", "jira", "excel"}]       \* the source of the newest observation
Provenance == [from: {"none", "jira", "excel", "manual"},
               as: {"none", "fact", "supplement", "override", "superseded"},
               value: Held, conflict: Held]
Source == [from: {"none", "jira", "excel"}, value: Held]
Snapshot == [key: Issues, updated: Times, value: Held]
Run == [pc: {"idle", "page", "save", "hide", "end"}, scope: Scopes, floor: Nat,
        among: SUBSET Issues, start: Nat, more: BOOLEAN, page: SUBSET Snapshot,
        keys: SUBSET Issues, max: Times, moved: BOOLEAN]

NoTask == [known |-> FALSE, shown |-> None, visible |-> FALSE, saved |-> 0,
           heard |-> None, latest |-> "none"]
NoProv == [from |-> "none", as |-> "none", value |-> None, conflict |-> None]
NoSource == [from |-> "none", value |-> None]
NoRun == [pc |-> "idle", scope |-> "full", floor |-> 0, among |-> {}, start |-> 0,
          more |-> FALSE, page |-> {}, keys |-> {}, max |-> 0, moved |-> FALSE]

TypeOK ==
  /\ jira \in [Issues -> Issue]
  /\ clock \in Times
  /\ task \in [Issues -> Task]
  /\ prov \in [Issues -> Provenance]
  /\ source \in [Issues -> Source]
  /\ \A i \in Issues : prov[i].from # "none" => task[i].known
  /\ cursor \in Times
  /\ run \in Run
  /\ seen \in [lost: BOOLEAN, unsure: SUBSET Issues]
  /\ budget \in Nat

\* Issues of the user, each updated at a time of its own; nothing read so far.
Init ==
  /\ jira \in [Issues -> Issue]
  /\ \A i \in Issues : jira[i].updated = i /\ jira[i].mine
  /\ clock = NumIssues
  /\ task = [i \in Issues |-> NoTask]
  /\ prov = [i \in Issues |-> NoProv]
  /\ source = [i \in Issues |-> NoSource]
  /\ cursor = 0
  /\ run = NoRun
  /\ seen = [lost |-> FALSE, unsure |-> {}]
  /\ budget = MaxEdits

----------------------------------------------------------------------------
(* People at work in Jira *)

\* A run has read a page and is going to read another.
BetweenPages == (run.pc = "page" /\ run.start > 0) \/ (run.pc = "save" /\ run.more)

\* An issue gets another value or another assignee, or comes back to the user.
Change ==
  \E i \in Issues, t \in Times, v \in Held, mine \in BOOLEAN :
    /\ clock < t /\ clock' = t
    /\ jira' = [jira EXCEPT ![i] = [updated |-> t, value |-> v, mine |-> mine]]
    /\ run' = [run EXCEPT !.moved = @ \/ BetweenPages]
    /\ UNCHANGED <<task, fieldVars, cursor, seen, budget>>

----------------------------------------------------------------------------
(* JiraSyncService.sync; the runner executes one run at a time *)

\* Mutant: every run advances the one watermark.
SharesCursorAll(scope) == TRUE

\* cursorScope: a run over a period has a watermark of its own, which nothing reads.
SharesCursor(scope) == scope \in {"full", "incremental"}

\* Where a time is cut to its minute.
Cut(t) == t - (t % Minute)

\* From when an incremental run lists: the overlap before the watermark.  jiraDateTime
\* writes it as the clock of Asia/Shanghai to the minute, without a zone, and Jira
\* reads it by the clock of the user: later, when that clock is behind; a clock that
\* is ahead only lists more and is left out.  Without a watermark it is the year 1970.
Floor ==
  IF cursor = 0 THEN 0
  ELSE Cut(IF cursor > Overlap THEN cursor - Overlap ELSE 0) + Behind

\* The watermark is read and the query is made: all, those updated since, or
\* those that a week or a quarter is about.
Begin ==
  /\ run.pc = "idle"
  /\ \E scope \in Scopes :
       \E among \in (IF scope = "period" THEN SUBSET Issues ELSE {Issues}) :
         run' = [NoRun EXCEPT !.pc = "page", !.scope = scope, !.among = among,
                              !.floor = IF scope = "incremental" THEN Floor ELSE 0]
  /\ UNCHANGED <<jira, clock, task, fieldVars, cursor, seen, budget>>

\* ORDER BY updated ASC, key ASC, over what the query finds at this moment.
Found ==
  {i \in run.among :
     /\ jira[i].mine \/ (run.scope = "period" /\ i \in Logged)
     /\ jira[i].updated >= run.floor}
Before(i, j) ==
  jira[i].updated < jira[j].updated \/ (jira[i].updated = jira[j].updated /\ i < j)
Place(i) == Cardinality({j \in Found : Before(j, i)})

\* searchPage: by offset.
ReadPage ==
  LET page == {i \in Found : Place(i) >= run.start /\ Place(i) < run.start + PageSize}
      next == run.start + Cardinality(page)
      more == page # {} /\ next < Cardinality(Found)
  IN /\ run.pc = "page"
     /\ run' = [run EXCEPT
          !.pc = "save", !.start = next, !.more = more,
          !.page = {[key |-> i, updated |-> jira[i].updated, value |-> jira[i].value] : i \in page}]
     /\ UNCHANGED <<jira, clock, task, fieldVars, cursor, seen, budget>>

Overridden(i) == prov[i].from = "manual" /\ prov[i].as = "override"

\* The field of the row: the override, else the value of Jira, else the supplement.
Merged(i, v) ==
  CASE Overridden(i) -> prov[i].value
    [] ~Overridden(i) /\ v # None -> v
    [] ~Overridden(i) /\ v = None /\ prov[i].as = "supplement" -> task[i].shown
    [] OTHER -> None

\* observeJiraProvenance: an override notes what Jira holds against it, any other
\* provenance gives way to a value.
Observed(i, v) ==
  CASE Overridden(i) -> [prov[i] EXCEPT !.conflict = IF v # prov[i].value THEN v ELSE None]
    [] ~Overridden(i) /\ v # None ->
         [from |-> "jira", as |-> "fact", value |-> v, conflict |-> None]
    [] OTHER -> prov[i]

\* Under an override Jira has come to agree with it, or to hold nothing; neither
\* is noted.
Missed(i, v) == Overridden(i) /\ v # task[i].heard /\ v \in {None, prov[i].value}

\* saveTask: one transaction per issue, in the order of the page.  What is known
\* already is only shown again.
SaveTask ==
  \E s \in run.page :
    LET i == s.key
        known == task[i].latest = "jira" /\ task[i].saved = s.updated
    IN /\ run.pc = "save"
       /\ \A r \in run.page : s.updated < r.updated \/ (s.updated = r.updated /\ i <= r.key)
       /\ IF i \in run.keys THEN UNCHANGED <<task, prov, source, seen>>
          ELSE /\ task' = [task EXCEPT ![i] =
                    IF known THEN [@ EXCEPT !.visible = TRUE]
                    ELSE [known |-> TRUE, shown |-> Merged(i, s.value), visible |-> TRUE,
                          saved |-> s.updated, heard |-> s.value,
                          latest |-> IF @.saved = s.updated THEN @.latest ELSE "jira"]]
               /\ prov' = [prov EXCEPT ![i] = Observed(i, s.value)]
               /\ source' = IF ~Overridden(i) /\ s.value # None
                            THEN [source EXCEPT ![i] = [from |-> "jira", value |-> s.value]]
                            ELSE source
               /\ seen' = [seen EXCEPT !.unsure =
                    IF Missed(i, s.value) THEN @ \union {i}
                    ELSE IF ~Overridden(i) /\ s.value # None /\ ~known THEN @ \ {i} ELSE @]
       /\ run' = [run EXCEPT
            !.page = @ \ {s}, !.keys = @ \union {i},
            !.max = IF i \notin run.keys /\ s.updated > @ THEN s.updated ELSE @]
       /\ UNCHANGED <<jira, clock, cursor, budget>>

PageDone ==
  /\ run.pc = "save" /\ run.page = {}
  /\ run' = [run EXCEPT !.pc = IF run.more THEN "page"
                               ELSE IF run.scope = "full" THEN "hide" ELSE "end"]
  /\ UNCHANGED <<jira, clock, task, fieldVars, cursor, seen, budget>>

\* A full run puts what it has not seen out of scope, unless work is logged on it.
Hide ==
  /\ run.pc = "hide"
  /\ task' = [i \in Issues |->
       IF task[i].known /\ i \notin run.keys \union Logged
       THEN [task[i] EXCEPT !.visible = FALSE] ELSE task[i]]
  /\ seen' = [seen EXCEPT !.lost = @ \/ run.moved]
  /\ run' = [run EXCEPT !.pc = "end"]
  /\ UNCHANGED <<jira, clock, fieldVars, cursor, budget>>

\* The watermark follows what was saved, after the last page only.
Advance ==
  /\ run.pc = "end"
  /\ cursor' = IF SharesCursor(run.scope) /\ run.max # 0 THEN run.max ELSE cursor
  /\ seen' = [seen EXCEPT
       !.lost = IF ~SharesCursor(run.scope) THEN @
                ELSE IF run.scope = "full" THEN run.moved ELSE @ \/ run.moved]
  /\ run' = NoRun
  /\ UNCHANGED <<jira, clock, task, fieldVars, budget>>

\* A page or a row fails, or the service dies; the job is tried again from the start.
Fail ==
  /\ run.pc # "idle" /\ run' = NoRun
  /\ UNCHANGED <<jira, clock, task, fieldVars, cursor, seen, budget>>

----------------------------------------------------------------------------
(* TaskOverrideService *)

Edits == budget > 0 /\ budget' = budget - 1

\* Mutant: a row is taken for that of a task that does not exist.
ExistsAny(i) == TRUE

Exists(i) == task[i].known

\* The value of Jira is noted neither from an earlier override, or from what it
\* has given back without a source, nor once Jira holds none.
Forgets(i) ==
  prov[i].from = "manual" \/ (prov[i].from = "jira" /\ prov[i].value # task[i].heard)

\* setOverride.  A conflict is noted against a value of Jira, not against what an
\* earlier override had noted.
SetOverride(i) ==
  /\ Exists(i) /\ Edits
  /\ \E v \in Held :
       /\ task' = [task EXCEPT ![i].shown = v]
       /\ prov' = [prov EXCEPT ![i] =
            [from |-> "manual", as |-> "override", value |-> v,
             conflict |-> IF @.from = "jira" /\ @.value # v THEN @.value ELSE None]]
  /\ seen' = [seen EXCEPT !.unsure =
       IF Forgets(i) THEN @ \union {i} ELSE @]
  /\ UNCHANGED <<jira, clock, source, cursor, run>>

\* Mutant: the conflict that Jira has raised meanwhile is not looked at.
RestoredSource(i) == source[i].value

\* What an override gives back.
Restored(i) == IF prov[i].conflict # None THEN prov[i].conflict ELSE source[i].value

\* revokeOverride by the user, expireDue by the schedule: restoreOverride.
EndOverride(i) ==
  /\ Overridden(i)
  /\ task' = [task EXCEPT ![i].shown = Restored(i)]
  /\ prov' = [prov EXCEPT ![i] =
       [from |-> IF source[i].from = "none" THEN "manual" ELSE source[i].from,
        as |-> IF source[i].from = "none" THEN "superseded" ELSE "fact",
        value |-> Restored(i), conflict |-> None]]
  /\ source' = [source EXCEPT ![i].value = IF @ = None /\ source[i].from = "none" THEN None
                                           ELSE Restored(i)]
  /\ seen' = [seen EXCEPT !.unsure = IF source[i].from = "excel" THEN @ \union {i} ELSE @]
  /\ UNCHANGED <<jira, clock, cursor, run, budget>>

----------------------------------------------------------------------------
(* ExcelImportCommitService.commit: a row that is linked to a task of Jira *)

\* commitJiraSupplement: a value that is there counts as one of Jira unless Excel
\* has brought it; an empty field takes the value of the sheet.
CommitSupplement(i) ==
  LET owned == task[i].shown # None /\ prov[i].from # "excel" IN
  /\ Exists(i) /\ Edits
  /\ \E v \in Held :
       /\ task' = [task EXCEPT ![i].latest = "excel",
                               ![i].shown = IF ~owned /\ v # None THEN v ELSE @]
       /\ \/ /\ owned
             /\ prov' = [prov EXCEPT ![i] = [from |-> "jira", as |-> "fact",
                                             value |-> task[i].shown, conflict |-> None]]
             /\ source' = [source EXCEPT ![i] = [from |-> "jira", value |-> task[i].shown]]
          \/ /\ ~owned /\ v # None
             /\ prov' = [prov EXCEPT ![i] = [from |-> "excel", as |-> "supplement",
                                             value |-> v, conflict |-> None]]
             /\ source' = [source EXCEPT ![i] = [from |-> "excel", value |-> v]]
          \/ ~owned /\ v = None /\ UNCHANGED fieldVars
       /\ seen' = [seen EXCEPT !.unsure =
            IF Overridden(i) /\ prov' # prov THEN @ \union {i} ELSE @]
  /\ UNCHANGED <<jira, clock, cursor, run>>

----------------------------------------------------------------------------
Sync == Begin \/ ReadPage \/ SaveTask \/ PageDone \/ Hide \/ Advance \/ Fail
User == \E i \in Edited : SetOverride(i) \/ EndOverride(i) \/ CommitSupplement(i)

Next == Change \/ Sync \/ User

Spec == Init /\ [][Next]_vars

----------------------------------------------------------------------------
(* Properties *)

\* The override while it is in force; otherwise the value of Jira, and while Jira
\* holds none the supplement or nothing.
Told(i) ==
  IF Overridden(i) THEN task[i].shown = prov[i].value
  ELSE i \in seen.unsure \/
       task[i].shown = IF task[i].heard # None THEN task[i].heard
                       ELSE IF prov[i].from = "excel" THEN prov[i].value ELSE None

\* What a task shows can be explained, whoever wrote last: the override while it
\* is in force; otherwise the value Jira was last heard to hold, and while Jira
\* holds none the supplement confirmed from Excel or nothing (jira-sync.service.ts:353,
\* task-override.service.ts:259).  Excepted are the issues of which an override
\* has forgotten something.
FieldTells == \A i \in Issues : Told(i)

\* An issue that the incremental runs will not read again, since it lies behind
\* the watermark and its overlap, is in the list of tasks as Jira has it, whatever
\* failed, was retried, or changed during earlier runs; unless an issue changed
\* while a run was between two pages, and no full run has been made since; or the
\* user at Jira lives by a clock behind Asia/Shanghai, for whom the query starts
\* too late (jira-sync.service.ts:81, :215; jira-query-policy.ts:63;
\* 05-task-sync-excel-evidence-design.md:44-52).
NothingSkipped ==
  Behind = 0 /\ ~seen.lost =>
  \A i \in Issues :
    jira[i].mine /\ jira[i].updated + Overlap < cursor =>
      task[i].known /\ task[i].visible /\ task[i].saved = jira[i].updated

----------------------------------------------------------------------------
(* The inductive invariant *)

\* Nothing was heard before it happened, and one time stands for one value.
Timely ==
  /\ cursor <= clock /\ run.max <= clock
  /\ \A i \in Issues :
       /\ jira[i].updated <= clock /\ task[i].saved <= jira[i].updated
       /\ task[i].saved = jira[i].updated => task[i].heard = jira[i].value
       /\ task[i].latest # "none" => task[i].known

\* What override, provenance and source know of each other.
SourcedAt(i) ==
  /\ prov[i].from = "none" => task[i].heard = None /\ source[i] = NoSource
  /\ prov[i].from \in {"jira", "excel"} =>
       source[i] = [from |-> prov[i].from, value |-> prov[i].value]
  /\ prov[i].as = "supplement" => prov[i].from = "excel"
  /\ source[i].from = "none" => source[i].value = None
  /\ Overridden(i) => prov[i].conflict = None \/ prov[i].conflict # prov[i].value
Sourced == \A i \in Issues : SourcedAt(i)

\* Unless something was forgotten, a supplement stands for a field that is empty
\* in Jira, and an override gives back what Jira was last heard to hold.
RememberedAt(i) ==
  i \notin seen.unsure =>
    /\ prov[i].from = "excel" => prov[i].as = "supplement" /\ task[i].heard = None
    /\ Overridden(i) /\ source[i].from # "excel" => Restored(i) = task[i].heard
Remembered == \A i \in Issues : RememberedAt(i)

\* The run in progress.
RunInOrder ==
  /\ run.scope # "period" /\ run.pc # "idle" => run.among = Issues
  /\ run.scope = "full" => run.floor = 0
  /\ run.scope = "incremental" => run.floor = Floor
  /\ run.pc = "hide" => run.scope = "full"
  /\ run.pc # "save" => run.page = {}
  /\ run.more => run.start > 0
  /\ run.pc = "page" /\ run.start = 0 => run.keys = {}

\* A page holds an issue once, as it was when the page was read.
PageAsRead ==
  /\ \A r, s \in run.page : r.key = s.key => r = s
  /\ \A s \in run.page :
       /\ s.updated <= jira[s.key].updated
       /\ s.key \notin run.keys => task[s.key].saved <= s.updated
       /\ s.updated = task[s.key].saved => s.value = task[s.key].heard
       /\ s.updated = jira[s.key].updated => s.value = jira[s.key].value

\* A page is still to be read.
Reading == run.pc = "page" \/ (run.pc = "save" /\ run.more)

\* The task is as Jira has it.
Got(i) == task[i].known /\ task[i].visible /\ task[i].saved = jira[i].updated

\* Changed after all that the run has read, and after the watermark.
Fresh(i) ==
  /\ ~Reading
  /\ jira[i].updated > run.max /\ jira[i].updated > cursor
  /\ \A s \in run.page : jira[i].updated > s.updated

\* While no issue has changed between two pages, whatever the run has passed is saved
\* or on the page, and whatever it has not passed is on a page to come.
Collected ==
  run.moved \/
  /\ \A s \in run.page : s.updated = jira[s.key].updated \/ Fresh(s.key)
  /\ \A i \in run.keys : Got(i) \/ Fresh(i)
  /\ \A i \in Found :
       \/ i \in run.keys \/ Fresh(i)
       \/ \E s \in run.page : s.key = i
       \/ Reading /\ Place(i) >= run.start

IInv ==
  /\ TypeOK /\ Timely /\ Sourced /\ Remembered /\ FieldTells
  /\ RunInOrder /\ PageAsRead /\ Collected /\ NothingSkipped

=============================================================================
