---------------------------- MODULE TasksProofs ----------------------------
(* Theorems about Tasks, for any number of issues, any size of a page and  *)
(* any overlap, and every value of the bounds, and about ExcelImport.      *)
EXTENDS Tasks, FiniteSetTheorems, TLAPS

USE TasksAssumption

----------------------------------------------------------------------------
(* Reading by offset *)

LEMMA Types ==
  ASSUME TypeOK
  PROVE  /\ \A i \in Issues : /\ jira[i].updated \in Nat /\ jira[i].updated <= MaxTime
                              /\ jira[i].value \in Held /\ jira[i].mine \in BOOLEAN
                              /\ task[i] \in Task /\ task[i].saved \in Nat
                              /\ prov[i] \in Provenance /\ source[i] \in Source
         /\ \A s \in run.page : /\ s.key \in Issues /\ s.updated \in Nat /\ s.updated \in Times
                                /\ s.value \in Held
         /\ clock \in Nat /\ clock <= MaxTime /\ cursor \in Nat /\ run.max \in Nat
         /\ run.start \in Nat /\ run.floor \in Nat
         /\ run.among \subseteq Issues /\ run.keys \subseteq Issues
         /\ Found \subseteq Issues
<1> USE DEF TypeOK, Issue, Times
<1>1. \A i \in Issues : /\ jira[i].updated \in Nat /\ jira[i].updated <= MaxTime
                        /\ jira[i].value \in Held /\ jira[i].mine \in BOOLEAN
  OBVIOUS
<1>2. \A i \in Issues : /\ task[i] \in Task /\ task[i].saved \in Nat
                        /\ prov[i] \in Provenance /\ source[i] \in Source
  BY DEF Task
<1>3. \A s \in run.page : /\ s.key \in Issues /\ s.updated \in Nat /\ s.updated \in Times
                          /\ s.value \in Held
  BY DEF Run, Snapshot
<1>4. /\ clock \in Nat /\ clock <= MaxTime /\ cursor \in Nat /\ run.max \in Nat
      /\ run.start \in Nat /\ run.floor \in Nat
      /\ run.among \subseteq Issues /\ run.keys \subseteq Issues
  BY DEF Run
<1>5. Found \subseteq Issues
  BY <1>4 DEF Found
<1> QED BY <1>1, <1>2, <1>3, <1>4, <1>5

\* What the query finds is finite, and the place of an issue is a number below its size.
LEMMA FoundFinite ==
  ASSUME TypeOK
  PROVE  /\ IsFiniteSet(Found) /\ Cardinality(Found) \in Nat
         /\ \A i \in Issues : Place(i) \in Nat
         /\ \A i \in Found : Place(i) < Cardinality(Found)
<1>1. IsFiniteSet(Issues)
  BY FS_Interval DEF Issues
<1>2. IsFiniteSet(Found)
  BY <1>1, FS_Subset, Types
<1>3. Cardinality(Found) \in Nat
  BY <1>2, FS_CardinalityType
<1>4. ASSUME NEW i \in Issues
      PROVE  /\ Place(i) \in Nat
             /\ i \in Found => Place(i) < Cardinality(Found)
  <2> DEFINE P == {j \in Found : Before(j, i)}
  <2>1. P \in SUBSET Found /\ i \notin P
    BY <1>4, Types DEF Before, Issues
  <2>2. IsFiniteSet(P) /\ Cardinality(P) <= Cardinality(Found)
        /\ (Cardinality(Found) = Cardinality(P) => Found = P)
    BY <1>2, <2>1, FS_Subset
  <2>3. Cardinality(P) \in Nat
    BY <2>2, FS_CardinalityType
  <2>4. Place(i) = Cardinality(P)
    BY DEF Place
  <2>5. i \in Found => P # Found
    BY <2>1
  <2>6. i \in Found => Cardinality(P) < Cardinality(Found)
    <3> HIDE DEF P
    <3> QED BY <1>3, <2>2, <2>3, <2>5
  <2> HIDE DEF P
  <2> QED BY <2>3, <2>4, <2>6
<1> QED BY <1>2, <1>3, <1>4, Types

LEMMA OneLess ==
  ASSUME NEW N \in Nat, NEW n \in 0 .. N - 1
  PROVE  IsFiniteSet((0 .. N - 1) \ {n}) /\ Cardinality((0 .. N - 1) \ {n}) = N - 1
<1>1. IsFiniteSet(0 .. N - 1) /\ Cardinality(0 .. N - 1) = IF 0 > N - 1 THEN 0 ELSE N - 1 - 0 + 1
  BY FS_Interval
<1>2. Cardinality(0 .. N - 1) = N
  BY <1>1
<1> DEFINE S == 0 .. N - 1
<1>3. IsFiniteSet(S) /\ Cardinality(S) = N /\ n \in S
  BY <1>1, <1>2
<1> HIDE DEF S
<1>4. IsFiniteSet(S \ {n}) /\ Cardinality(S \ {n}) = Cardinality(S) - 1
  BY <1>3, FS_RemoveElement
<1> QED BY <1>3, <1>4 DEF S

\* Two issues are not at one place.
LEMMA PlaceInjective ==
  ASSUME TypeOK, NEW i \in Found, NEW j \in Found, i # j
  PROVE  Place(i) # Place(j)
<1>1. ASSUME NEW u \in Found, NEW v \in Found, Before(u, v)
      PROVE  Place(u) < Place(v)
  <2> DEFINE P(w) == {k \in Found : Before(k, w)}
  <2>1. u \in Issues /\ v \in Issues /\ Found \subseteq Issues /\ Issues \subseteq Nat
    BY Types DEF Issues
  <2>2. \A k \in Found : Before(k, u) => Before(k, v)
    BY <1>1, <2>1, Types DEF Before
  <2>3. P(u) \in SUBSET P(v) /\ u \in P(v)
    BY <1>1, <2>2
  <2>7. u \notin P(u)
    BY <2>1, Types DEF Before
  <2>4. IsFiniteSet(P(v))
    BY FoundFinite, FS_Subset
  <2>5. Cardinality(P(u)) <= Cardinality(P(v)) /\ Cardinality(P(u)) # Cardinality(P(v))
    BY <2>3, <2>4, <2>7, FS_Subset
  <2>6. Place(u) = Cardinality(P(u)) /\ Place(v) = Cardinality(P(v))
    BY DEF Place
  <2> HIDE DEF P
  <2> QED BY <2>1, <2>5, <2>6, FoundFinite
<1>2. i \in Issues /\ j \in Issues /\ Issues \subseteq Nat
  BY Types DEF Issues
<1>3. Before(i, j) \/ Before(j, i)
  BY <1>2, Types DEF Before
<1>4. Place(i) \in Nat /\ Place(j) \in Nat
  BY <1>2, FoundFinite
<1> QED BY <1>1, <1>3, <1>4

\* A page of the search starts at the offset and takes at most maxResults; what
\* is not on it is at a place of the pages to come, and there is such a page unless
\* nothing is left.
LEMMA PageComplete ==
  ASSUME TypeOK, NEW n \in Nat, NEW page,
         page = {i \in Found : Place(i) >= n /\ Place(i) < n + PageSize}
  PROVE  /\ IsFiniteSet(page) /\ Cardinality(page) \in Nat
         /\ page # {} => Cardinality(page) > 0
         /\ \A i \in Found :
              Place(i) >= n /\ i \notin page =>
                /\ Place(i) >= n + Cardinality(page)
                /\ page # {} /\ n + Cardinality(page) < Cardinality(Found)
<1>1. page \in SUBSET Found /\ Found \subseteq Issues
  BY Types
<1>2. IsFiniteSet(page) /\ Cardinality(page) \in Nat
  BY <1>1, FoundFinite, FS_Subset, FS_CardinalityType
<1>3. page # {} => Cardinality(page) > 0
  BY <1>2, FS_EmptySet
<1>4. Cardinality(page) <= PageSize
  <2> DEFINE f == [i \in page |-> Place(i)]
             T == n .. n + PageSize - 1
  <2>1. IsFiniteSet(T) /\ Cardinality(T) = PageSize
    BY FS_Interval
  <2>2. f \in [page -> T]
    BY <1>1, FoundFinite
  <2>3. \A i, j \in page : i # j => f[i] # f[j]
    BY <1>1, PlaceInjective
  <2>4. ~(PageSize < Cardinality(page))
    <3> HIDE DEF f, T
    <3> QED BY <1>2, <2>1, <2>2, <2>3, FS_PigeonHole
  <2> QED BY <1>2, <2>4
<1>5. ASSUME NEW i \in Found, Place(i) >= n, i \notin page
      PROVE  /\ Place(i) >= n + Cardinality(page)
             /\ n + Cardinality(page) < Cardinality(Found)
  <2>1. Place(i) \in Nat /\ Place(i) < Cardinality(Found) /\ Cardinality(Found) \in Nat
    BY <1>1, FoundFinite
  <2>2. Place(i) >= n + PageSize
    BY <1>5, <2>1
  <2> QED BY <1>2, <1>4, <2>1, <2>2
<1>6. ASSUME NEW i \in Found, Place(i) >= n, page = {}
      PROVE  FALSE
  <2> DEFINE N == Cardinality(Found)
             f == [j \in Found |-> Place(j)]
             T == (0 .. N - 1) \ {n}
  <2>1. N \in Nat /\ Place(i) \in Nat /\ Place(i) < N
    BY <1>1, FoundFinite
  <2>2. Place(i) # n
    BY <1>6, <2>1
  <2>3. n \in 0 .. N - 1
    BY <1>6, <2>1, <2>2
  <2>4. IsFiniteSet(T) /\ Cardinality(T) = N - 1
    BY <2>1, <2>3, OneLess
  <2>6. \A j \in Found : Place(j) \in 0 .. N - 1 /\ Place(j) # n
    BY <1>1, <1>6, FoundFinite
  <2>7. f \in [Found -> T]
    BY <2>6
  <2>8. \A j, k \in Found : j # k => f[j] # f[k]
    BY PlaceInjective
  <2>9. Cardinality(T) < Cardinality(Found)
    BY <2>1, <2>4
  <2> HIDE DEF f, T
  <2> QED BY <2>4, <2>7, <2>8, <2>9, FoundFinite, FS_PigeonHole
<1> QED BY <1>2, <1>3, <1>5, <1>6

\* The query finds the same as long as nothing changes in Jira.
LEMMA FoundSame ==
  ASSUME jira' = jira, run'.among = run.among, run'.scope = run.scope, run'.floor = run.floor
  PROVE  Found' = Found /\ \A i : Place(i)' = Place(i)
<1>1. Found' = Found
  BY DEF Found
<1>2. \A i : Place(i)' = Place(i)
  BY <1>1 DEF Place, Before
<1> QED BY <1>1, <1>2

----------------------------------------------------------------------------
(* What several steps have in common *)

LEMMA FloorType ==
  ASSUME TypeOK
  PROVE  /\ Floor \in Nat
         /\ Behind = 0 => Floor = 0 \/ Floor + Overlap <= cursor
<1>1. cursor \in Nat /\ Overlap \in Nat /\ Behind \in Nat /\ Minute \in Nat \ {0}
  BY TasksAssumption DEF TypeOK, Times
<1>2. ASSUME NEW t \in Nat
      PROVE  Cut(t) \in Nat /\ Cut(t) <= t
  <2>1. t % Minute \in 0..(Minute - 1) /\ t % Minute <= t
    BY <1>1
  <2> QED BY <2>1 DEF Cut
<1>3. CASE cursor > Overlap
  <2>1. Cut(cursor - Overlap) \in Nat /\ Cut(cursor - Overlap) <= cursor - Overlap
    BY <1>1, <1>2, <1>3
  <2> QED BY <1>1, <1>3, <2>1 DEF Floor
<1>4. CASE ~(cursor > Overlap)
  <2>1. Cut(0) = 0
    BY <1>2
  <2> QED BY <1>1, <1>4, <2>1 DEF Floor
<1> QED BY <1>3, <1>4

\* A step that leaves the fields alone.
LEMMA FieldsSame ==
  ASSUME Sourced, Remembered, FieldTells, UNCHANGED fieldVars, seen'.unsure = seen.unsure,
         \A i \in Issues : task'[i].heard = task[i].heard /\ task'[i].shown = task[i].shown
  PROVE  Sourced' /\ Remembered' /\ FieldTells'
<1>1. prov' = prov /\ source' = source
  BY DEF fieldVars
<1>2. \A i \in Issues : (Overridden(i))' = Overridden(i) /\ (Restored(i))' = Restored(i)
  BY <1>1 DEF Overridden, Restored
<1>3. Sourced'
  BY <1>1, <1>2 DEF Sourced, SourcedAt
<1>4. Remembered'
  BY <1>1, <1>2 DEF Remembered, RememberedAt
<1>5. FieldTells'
  BY <1>1, <1>2 DEF FieldTells, Told
<1> QED BY <1>3, <1>4, <1>5

\* A step that leaves the runs, the watermark and Jira alone, and of the tasks what
\* they have to do with them.
LEMMA RunSame ==
  ASSUME Timely, RunInOrder, PageAsRead, Collected, NothingSkipped,
         UNCHANGED <<jira, clock, cursor, run>>, seen'.lost = seen.lost,
         \A i \in Issues :
           /\ task'[i].heard = task[i].heard /\ task'[i].saved = task[i].saved
           /\ task'[i].visible = task[i].visible
           /\ task[i].known => task'[i].known
           /\ task'[i].latest # "none" => task'[i].known,
         TypeOK
  PROVE  Timely' /\ RunInOrder' /\ PageAsRead' /\ Collected' /\ NothingSkipped'
<1>1. Timely'
  BY DEF Timely
<1>2. RunInOrder'
  BY DEF RunInOrder, Floor, Cut
<1>3. PageAsRead'
  BY Types DEF PageAsRead
<1>4. Found' = Found /\ \A i \in Issues : (Place(i))' = Place(i)
  BY FoundSame
<1>5. /\ Reading' = Reading
      /\ \A i \in Issues : (Fresh(i))' = Fresh(i) /\ (Got(i) => (Got(i))')
  BY DEF Reading, Fresh, Got
<1>6. Collected'
  BY <1>4, <1>5, Types DEF Collected
<1>7. NothingSkipped'
  BY DEF NothingSkipped
<1> QED BY <1>1, <1>2, <1>3, <1>6, <1>7

----------------------------------------------------------------------------
(* The initial states, and one step of each kind *)

LEMMA Initially == Init => IInv
<1> SUFFICES ASSUME Init PROVE IInv
  OBVIOUS
<1> USE DEF Init
<1>0. /\ Issues \subseteq Times /\ 0 \in Times /\ NumIssues \in Times /\ \A i \in Issues : i # 0
  BY DEF Issues, Times
<1>1. /\ \A i \in Issues : task[i] = NoTask /\ prov[i] = NoProv /\ source[i] = NoSource
      /\ run = NoRun
  OBVIOUS
<1>2. NoTask \in Task /\ NoProv \in Provenance /\ NoSource \in Source /\ NoRun \in Run
  BY <1>0 DEF NoTask, Task, NoProv, Provenance, NoSource, Source, NoRun, Run, Held, Scopes
<1>3. TypeOK
  BY <1>0, <1>2 DEF TypeOK, NoProv
<1>4. Timely
  BY <1>0, <1>1 DEF Timely, NoTask, NoRun, Issues
<1>5. Sourced /\ Remembered /\ FieldTells
  BY <1>1 DEF Sourced, SourcedAt, Remembered, RememberedAt, FieldTells, Told, Overridden, Restored, NoTask, NoProv, NoSource
<1>6. RunInOrder
  BY <1>1 DEF RunInOrder, NoRun
<1>7. PageAsRead
  BY <1>1 DEF PageAsRead, NoRun
<1>8. Found = {}
  BY <1>1 DEF Found, NoRun
<1>9. Collected
  BY <1>1, <1>8 DEF Collected, NoRun
<1>10. NothingSkipped
  BY <1>0 DEF NothingSkipped, Issues
<1> QED BY <1>3, <1>4, <1>5, <1>6, <1>7, <1>9, <1>10 DEF IInv

LEMMA ChangeStep ==
  ASSUME IInv, Change
  PROVE  IInv'
<1>0. /\ TypeOK /\ Timely /\ Sourced /\ Remembered /\ FieldTells
      /\ RunInOrder /\ PageAsRead /\ Collected /\ NothingSkipped
  BY DEF IInv
<1>1. PICK i \in Issues, t \in Times, v \in Held, mine \in BOOLEAN :
        /\ clock < t /\ clock' = t
        /\ jira' = [jira EXCEPT ![i] = [updated |-> t, value |-> v, mine |-> mine]]
        /\ run' = [run EXCEPT !.moved = @ \/ BetweenPages]
        /\ UNCHANGED <<task, fieldVars, cursor, seen, budget>>
  BY DEF Change
<1>2. /\ UNCHANGED <<task, prov, source, cursor, seen, budget>>
      /\ jira'[i] = [updated |-> t, value |-> v, mine |-> mine]
      /\ \A j \in Issues : j # i => jira'[j] = jira[j]
      /\ t \in Nat
  BY <1>0, <1>1 DEF fieldVars, TypeOK, Times
<1>3. /\ run' \in Run /\ run'.moved = (run.moved \/ BetweenPages)
      /\ run'.pc = run.pc /\ run'.scope = run.scope /\ run'.floor = run.floor
      /\ run'.among = run.among /\ run'.start = run.start /\ run'.more = run.more
      /\ run'.page = run.page /\ run'.keys = run.keys /\ run'.max = run.max
  <2>1. BetweenPages \in BOOLEAN /\ run.moved \in BOOLEAN
    BY <1>0 DEF BetweenPages, TypeOK, Run
  <2> QED BY <1>0, <1>1, <2>1 DEF TypeOK, Run
<1>4. TypeOK'
  BY <1>0, <1>1, <1>2, <1>3 DEF TypeOK, Issue
<1>5. Timely'
  BY <1>0, <1>1, <1>2, <1>3, Types DEF Timely
<1>6. Sourced' /\ Remembered' /\ FieldTells'
  BY <1>0, <1>2, FieldsSame DEF fieldVars
<1>7. RunInOrder'
  BY <1>0, <1>2, <1>3 DEF RunInOrder, Floor, Cut
<1>8. \A s \in run.page : s.updated < t
  BY <1>0, <1>1, <1>2, Types DEF PageAsRead, Timely
<1>9. PageAsRead'
  BY <1>0, <1>2, <1>3, <1>8, Types DEF PageAsRead
<1>10. Collected'
  <2>1. CASE run'.moved
    BY <2>1 DEF Collected
  <2>2. CASE ~run'.moved /\ Reading
    <3>1. run.pc = "page" /\ run.start = 0
      <4>1. ~BetweenPages
        BY <1>3, <2>2
      <4>2. run.start \in Nat
        BY <1>0, Types
      <4> QED BY <2>2, <4>1, <4>2 DEF BetweenPages, Reading
    <3>2. run'.keys = {} /\ run'.page = {} /\ Reading' /\ run'.start = 0
      BY <1>0, <1>3, <3>1 DEF RunInOrder, Reading
    <3>4. Found' \subseteq Issues
      BY <1>0, <1>3, Types DEF Found
    <3>3. \A j \in Issues : (Place(j))' \in Nat
      <4> SUFFICES ASSUME NEW j \in Issues PROVE (Place(j))' \in Nat
        OBVIOUS
      <4> DEFINE P == {k \in Found' : (Before(k, j))'}
      <4>1. IsFiniteSet(Issues)
        BY FS_Interval DEF Issues
      <4>2. IsFiniteSet(P)
        BY <3>4, <4>1, FS_Subset
      <4>3. Cardinality(P) \in Nat
        BY <4>2, FS_CardinalityType
      <4> QED BY <4>3 DEF Place
    <3> QED BY <3>2, <3>3, <3>4 DEF Collected
  <2>3. CASE ~run'.moved /\ ~Reading
    <3>1. ~Reading' /\ ~run.moved
      BY <1>3, <2>3 DEF Reading
    <3>2. (Fresh(i))'
      BY <1>0, <1>1, <1>2, <1>3, <1>8, <3>1, Types DEF Fresh, Timely
    <3>3. \A j \in Issues : j # i => (Fresh(j) => (Fresh(j))') /\ (Got(j) => (Got(j))')
      BY <1>2, <1>3, <3>1 DEF Fresh, Got
    <3>4. Found' \subseteq Issues /\ \A j \in Found' : j # i => j \in Found
      BY <1>0, <1>2, <1>3, Types DEF Found
    <3>5. \A s \in run'.page : s.updated = jira'[s.key].updated \/ (Fresh(s.key))'
      BY <1>0, <1>2, <1>3, <3>1, <3>2, <3>3, Types DEF Collected
    <3>6. \A j \in run'.keys : (Got(j))' \/ (Fresh(j))'
      BY <1>0, <1>3, <3>1, <3>2, <3>3, Types DEF Collected
    <3>7. ASSUME NEW j \in Found'
          PROVE  j \in run'.keys \/ (Fresh(j))' \/ \E s \in run'.page : s.key = j
      BY <1>0, <1>3, <2>3, <3>1, <3>2, <3>3, <3>4 DEF Collected
    <3> QED BY <3>5, <3>6, <3>7 DEF Collected
  <2> QED BY <2>1, <2>2, <2>3
<1>11. NothingSkipped'
  BY <1>0, <1>1, <1>2, Types DEF NothingSkipped, Timely
<1> QED BY <1>4, <1>5, <1>6, <1>7, <1>9, <1>10, <1>11 DEF IInv

LEMMA BeginStep ==
  ASSUME IInv, Begin
  PROVE  IInv'
<1>0. /\ TypeOK /\ Timely /\ Sourced /\ Remembered /\ FieldTells
      /\ RunInOrder /\ PageAsRead /\ Collected /\ NothingSkipped
      /\ UNCHANGED <<jira, clock, task, prov, source, cursor, seen, budget>>
  BY DEF IInv, Begin, fieldVars
<1>1. PICK scope \in Scopes, among \in SUBSET Issues :
        /\ scope # "period" => among = Issues
        /\ run' = [NoRun EXCEPT !.pc = "page", !.scope = scope, !.among = among,
                                !.floor = IF scope = "incremental" THEN Floor ELSE 0]
  BY DEF Begin
<1>2. /\ run' \in Run
      /\ run'.pc = "page" /\ run'.scope = scope /\ run'.among = among
      /\ run'.floor = (IF scope = "incremental" THEN Floor ELSE 0)
      /\ run'.start = 0 /\ run'.more = FALSE /\ run'.page = {} /\ run'.keys = {} /\ run'.max = 0
  <2>1. run'.floor \in Nat /\ 0 \in Times
    BY <1>0, <1>1, FloorType DEF NoRun, Times
  <2> QED BY <1>1, <2>1 DEF NoRun, Run
<1>3. TypeOK'
  BY <1>0, <1>2 DEF TypeOK
<1>4. Timely'
  BY <1>0, <1>2, Types DEF Timely
<1>5. Sourced' /\ Remembered' /\ FieldTells'
  BY <1>0, FieldsSame DEF fieldVars
<1>6. RunInOrder'
  BY <1>0, <1>1, <1>2 DEF RunInOrder, Floor, Cut
<1>7. PageAsRead'
  BY <1>2 DEF PageAsRead
<1>8. Collected'
  <2>1. Reading' /\ Found' \subseteq Issues
    BY <1>2 DEF Reading, Found
  <2>2. \A i \in Issues : (Place(i))' \in Nat
    <3> SUFFICES ASSUME NEW i \in Issues PROVE (Place(i))' \in Nat
      OBVIOUS
    <3> DEFINE P == {j \in Found' : (Before(j, i))'}
    <3>1. IsFiniteSet(Issues)
      BY FS_Interval DEF Issues
    <3>2. Cardinality(P) \in Nat
      BY <2>1, <3>1, FS_Subset, FS_CardinalityType
    <3> QED BY <3>2 DEF Place
  <2> QED BY <1>2, <2>1, <2>2 DEF Collected
<1>9. NothingSkipped'
  BY <1>0 DEF NothingSkipped
<1> QED BY <1>3, <1>4, <1>5, <1>6, <1>7, <1>8, <1>9 DEF IInv

LEMMA ReadPageStep ==
  ASSUME IInv, ReadPage
  PROVE  IInv'
<1>0. /\ TypeOK /\ Timely /\ Sourced /\ Remembered /\ FieldTells
      /\ RunInOrder /\ PageAsRead /\ Collected /\ NothingSkipped
      /\ UNCHANGED <<jira, clock, task, prov, source, cursor, seen, budget>>
  BY DEF IInv, ReadPage, fieldVars
<1> DEFINE page == {i \in Found : Place(i) >= run.start /\ Place(i) < run.start + PageSize}
           next == run.start + Cardinality(page)
           more == page # {} /\ next < Cardinality(Found)
           rows == {[key |-> i, updated |-> jira[i].updated, value |-> jira[i].value] : i \in page}
<1>1. /\ run.pc = "page" /\ run.page = {} /\ Reading
      /\ run' = [run EXCEPT !.pc = "save", !.start = next, !.more = more, !.page = rows]
  BY <1>0 DEF ReadPage, RunInOrder, Reading
<1>2. /\ IsFiniteSet(page) /\ Cardinality(page) \in Nat
      /\ page # {} => Cardinality(page) > 0
      /\ \A i \in Found :
           Place(i) >= run.start /\ i \notin page =>
             Place(i) >= run.start + Cardinality(page) /\ more
  BY <1>0, PageComplete, Types
<1>3. page \subseteq Issues /\ rows \subseteq Snapshot /\ next \in Nat
      /\ (page # {} => next > 0)
  BY <1>0, <1>2, Types DEF TypeOK, Issue, Snapshot
<1>4. \A s \in rows : /\ s.key \in page /\ s.key \in Issues
                      /\ s.updated = jira[s.key].updated /\ s.value = jira[s.key].value
  BY <1>3
<1>5. \A r, s \in rows : r.key = s.key => r = s
  OBVIOUS
<1>6. \A i \in page : \E s \in rows : s.key = i
  <2> SUFFICES ASSUME NEW i \in page PROVE \E s \in rows : s.key = i
    OBVIOUS
  <2> WITNESS [key |-> i, updated |-> jira[i].updated, value |-> jira[i].value] \in rows
  <2> QED OBVIOUS
<1>7. more \in BOOLEAN /\ (more => next > 0)
  BY <1>3
<1> HIDE DEF page, next, more, rows
<1>8. /\ run' \in Run
      /\ run'.pc = "save" /\ run'.start = next /\ run'.more = more /\ run'.page = rows
      /\ run'.scope = run.scope /\ run'.floor = run.floor /\ run'.among = run.among
      /\ run'.keys = run.keys /\ run'.max = run.max /\ run'.moved = run.moved
  BY <1>0, <1>1, <1>3, <1>7 DEF TypeOK, Run
<1>9. TypeOK'
  BY <1>0, <1>8 DEF TypeOK
<1>10. Timely'
  BY <1>0, <1>8 DEF Timely
<1>11. Sourced' /\ Remembered' /\ FieldTells'
  BY <1>0, FieldsSame DEF fieldVars
<1>12. RunInOrder'
  BY <1>0, <1>1, <1>7, <1>8 DEF RunInOrder, Floor, Cut
<1>13. PageAsRead'
  BY <1>0, <1>4, <1>5, <1>8, Types DEF PageAsRead, Timely
<1>14. Collected'
  <2> SUFFICES ASSUME ~run.moved PROVE Collected'
    BY <1>8 DEF Collected
  <2>1. Found' = Found /\ \A i \in Issues : (Place(i))' = Place(i)
    BY <1>0, <1>8, FoundSame
  <2>2. \A i \in run.keys : Got(i) /\ (Got(i))'
    BY <1>0, <1>1 DEF Collected, Fresh, Got
  <2>3. ASSUME NEW i \in Found, i \notin run.keys
        PROVE  \/ \E s \in rows : s.key = i
               \/ more /\ Place(i) >= next
    <3>1. Place(i) >= run.start
      BY <1>0, <1>1, <2>3 DEF Collected, Fresh
    <3> QED BY <1>2, <1>6, <3>1 DEF next
  <2>4. more => Reading'
    BY <1>8 DEF Reading
  <2> QED BY <1>0, <1>4, <1>8, <2>1, <2>2, <2>3, <2>4, Types DEF Collected
<1>15. NothingSkipped'
  BY <1>0 DEF NothingSkipped
<1> QED BY <1>9, <1>10, <1>11, <1>12, <1>13, <1>14, <1>15 DEF IInv

LEMMA PageDoneStep ==
  ASSUME IInv, PageDone
  PROVE  IInv'
<1>0. /\ TypeOK /\ Timely /\ Sourced /\ Remembered /\ FieldTells
      /\ RunInOrder /\ PageAsRead /\ Collected /\ NothingSkipped
      /\ UNCHANGED <<jira, clock, task, prov, source, cursor, seen, budget>>
      /\ run.pc = "save" /\ run.page = {}
      /\ run' = [run EXCEPT !.pc = IF run.more THEN "page"
                                   ELSE IF run.scope = "full" THEN "hide" ELSE "end"]
  BY DEF IInv, PageDone, fieldVars
<1>1. /\ run' \in Run
      /\ run'.pc = (IF run.more THEN "page" ELSE IF run.scope = "full" THEN "hide" ELSE "end")
      /\ run'.start = run.start /\ run'.more = run.more /\ run'.page = {}
      /\ run'.scope = run.scope /\ run'.floor = run.floor /\ run'.among = run.among
      /\ run'.keys = run.keys /\ run'.max = run.max /\ run'.moved = run.moved
  BY <1>0 DEF TypeOK, Run
<1>2. TypeOK'
  BY <1>0, <1>1 DEF TypeOK
<1>3. Timely'
  BY <1>0, <1>1 DEF Timely
<1>4. Sourced' /\ Remembered' /\ FieldTells'
  BY <1>0, FieldsSame DEF fieldVars
<1>5. RunInOrder'
  BY <1>0, <1>1, Types DEF RunInOrder, Floor, Cut
<1>6. PageAsRead'
  BY <1>1 DEF PageAsRead
<1>7. Found' = Found /\ \A i \in Issues : (Place(i))' = Place(i)
  BY <1>0, <1>1, FoundSame
<1>8. Reading' = Reading
  BY <1>0, <1>1 DEF Reading, TypeOK, Run
<1>9. \A i \in Issues : (Fresh(i) => (Fresh(i))') /\ (Got(i) => (Got(i))')
  BY <1>0, <1>1, <1>8 DEF Fresh, Got
<1>10. Collected'
  BY <1>0, <1>1, <1>7, <1>8, <1>9, Types DEF Collected
<1>11. NothingSkipped'
  BY <1>0 DEF NothingSkipped
<1> QED BY <1>2, <1>3, <1>4, <1>5, <1>6, <1>10, <1>11 DEF IInv

LEMMA HideStep ==
  ASSUME IInv, Hide
  PROVE  IInv'
<1>0. /\ TypeOK /\ Timely /\ Sourced /\ Remembered /\ FieldTells
      /\ RunInOrder /\ PageAsRead /\ Collected /\ NothingSkipped
      /\ UNCHANGED <<jira, clock, prov, source, cursor, budget>>
      /\ run.pc = "hide" /\ run' = [run EXCEPT !.pc = "end"]
      /\ seen' = [seen EXCEPT !.lost = @ \/ run.moved]
      /\ task' = [i \in Issues |->
           IF task[i].known /\ i \notin run.keys \union Logged
           THEN [task[i] EXCEPT !.visible = FALSE] ELSE task[i]]
  BY DEF IInv, Hide, fieldVars
<1>1. /\ run' \in Run
      /\ run'.pc = "end" /\ run'.start = run.start /\ run'.more = run.more /\ run'.page = {}
      /\ run'.scope = run.scope /\ run'.floor = run.floor /\ run'.among = run.among
      /\ run'.keys = run.keys /\ run'.max = run.max /\ run'.moved = run.moved
      /\ run.page = {} /\ run.scope = "full" /\ run.floor = 0 /\ run.among = Issues
  BY <1>0 DEF TypeOK, Run, RunInOrder
<1>2. /\ task' \in [Issues -> Task]
      /\ \A i \in Issues : /\ task'[i].known = task[i].known /\ task'[i].shown = task[i].shown
                           /\ task'[i].saved = task[i].saved /\ task'[i].heard = task[i].heard
                           /\ task'[i].latest = task[i].latest
                           /\ i \in run.keys => task'[i].visible = task[i].visible
  <2> SUFFICES ASSUME NEW i \in Issues
               PROVE  /\ task'[i] \in Task
                      /\ task'[i].known = task[i].known /\ task'[i].shown = task[i].shown
                      /\ task'[i].saved = task[i].saved /\ task'[i].heard = task[i].heard
                      /\ task'[i].latest = task[i].latest
                      /\ i \in run.keys => task'[i].visible = task[i].visible
    BY <1>0
  <2>1. task[i] \in Task /\ [task[i] EXCEPT !.visible = FALSE] \in Task
    BY <1>0, Types DEF Task
  <2> QED BY <1>0, <2>1 DEF Task
<1>3. /\ seen'.lost = (seen.lost \/ run.moved) /\ seen'.unsure = seen.unsure
      /\ seen' \in [lost: BOOLEAN, unsure: SUBSET Issues]
  <2>1. run.moved \in BOOLEAN /\ seen \in [lost: BOOLEAN, unsure: SUBSET Issues]
    BY <1>0 DEF TypeOK, Run
  <2> QED BY <1>0, <2>1
<1>4. TypeOK'
  BY <1>0, <1>1, <1>2, <1>3 DEF TypeOK
<1>5. Timely'
  BY <1>0, <1>1, <1>2 DEF Timely
<1>6. Sourced' /\ Remembered' /\ FieldTells'
  BY <1>0, <1>2, <1>3, FieldsSame DEF fieldVars
<1>7. RunInOrder'
  BY <1>0, <1>1 DEF RunInOrder, Floor, Cut
<1>8. PageAsRead'
  BY <1>1 DEF PageAsRead
<1>9. ~Reading /\ ~Reading'
  BY <1>0, <1>1 DEF Reading
<1>10. Found' = Found
  BY <1>0, <1>1, FoundSame
<1>11. /\ \A i \in Issues : Fresh(i) => (Fresh(i))'
       /\ \A i \in run.keys : Got(i) => (Got(i))'
  BY <1>0, <1>1, <1>2, <1>9, Types DEF Fresh, Got
<1>12. Collected'
  BY <1>0, <1>1, <1>9, <1>10, <1>11, Types DEF Collected
<1>13. NothingSkipped'
  <2> SUFFICES ASSUME Behind = 0, ~seen.lost, ~run.moved, NEW i \in Issues,
                      jira[i].mine, jira[i].updated + Overlap < cursor
               PROVE  task'[i].known /\ task'[i].visible /\ task'[i].saved = jira[i].updated
    BY <1>0, <1>3 DEF NothingSkipped
  <2>1. task[i].known /\ task[i].visible /\ task[i].saved = jira[i].updated
    BY <1>0 DEF NothingSkipped
  <2>2. i \in Found
    BY <1>0, <1>1, Types DEF Found
  <2>3. ~Fresh(i)
    BY <1>0, Types DEF Fresh
  <2>4. i \in run.keys
    BY <1>0, <1>1, <1>9, <2>2, <2>3 DEF Collected
  <2> QED BY <1>2, <2>1, <2>4
<1> QED BY <1>4, <1>5, <1>6, <1>7, <1>8, <1>12, <1>13 DEF IInv

\* The run is over and nothing of it is left.
LEMMA RunOver ==
  ASSUME RunInOrder, run' = NoRun
  PROVE  /\ run' \in Run /\ run'.max = 0 /\ run'.max \in Times
         /\ RunInOrder' /\ PageAsRead' /\ Collected'
<1>1. 0 \in Times
  BY DEF Times
<1>2. /\ run'.pc = "idle" /\ run'.scope = "full" /\ run'.floor = 0 /\ run'.among = {}
      /\ run'.more = FALSE /\ run'.page = {} /\ run'.keys = {} /\ run'.max = 0
  BY DEF NoRun
<1>3. run' \in Run
  BY <1>1 DEF NoRun, Run, Scopes
<1>4. Found' = {}
  BY <1>2 DEF Found
<1> QED BY <1>1, <1>2, <1>3, <1>4 DEF RunInOrder, PageAsRead, Collected

LEMMA AdvanceStep ==
  ASSUME IInv, Advance
  PROVE  IInv'
<1>0. /\ TypeOK /\ Timely /\ Sourced /\ Remembered /\ FieldTells
      /\ RunInOrder /\ PageAsRead /\ Collected /\ NothingSkipped
      /\ UNCHANGED <<jira, clock, task, prov, source, budget>>
      /\ run.pc = "end" /\ run' = NoRun
      /\ cursor' = (IF SharesCursor(run.scope) /\ run.max # 0 THEN run.max ELSE cursor)
      /\ seen' = [seen EXCEPT
           !.lost = IF ~SharesCursor(run.scope) THEN @
                    ELSE IF run.scope = "full" THEN run.moved ELSE @ \/ run.moved]
  BY DEF IInv, Advance, fieldVars
<1>1. /\ run' \in Run /\ run'.max = 0 /\ run'.max \in Times
      /\ RunInOrder' /\ PageAsRead' /\ Collected'
  BY <1>0, RunOver
<1>2. /\ seen'.unsure = seen.unsure
      /\ seen'.lost = (IF ~SharesCursor(run.scope) THEN seen.lost
                       ELSE IF run.scope = "full" THEN run.moved ELSE seen.lost \/ run.moved)
      /\ seen' \in [lost: BOOLEAN, unsure: SUBSET Issues]
  <2>1. run.moved \in BOOLEAN /\ seen \in [lost: BOOLEAN, unsure: SUBSET Issues]
    BY <1>0 DEF TypeOK, Run
  <2> QED BY <1>0, <2>1
<1>3. cursor' \in Times /\ cursor' <= clock
  BY <1>0 DEF TypeOK, Run, Timely
<1>4. TypeOK'
  BY <1>0, <1>1, <1>2, <1>3 DEF TypeOK
<1>5. Timely'
  BY <1>0, <1>1, <1>3, Types DEF Timely
<1>6. Sourced' /\ Remembered' /\ FieldTells'
  BY <1>0, <1>2, FieldsSame DEF fieldVars
<1>7. NothingSkipped'
  <2> SUFFICES ASSUME Behind = 0, ~seen'.lost, NEW i \in Issues,
                      jira[i].mine, jira[i].updated + Overlap < cursor'
               PROVE  Got(i)
    BY <1>0 DEF NothingSkipped, Got
  <2>1. CASE ~SharesCursor(run.scope)
    BY <1>0, <1>2, <2>1 DEF NothingSkipped, Got
  <2>2. CASE SharesCursor(run.scope)
    <3>1. ~run.moved /\ (run.scope # "full" => ~seen.lost)
      BY <1>2, <2>2
    <3>2. run.scope \in {"full", "incremental"} /\ run.among = Issues
      BY <1>0, <2>2 DEF SharesCursor, RunInOrder
    <3>3. ~Fresh(i)
      BY <1>0, Types DEF Fresh
    <3>4. CASE i \in Found
      <4>1. ~Reading /\ run.page = {}
        BY <1>0 DEF Reading, RunInOrder
      <4> QED BY <1>0, <3>1, <3>3, <3>4, <4>1 DEF Collected
    <3>5. CASE i \notin Found
      <4>1. jira[i].updated < run.floor
        BY <1>0, <3>2, <3>5, Types DEF Found
      <4>2. run.scope = "incremental" /\ run.floor = Floor
        BY <1>0, <3>2, <4>1, Types DEF RunInOrder
      <4>3. jira[i].updated + Overlap < cursor
        <5>1. jira[i].updated \in Nat /\ Overlap \in Nat /\ cursor \in Nat
          BY <1>0, TasksAssumption DEF TypeOK, Issue, Times
        <5>2. Floor \in Nat /\ (Floor = 0 \/ Floor + Overlap <= cursor)
          BY <1>0, FloorType
        <5> QED BY <4>1, <4>2, <5>1, <5>2
      <4> QED BY <1>0, <3>1, <4>2, <4>3 DEF NothingSkipped, Got
    <3> QED BY <3>4, <3>5
  <2> QED BY <2>1, <2>2
<1> QED BY <1>1, <1>4, <1>5, <1>6, <1>7 DEF IInv

LEMMA FailStep ==
  ASSUME IInv, Fail
  PROVE  IInv'
<1>0. /\ TypeOK /\ Timely /\ Sourced /\ Remembered /\ FieldTells
      /\ RunInOrder /\ PageAsRead /\ Collected /\ NothingSkipped
      /\ UNCHANGED <<jira, clock, task, prov, source, cursor, seen, budget>>
      /\ run' = NoRun
  BY DEF IInv, Fail, fieldVars
<1>1. /\ run' \in Run /\ run'.max = 0 /\ run'.max \in Times
      /\ RunInOrder' /\ PageAsRead' /\ Collected'
  BY <1>0, RunOver
<1>2. TypeOK' /\ Timely' /\ NothingSkipped'
  BY <1>0, <1>1, Types DEF TypeOK, Timely, NothingSkipped
<1>3. Sourced' /\ Remembered' /\ FieldTells'
  BY <1>0, FieldsSame DEF fieldVars
<1> QED BY <1>1, <1>2, <1>3 DEF IInv

\* What the transaction of one issue does to the row and the provenances.
LEMMA SaveFacts ==
  ASSUME TypeOK, Timely, PageAsRead, NEW s \in run.page, s.key \notin run.keys,
         NEW i, i = s.key, NEW known, known = (task[i].latest = "jira" /\ task[i].saved = s.updated),
         task' = [task EXCEPT ![i] =
                    IF known THEN [@ EXCEPT !.visible = TRUE]
                    ELSE [known |-> TRUE, shown |-> Merged(i, s.value), visible |-> TRUE,
                          saved |-> s.updated, heard |-> s.value,
                          latest |-> IF @.saved = s.updated THEN @.latest ELSE "jira"]]
  PROVE  /\ task' \in [Issues -> Task] /\ i \in Issues
         /\ \A j \in Issues : j # i => task'[j] = task[j]
         /\ task'[i].known /\ task'[i].visible
         /\ task'[i].saved = s.updated /\ task'[i].heard = s.value
         /\ task'[i].shown = (IF known THEN task[i].shown ELSE Merged(i, s.value))
         /\ known => task[i].heard = s.value
<1>0. i \in Issues /\ s.updated \in Times /\ s.value \in Held /\ task[i] \in Task
      /\ task \in [Issues -> Task]
  BY Types DEF TypeOK
<1>1. Merged(i, s.value) \in Held
  BY <1>0, Types DEF Merged, Overridden, Provenance, Task, Held
<1>2. known \in BOOLEAN /\ (known => task[i].saved = s.updated)
  OBVIOUS
<1>3. known => task[i].heard = s.value /\ task[i].known
  BY <1>0, <1>2 DEF PageAsRead, Timely
<1> DEFINE kept == [task[i] EXCEPT !.visible = TRUE]
           told == [known |-> TRUE, shown |-> Merged(i, s.value), visible |-> TRUE,
                    saved |-> s.updated, heard |-> s.value,
                    latest |-> IF task[i].saved = s.updated THEN task[i].latest ELSE "jira"]
<1>4. /\ kept \in Task /\ kept.visible = TRUE
      /\ kept.known = task[i].known /\ kept.saved = task[i].saved
      /\ kept.heard = task[i].heard /\ kept.shown = task[i].shown
  BY <1>0 DEF Task
<1>5. told \in Task
  BY <1>0, <1>1 DEF Task
<1>6. task' = [task EXCEPT ![i] = IF known THEN kept ELSE told]
  BY <1>0
<1>7. told.known = TRUE /\ told.visible = TRUE /\ told.saved = s.updated /\ told.heard = s.value
      /\ told.shown = Merged(i, s.value)
  OBVIOUS
<1> HIDE DEF kept, told
<1>8. task' \in [Issues -> Task] /\ task'[i] = (IF known THEN kept ELSE told)
      /\ \A j \in Issues : j # i => task'[j] = task[j]
  <2> DEFINE row == IF known THEN kept ELSE told
  <2>1. row \in Task
    BY <1>4, <1>5
  <2>2. task' = [task EXCEPT ![i] = row]
    BY <1>6
  <2> HIDE DEF row
  <2>3. task' \in [Issues -> Task] /\ task'[i] = row /\ \A j \in Issues : j # i => task'[j] = task[j]
    BY <1>0, <2>1, <2>2
  <2> QED BY <2>3 DEF row
<1> QED BY <1>0, <1>2, <1>3, <1>4, <1>7, <1>8

\* The transaction of an issue, as far as it is about the provenances.
Observes(i, v, known) ==
  /\ prov' = [prov EXCEPT ![i] = Observed(i, v)]
  /\ source' = IF ~Overridden(i) /\ v # None
               THEN [source EXCEPT ![i] = [from |-> "jira", value |-> v]] ELSE source
  /\ seen' = [seen EXCEPT !.unsure =
                IF Missed(i, v) THEN @ \union {i}
                ELSE IF ~Overridden(i) /\ v # None /\ ~known THEN @ \ {i} ELSE @]

\* What the observation of a value does to the provenance, and what it forgets.
LEMMA ObservedFacts ==
  ASSUME TypeOK, NEW i \in Issues, NEW v \in Held, NEW known \in BOOLEAN, Observes(i, v, known)
  PROVE  /\ prov' \in [Issues -> Provenance] /\ source' \in [Issues -> Source]
         /\ seen' \in [lost: BOOLEAN, unsure: SUBSET Issues]
         /\ \A j \in Issues : j # i => prov'[j] = prov[j] /\ source'[j] = source[j]
         /\ Overridden(i) =>
              /\ prov'[i].from = "manual" /\ prov'[i].as = "override"
              /\ prov'[i].value = prov[i].value
              /\ prov'[i].conflict = (IF v # prov[i].value THEN v ELSE None)
              /\ source'[i] = source[i]
         /\ ~Overridden(i) /\ v # None =>
              /\ prov'[i] = [from |-> "jira", as |-> "fact", value |-> v, conflict |-> None]
              /\ source'[i] = [from |-> "jira", value |-> v]
         /\ ~Overridden(i) /\ v = None => prov'[i] = prov[i] /\ source'[i] = source[i]
         /\ prov'[i].from = "none" => prov[i].from = "none"
         /\ seen'.lost = seen.lost
         /\ \A j \in Issues : j # i => (j \in seen'.unsure <=> j \in seen.unsure)
         /\ i \notin seen'.unsure =>
              ~Missed(i, v) /\ (i \in seen.unsure => ~Overridden(i) /\ v # None /\ ~known)
<1>0. /\ prov[i] \in Provenance /\ source[i] \in Source /\ prov \in [Issues -> Provenance]
      /\ source \in [Issues -> Source] /\ seen \in [lost: BOOLEAN, unsure: SUBSET Issues]
      /\ None \in Held
  BY Types DEF TypeOK, Held
<1> USE DEF Observes
<1>1. Observed(i, v) \in Provenance
  BY <1>0 DEF Observed, Provenance
<1>2. /\ prov' \in [Issues -> Provenance] /\ prov'[i] = Observed(i, v)
      /\ \A j \in Issues : j # i => prov'[j] = prov[j]
  BY <1>0, <1>1
<1>3. /\ source' \in [Issues -> Source]
      /\ \A j \in Issues : j # i => source'[j] = source[j]
      /\ source'[i] = (IF ~Overridden(i) /\ v # None THEN [from |-> "jira", value |-> v] ELSE source[i])
  <2>1. [from |-> "jira", value |-> v] \in Source
    BY <1>0 DEF Source
  <2> QED BY <1>0, <2>1
<1>4. /\ Overridden(i) => /\ prov'[i].from = "manual" /\ prov'[i].as = "override"
                          /\ prov'[i].value = prov[i].value
                          /\ prov'[i].conflict = (IF v # prov[i].value THEN v ELSE None)
      /\ ~Overridden(i) /\ v # None =>
           prov'[i] = [from |-> "jira", as |-> "fact", value |-> v, conflict |-> None]
      /\ ~Overridden(i) /\ v = None => prov'[i] = prov[i]
  BY <1>0, <1>2 DEF Observed, Overridden, Provenance
<1>5. prov'[i].from = "none" => prov[i].from = "none"
  BY <1>4
<1>6. /\ seen' \in [lost: BOOLEAN, unsure: SUBSET Issues] /\ seen'.lost = seen.lost
      /\ \A j \in Issues : j # i => (j \in seen'.unsure <=> j \in seen.unsure)
      /\ i \notin seen'.unsure =>
           ~Missed(i, v) /\ (i \in seen.unsure => ~Overridden(i) /\ v # None /\ ~known)
  BY <1>0
<1> QED BY <1>2, <1>3, <1>4, <1>5, <1>6

LEMMA SaveTaskStep ==
  ASSUME IInv, SaveTask
  PROVE  IInv'
<1>0. /\ TypeOK /\ Timely /\ Sourced /\ Remembered /\ FieldTells
      /\ RunInOrder /\ PageAsRead /\ Collected /\ NothingSkipped
      /\ UNCHANGED <<jira, clock, cursor, budget>>
      /\ run.pc = "save"
  BY DEF IInv, SaveTask
<1> PICK s \in run.page :
      LET i == s.key
          known == task[i].latest = "jira" /\ task[i].saved = s.updated
      IN  /\ IF i \in run.keys THEN UNCHANGED <<task, prov, source, seen>>
             ELSE /\ task' = [task EXCEPT ![i] =
                       IF known THEN [@ EXCEPT !.visible = TRUE]
                       ELSE [known |-> TRUE, shown |-> Merged(i, s.value), visible |-> TRUE,
                             saved |-> s.updated, heard |-> s.value,
                             latest |-> IF @.saved = s.updated THEN @.latest ELSE "jira"]]
                  /\ prov' = [prov EXCEPT ![i] = Observed(i, s.value)]
                  /\ source' = IF ~Overridden(i) /\ s.value # None
                               THEN [source EXCEPT ![i] = [from |-> "jira", value |-> s.value]]
                               ELSE source
                  /\ seen' = [seen EXCEPT !.unsure =
                       IF Missed(i, s.value) THEN @ \union {i}
                       ELSE IF ~Overridden(i) /\ s.value # None /\ ~known THEN @ \ {i} ELSE @]
          /\ run' = [run EXCEPT
               !.page = @ \ {s}, !.keys = @ \union {i},
               !.max = IF i \notin run.keys /\ s.updated > @ THEN s.updated ELSE @]
  BY Zenon DEF SaveTask
<1> DEFINE i == s.key
           v == s.value
           known == task[i].latest = "jira" /\ task[i].saved = s.updated
<1>1. /\ i \in Issues /\ v \in Held /\ s.updated \in Nat /\ s.updated \in Times
      /\ s.updated <= jira[i].updated /\ jira[i].updated <= clock
      /\ \A r \in run.page : r.key = i => r = s
      /\ None \in Held
  BY <1>0, Types DEF PageAsRead, Timely, Held
<1>2. /\ run' \in Run
      /\ run'.pc = "save" /\ run'.start = run.start /\ run'.more = run.more
      /\ run'.scope = run.scope /\ run'.floor = run.floor /\ run'.among = run.among
      /\ run'.moved = run.moved
      /\ run'.page = run.page \ {s} /\ run'.keys = run.keys \union {i}
      /\ run'.max = (IF i \notin run.keys /\ s.updated > run.max THEN s.updated ELSE run.max)
  BY <1>0, <1>1 DEF TypeOK, Run
<1>3. /\ run'.max <= clock
      /\ \A j \in Issues : Fresh(j) => (Fresh(j))'
  <2>1. run'.max <= clock /\ (run'.max = run.max \/ run'.max = s.updated)
    BY <1>0, <1>1, <1>2, Types DEF Timely
  <2>2. Reading' = Reading
    BY <1>0, <1>2 DEF Reading
  <2> QED BY <1>0, <1>2, <2>1, <2>2 DEF Fresh
<1>4. RunInOrder'
  BY <1>0, <1>2 DEF RunInOrder, Floor, Cut
<1>5. Found' = Found /\ \A j \in Issues : (Place(j))' = Place(j)
  BY <1>0, <1>2, FoundSame
<1>6. Reading' = Reading
  BY <1>0, <1>2 DEF Reading
<1>7. CASE i \in run.keys
  <2>1. UNCHANGED <<task, prov, source, seen>> /\ run'.keys = run.keys
    BY <1>2, <1>7
  <2>2. TypeOK' /\ Timely' /\ NothingSkipped'
    BY <1>0, <1>2, <1>3, <2>1 DEF TypeOK, Timely, NothingSkipped
  <2>3. Sourced' /\ Remembered' /\ FieldTells'
    BY <1>0, <2>1, FieldsSame DEF fieldVars
  <2>4. PageAsRead'
    BY <1>0, <1>2, <2>1 DEF PageAsRead
  <2>5. \A j \in Issues : Got(j) => (Got(j))'
    BY <1>0, <2>1 DEF Got
  <2>6. Collected'
    <3> SUFFICES ASSUME ~run.moved PROVE Collected'
      BY <1>2 DEF Collected
    <3>1. \A r \in run'.page : r.updated = jira'[r.key].updated \/ (Fresh(r.key))'
      BY <1>0, <1>2, <1>3, Types DEF Collected
    <3>2. \A j \in run'.keys : (Got(j))' \/ (Fresh(j))'
      BY <1>0, <1>3, <2>1, <2>5, Types DEF Collected
    <3>3. ASSUME NEW j \in Found'
          PROVE  \/ j \in run'.keys \/ (Fresh(j))'
                 \/ \E r \in run'.page : r.key = j
                 \/ Reading' /\ (Place(j))' >= run'.start
      <4>1. j \in Found /\ j \in Issues
        BY <1>0, <1>5, Types
      <4>2. \/ j \in run.keys \/ Fresh(j)
            \/ \E r \in run.page : r.key = j
            \/ Reading /\ Place(j) >= run.start
        BY <1>0, <4>1 DEF Collected
      <4>3. (\E r \in run.page : r.key = j) => j \in run'.keys \/ \E r \in run'.page : r.key = j
        BY <1>2 DEF i
      <4> QED BY <1>2, <1>3, <1>5, <1>6, <4>1, <4>2, <4>3
    <3> QED BY <1>2, <3>1, <3>2, <3>3 DEF Collected
  <2> QED BY <1>4, <2>2, <2>3, <2>4, <2>6 DEF IInv
<1>8. CASE i \notin run.keys
  <2>1. /\ task' \in [Issues -> Task]
        /\ \A j \in Issues : j # i => task'[j] = task[j]
        /\ task'[i].known /\ task'[i].visible
        /\ task'[i].saved = s.updated /\ task'[i].heard = v
        /\ task'[i].shown = (IF known THEN task[i].shown ELSE Merged(i, v))
        /\ known => task[i].heard = v
    BY <1>0, <1>8, SaveFacts
  <2>2. Observes(i, v, known) /\ known \in BOOLEAN
    BY <1>8 DEF Observes
  <2> HIDE DEF known, v, i
  <2>3. /\ prov' \in [Issues -> Provenance] /\ source' \in [Issues -> Source]
        /\ seen' \in [lost: BOOLEAN, unsure: SUBSET Issues]
        /\ \A j \in Issues : j # i => prov'[j] = prov[j] /\ source'[j] = source[j]
        /\ Overridden(i) =>
             /\ prov'[i].from = "manual" /\ prov'[i].as = "override"
             /\ prov'[i].value = prov[i].value
             /\ prov'[i].conflict = (IF v # prov[i].value THEN v ELSE None)
             /\ source'[i] = source[i]
        /\ ~Overridden(i) /\ v # None =>
             /\ prov'[i] = [from |-> "jira", as |-> "fact", value |-> v, conflict |-> None]
             /\ source'[i] = [from |-> "jira", value |-> v]
        /\ ~Overridden(i) /\ v = None => prov'[i] = prov[i] /\ source'[i] = source[i]
        /\ prov'[i].from = "none" => prov[i].from = "none"
        /\ seen'.lost = seen.lost
        /\ \A j \in Issues : j # i => (j \in seen'.unsure <=> j \in seen.unsure)
        /\ i \notin seen'.unsure =>
             ~Missed(i, v) /\ (i \in seen.unsure => ~Overridden(i) /\ v # None /\ ~known)
    BY <1>0, <1>1, <2>2, ObservedFacts
  <2>4. TypeOK'
    BY <1>0, <1>1, <1>2, <2>1, <2>3 DEF TypeOK
  <2>5. Timely'
    BY <1>0, <1>1, <1>2, <1>3, <2>1 DEF Timely, PageAsRead, i, v
  <2>12. \A j \in Issues : SourcedAt(j) /\ RememberedAt(j) /\ Told(j)
    BY <1>0 DEF Sourced, Remembered, FieldTells
  <2>13. ASSUME NEW j \in Issues, j # i
         PROVE  (SourcedAt(j))' /\ (RememberedAt(j))' /\ (Told(j))'
    <3>1. SourcedAt(j) /\ RememberedAt(j) /\ Told(j)
      BY <2>12
    <3>2. /\ task'[j] = task[j] /\ prov'[j] = prov[j] /\ source'[j] = source[j]
          /\ (j \in seen'.unsure <=> j \in seen.unsure)
      BY <2>1, <2>3, <2>13
    <3>3. (Overridden(j))' = Overridden(j) /\ (Restored(j))' = Restored(j)
      BY <3>2 DEF Overridden, Restored
    <3> QED BY <3>1, <3>2, <3>3 DEF SourcedAt, RememberedAt, Told
  <2>14. SourcedAt(i) /\ RememberedAt(i) /\ Told(i)
    BY <1>1, <2>12
  <2>15. ASSUME Overridden(i)
         PROVE  (SourcedAt(i))' /\ (RememberedAt(i))' /\ (Told(i))'
    <3>1. (Overridden(i))'
      BY <2>3, <2>15 DEF Overridden
    <3>2. (SourcedAt(i))'
      BY <2>3, <2>14, <2>15, <3>1 DEF SourcedAt, Overridden
    <3>3. (RememberedAt(i))'
      BY <2>1, <2>3, <2>14, <2>15, <3>1 DEF SourcedAt, RememberedAt, Overridden, Restored, Missed
    <3>4. (Told(i))'
      BY <2>1, <2>3, <2>14, <2>15, <3>1 DEF SourcedAt, RememberedAt, Told, Merged
    <3> QED BY <3>2, <3>3, <3>4
  <2>16. ASSUME ~Overridden(i) /\ v # None
         PROVE  (SourcedAt(i))' /\ (RememberedAt(i))' /\ (Told(i))'
    <3>1. ~(Overridden(i))'
      BY <2>3, <2>16 DEF Overridden
    <3>2. (SourcedAt(i))' /\ (RememberedAt(i))'
      BY <2>3, <2>16, <3>1 DEF SourcedAt, RememberedAt
    <3>3. (Told(i))'
      BY <2>1, <2>3, <2>14, <2>16, <3>1 DEF SourcedAt, RememberedAt, Told, Merged
    <3> QED BY <3>2, <3>3
  <2>17. ASSUME ~Overridden(i) /\ v = None
         PROVE  (SourcedAt(i))' /\ (RememberedAt(i))' /\ (Told(i))'
    <3>1. ~(Overridden(i))' /\ (i \notin seen'.unsure => i \notin seen.unsure)
      BY <2>3, <2>17 DEF Overridden
    <3>2. (SourcedAt(i))' /\ (RememberedAt(i))'
      BY <2>1, <2>3, <2>14, <2>17, <3>1 DEF SourcedAt, RememberedAt
    <3>3. (Told(i))'
      BY <2>1, <2>3, <2>14, <2>17, <3>1 DEF SourcedAt, RememberedAt, Told, Merged
    <3> QED BY <3>2, <3>3
  <2>18. \A j \in Issues : (SourcedAt(j))' /\ (RememberedAt(j))' /\ (Told(j))'
    BY <2>13, <2>15, <2>16, <2>17
  <2>6. Sourced'
    BY <2>18 DEF Sourced
  <2>7. Remembered'
    BY <2>18 DEF Remembered
  <2>8. FieldTells'
    BY <2>18 DEF FieldTells
  <2>9. PageAsRead'
    BY <1>0, <1>1, <1>2, <2>1, Types DEF PageAsRead
  <2>10. Collected'
    <3> SUFFICES ASSUME ~run.moved PROVE Collected'
      BY <1>2 DEF Collected
    <3>1. \A r \in run'.page : r.updated = jira'[r.key].updated \/ (Fresh(r.key))'
      BY <1>0, <1>2, <1>3, Types DEF Collected
    <3>2. \A j \in run.keys : (Got(j))' \/ (Fresh(j))'
      BY <1>0, <1>3, <1>8, <2>1, Types DEF Collected, Got
    <3>3. (Got(i))' \/ (Fresh(i))'
      BY <1>0, <1>1, <1>3, <2>1 DEF Collected, Got, i
    <3>4. ASSUME NEW j \in Found'
          PROVE  \/ j \in run'.keys \/ (Fresh(j))'
                 \/ \E r \in run'.page : r.key = j
                 \/ Reading' /\ (Place(j))' >= run'.start
      <4>1. j \in Found /\ j \in Issues
        BY <1>0, <1>5, Types
      <4>2. \/ j \in run.keys \/ Fresh(j)
            \/ \E r \in run.page : r.key = j
            \/ Reading /\ Place(j) >= run.start
        BY <1>0, <4>1 DEF Collected
      <4>3. (\E r \in run.page : r.key = j) => j \in run'.keys \/ \E r \in run'.page : r.key = j
        BY <1>2 DEF i
      <4> QED BY <1>2, <1>3, <1>5, <1>6, <4>1, <4>2, <4>3
    <3>5. \A j \in run'.keys : (Got(j))' \/ (Fresh(j))'
      BY <1>2, <3>2, <3>3
    <3> QED BY <1>2, <3>1, <3>4, <3>5 DEF Collected
  <2>11. NothingSkipped'
    <3> SUFFICES ASSUME Behind = 0, ~seen.lost, NEW j \in Issues,
                        jira[j].mine, jira[j].updated + Overlap < cursor
                 PROVE  (Got(j))'
      BY <1>0, <2>3 DEF NothingSkipped, Got
    <3>1. Got(j)
      BY <1>0 DEF NothingSkipped, Got
    <3>2. CASE j # i
      BY <1>0, <2>1, <3>1, <3>2 DEF Got
    <3>3. CASE j = i
      BY <1>0, <1>1, <1>8, <2>1, <3>1, <3>3, Types, SMTT(30) DEF Got, PageAsRead, i
    <3> QED BY <3>2, <3>3
  <2> QED BY <1>4, <2>4, <2>5, <2>6, <2>7, <2>8, <2>9, <2>10, <2>11 DEF IInv
<1> QED BY <1>7, <1>8

\* A step that is about the field of one issue.
LEMMA FieldsOfOne ==
  ASSUME Sourced, Remembered, FieldTells, NEW i \in Issues,
         \A j \in Issues : j # i =>
           /\ task'[j] = task[j] /\ prov'[j] = prov[j] /\ source'[j] = source[j]
           /\ (j \in seen'.unsure <=> j \in seen.unsure),
         (SourcedAt(i))', (RememberedAt(i))', (Told(i))'
  PROVE  Sourced' /\ Remembered' /\ FieldTells'
<1>1. ASSUME NEW j \in Issues, j # i
      PROVE  (SourcedAt(j))' /\ (RememberedAt(j))' /\ (Told(j))'
  <2>1. SourcedAt(j) /\ RememberedAt(j) /\ Told(j)
    BY DEF Sourced, Remembered, FieldTells
  <2>2. (Overridden(j))' = Overridden(j) /\ (Restored(j))' = Restored(j)
    BY <1>1 DEF Overridden, Restored
  <2> QED BY <1>1, <2>1, <2>2 DEF SourcedAt, RememberedAt, Told
<1> QED BY <1>1 DEF Sourced, Remembered, FieldTells

\* A row whose field is shown anew.
Origins == {"none", "jira", "excel"}

LEMMA ShownFacts ==
  ASSUME TypeOK, NEW i \in Issues, NEW v \in Held, NEW latest \in Origins,
         task' = [task EXCEPT ![i].latest = latest, ![i].shown = v]
  PROVE  /\ task' \in [Issues -> Task] /\ task'[i].shown = v /\ task'[i].latest = latest
         /\ \A j \in Issues : /\ task'[j].known = task[j].known /\ task'[j].visible = task[j].visible
                              /\ task'[j].saved = task[j].saved /\ task'[j].heard = task[j].heard
                              /\ j # i => task'[j] = task[j]
<1> DEFINE row == [task[i] EXCEPT !.latest = latest, !.shown = v]
<1>1. /\ row \in Task /\ row.shown = v /\ row.known = task[i].known
      /\ row.visible = task[i].visible /\ row.saved = task[i].saved
      /\ row.heard = task[i].heard /\ row.latest = latest
  BY Types DEF Task, Origins
<1>2. task' = [task EXCEPT ![i] = row] /\ task \in [Issues -> Task]
  BY DEF TypeOK
<1> HIDE DEF row
<1>3. task' \in [Issues -> Task] /\ task'[i] = row /\ \A j \in Issues : j # i => task'[j] = task[j]
  BY <1>1, <1>2, ZenonT(60)
<1> QED BY <1>1, <1>3

LEMMA SetOverrideStep ==
  ASSUME IInv, NEW i \in Edited, SetOverride(i)
  PROVE  IInv'
<1>0. /\ TypeOK /\ Timely /\ Sourced /\ Remembered /\ FieldTells
      /\ RunInOrder /\ PageAsRead /\ Collected /\ NothingSkipped
      /\ UNCHANGED <<jira, clock, source, cursor, run>>
      /\ Exists(i) /\ budget > 0 /\ budget' = budget - 1 /\ i \in Issues
  BY DEF IInv, SetOverride, Edits
<1> PICK v \in Held :
      /\ task' = [task EXCEPT ![i].shown = v]
      /\ prov' = [prov EXCEPT ![i] =
           [from |-> "manual", as |-> "override", value |-> v,
            conflict |-> IF @.from = "jira" /\ @.value # v THEN @.value ELSE None]]
      /\ seen' = [seen EXCEPT !.unsure = IF Forgets(i) THEN @ \union {i} ELSE @]
  BY <1>0 DEF SetOverride
<1>1. /\ task' \in [Issues -> Task] /\ task'[i].shown = v /\ task'[i].latest = task[i].latest
      /\ \A j \in Issues : /\ task'[j].known = task[j].known /\ task'[j].visible = task[j].visible
                           /\ task'[j].saved = task[j].saved /\ task'[j].heard = task[j].heard
                           /\ j # i => task'[j] = task[j]
  <2> DEFINE l == task[i].latest
  <2>1. task[i] \in Task /\ l \in Origins
    BY <1>0, Types DEF Task, Origins
  <2>2. task' = [task EXCEPT ![i].latest = l, ![i].shown = v]
    BY <1>0, <2>1 DEF TypeOK, Task
  <2>3. l = task[i].latest
    OBVIOUS
  <2> HIDE DEF l
  <2> QED BY <1>0, <2>1, <2>2, <2>3, ShownFacts, ZenonT(60)
<1>2. /\ prov' \in [Issues -> Provenance]
      /\ prov'[i].from = "manual" /\ prov'[i].as = "override" /\ prov'[i].value = v
      /\ prov'[i].conflict = (IF prov[i].from = "jira" /\ prov[i].value # v THEN prov[i].value ELSE None)
      /\ \A j \in Issues : j # i => prov'[j] = prov[j]
  <2> DEFINE row == [from |-> "manual", as |-> "override", value |-> v,
                     conflict |-> IF prov[i].from = "jira" /\ prov[i].value # v
                                  THEN prov[i].value ELSE None]
  <2>1. row \in Provenance
    BY <1>0, Types DEF Provenance, Held
  <2>2. prov' = [prov EXCEPT ![i] = row] /\ prov \in [Issues -> Provenance]
    BY <1>0 DEF TypeOK
  <2>3. prov' \in [Issues -> Provenance] /\ prov'[i] = row /\ \A j \in Issues : j # i => prov'[j] = prov[j]
    <3> HIDE DEF row
    <3> QED BY <1>0, <2>1, <2>2
  <2> QED BY <2>3
<1>3. /\ seen' \in [lost: BOOLEAN, unsure: SUBSET Issues] /\ seen'.lost = seen.lost
      /\ i \notin seen'.unsure => i \notin seen.unsure /\ ~Forgets(i)
      /\ \A j \in Issues : j # i => (j \in seen'.unsure <=> j \in seen.unsure)
  BY <1>0 DEF TypeOK
<1>4. TypeOK'
  BY <1>0, <1>1, <1>2, <1>3 DEF TypeOK, Exists
<1>5. Timely' /\ RunInOrder' /\ PageAsRead' /\ Collected' /\ NothingSkipped'
  <2>1. \A j \in Issues : task'[j].latest # "none" => task'[j].known
    BY <1>0, <1>1 DEF Timely
  <2> QED BY <1>0, <1>1, <1>3, <2>1, RunSame
<1>6. SourcedAt(i) /\ RememberedAt(i) /\ Told(i) /\ prov[i] \in Provenance
  BY <1>0, Types DEF Sourced, Remembered, FieldTells
<1>7. (Overridden(i))'
  BY <1>2 DEF Overridden
<1>8. (SourcedAt(i))'
  BY <1>0, <1>1, <1>2, <1>6, <1>7 DEF SourcedAt
<1>9. (RememberedAt(i))'
  BY <1>0, <1>1, <1>2, <1>3, <1>6, <1>7
     DEF SourcedAt, RememberedAt, Restored, Forgets, NoSource, Provenance
<1>10. (Told(i))'
  BY <1>1, <1>2, <1>7 DEF Told
<1>11. Sourced' /\ Remembered' /\ FieldTells'
  BY <1>0, <1>1, <1>2, <1>3, <1>8, <1>9, <1>10, FieldsOfOne
<1> QED BY <1>4, <1>5, <1>11 DEF IInv

LEMMA EndOverrideStep ==
  ASSUME IInv, NEW i \in Edited, EndOverride(i)
  PROVE  IInv'
<1>0. /\ TypeOK /\ Timely /\ Sourced /\ Remembered /\ FieldTells
      /\ RunInOrder /\ PageAsRead /\ Collected /\ NothingSkipped
      /\ UNCHANGED <<jira, clock, cursor, run, budget>>
      /\ Overridden(i) /\ i \in Issues
      /\ task' = [task EXCEPT ![i].shown = Restored(i)]
      /\ prov' = [prov EXCEPT ![i] =
           [from |-> IF source[i].from = "none" THEN "manual" ELSE source[i].from,
            as |-> IF source[i].from = "none" THEN "superseded" ELSE "fact",
            value |-> Restored(i), conflict |-> None]]
      /\ source' = [source EXCEPT ![i].value = IF @ = None /\ source[i].from = "none" THEN None
                                               ELSE Restored(i)]
      /\ seen' = [seen EXCEPT !.unsure = IF source[i].from = "excel" THEN @ \union {i} ELSE @]
  BY DEF IInv, EndOverride
<1>1. /\ SourcedAt(i) /\ RememberedAt(i) /\ Told(i)
      /\ prov[i] \in Provenance /\ source[i] \in Source /\ task[i] \in Task
      /\ Restored(i) \in Held
  BY <1>0, Types DEF Sourced, Remembered, FieldTells, Restored, Provenance, Source
<1>2. /\ task' \in [Issues -> Task] /\ task'[i].shown = Restored(i)
      /\ task'[i].latest = task[i].latest
      /\ \A j \in Issues : /\ task'[j].known = task[j].known /\ task'[j].visible = task[j].visible
                           /\ task'[j].saved = task[j].saved /\ task'[j].heard = task[j].heard
                           /\ j # i => task'[j] = task[j]
  <2> DEFINE l == task[i].latest
         w == Restored(i)
  <2>1. task' = [task EXCEPT ![i].latest = l, ![i].shown = w] /\ w \in Held
    BY <1>0, <1>1 DEF TypeOK, Task
  <2>2. l \in Origins /\ TypeOK /\ i \in Issues
    BY <1>0, <1>1 DEF Task, Origins
  <2>3. w = Restored(i) /\ l = task[i].latest
    OBVIOUS
  <2> HIDE DEF l, w
  <2>4. /\ task' \in [Issues -> Task] /\ task'[i].shown = w /\ task'[i].latest = l
        /\ \A j \in Issues : /\ task'[j].known = task[j].known /\ task'[j].visible = task[j].visible
                             /\ task'[j].saved = task[j].saved /\ task'[j].heard = task[j].heard
                             /\ j # i => task'[j] = task[j]
    BY <2>1, <2>2, ShownFacts
  <2> QED BY <2>3, <2>4
<1>3. /\ prov' \in [Issues -> Provenance]
      /\ prov'[i].from = (IF source[i].from = "none" THEN "manual" ELSE source[i].from)
      /\ prov'[i].as = (IF source[i].from = "none" THEN "superseded" ELSE "fact")
      /\ prov'[i].value = Restored(i) /\ prov'[i].conflict = None
      /\ \A j \in Issues : j # i => prov'[j] = prov[j]
  <2> DEFINE row == [from |-> IF source[i].from = "none" THEN "manual" ELSE source[i].from,
                     as |-> IF source[i].from = "none" THEN "superseded" ELSE "fact",
                     value |-> Restored(i), conflict |-> None]
  <2>1. row \in Provenance
    BY <1>1 DEF Provenance, Held, Source
  <2>2. prov' = [prov EXCEPT ![i] = row] /\ prov \in [Issues -> Provenance]
    BY <1>0 DEF TypeOK
  <2>3. prov' \in [Issues -> Provenance] /\ prov'[i] = row /\ \A j \in Issues : j # i => prov'[j] = prov[j]
    <3> HIDE DEF row
    <3> QED BY <1>0, <2>1, <2>2
  <2> QED BY <2>3
<1>4. /\ source' \in [Issues -> Source] /\ source'[i].from = source[i].from
      /\ source'[i].value = (IF source[i].from = "none" THEN None ELSE Restored(i))
      /\ source'[i] = [from |-> source'[i].from, value |-> source'[i].value]
      /\ \A j \in Issues : j # i => source'[j] = source[j]
  <2> DEFINE row == [from |-> source[i].from,
                     value |-> IF source[i].from = "none" THEN None ELSE Restored(i)]
  <2>1. row \in Source
    BY <1>1 DEF Source, Held
  <2>2. source' = [source EXCEPT ![i] = row] /\ source \in [Issues -> Source]
    <3>1. (source[i].value = None /\ source[i].from = "none") <=> source[i].from = "none"
      BY <1>1 DEF SourcedAt
    <3>2. row = [source[i] EXCEPT !.value = IF source[i].value = None /\ source[i].from = "none"
                                            THEN None ELSE Restored(i)]
      BY <1>1, <3>1 DEF Source
    <3> QED BY <1>0, <3>2 DEF TypeOK
  <2>3. source' \in [Issues -> Source] /\ source'[i] = row /\ \A j \in Issues : j # i => source'[j] = source[j]
    <3> HIDE DEF row
    <3> QED BY <1>0, <2>1, <2>2
  <2> QED BY <2>3
<1>5. /\ seen' \in [lost: BOOLEAN, unsure: SUBSET Issues] /\ seen'.lost = seen.lost
      /\ i \notin seen'.unsure => i \notin seen.unsure /\ source[i].from # "excel"
      /\ \A j \in Issues : j # i => (j \in seen'.unsure <=> j \in seen.unsure)
  BY <1>0 DEF TypeOK
<1>6. prov[i].from # "none"
  BY <1>0 DEF Overridden
<1>7. TypeOK'
  BY <1>0, <1>2, <1>3, <1>4, <1>5, <1>6 DEF TypeOK
<1>8. Timely' /\ RunInOrder' /\ PageAsRead' /\ Collected' /\ NothingSkipped'
  <2>1. \A j \in Issues : task'[j].latest # "none" => task'[j].known
    BY <1>0, <1>2 DEF Timely
  <2> QED BY <1>0, <1>2, <1>5, <2>1, RunSame
<1>9. ~(Overridden(i))'
  BY <1>1, <1>3 DEF Overridden, Source
<1>10. (SourcedAt(i))'
  BY <1>1, <1>3, <1>4, <1>9 DEF SourcedAt, Source
<1>11. (RememberedAt(i))'
  BY <1>1, <1>3, <1>4, <1>5, <1>9 DEF RememberedAt, Source
<1>12. (Told(i))'
  BY <1>0, <1>1, <1>2, <1>3, <1>5, <1>9 DEF Told, RememberedAt, Source
<1>13. Sourced' /\ Remembered' /\ FieldTells'
  BY <1>0, <1>2, <1>3, <1>4, <1>5, <1>10, <1>11, <1>12, FieldsOfOne
<1> QED BY <1>7, <1>8, <1>13 DEF IInv

LEMMA CommitSupplementStep ==
  ASSUME IInv, NEW i \in Edited, CommitSupplement(i)
  PROVE  IInv'
<1> DEFINE owned == task[i].shown # None /\ prov[i].from # "excel"
<1>0. /\ TypeOK /\ Timely /\ Sourced /\ Remembered /\ FieldTells
      /\ RunInOrder /\ PageAsRead /\ Collected /\ NothingSkipped
      /\ UNCHANGED <<jira, clock, cursor, run>>
      /\ task[i].known /\ budget > 0 /\ budget' = budget - 1 /\ i \in Issues
  BY DEF IInv, CommitSupplement, Exists, Edits
<1> PICK v \in Held :
      /\ task' = [task EXCEPT ![i].latest = "excel",
                              ![i].shown = IF ~owned /\ v # None THEN v ELSE @]
      /\ \/ /\ owned
            /\ prov' = [prov EXCEPT ![i] = [from |-> "jira", as |-> "fact",
                                            value |-> task[i].shown, conflict |-> None]]
            /\ source' = [source EXCEPT ![i] = [from |-> "jira", value |-> task[i].shown]]
         \/ /\ ~owned /\ v # None
            /\ prov' = [prov EXCEPT ![i] = [from |-> "excel", as |-> "supplement",
                                            value |-> v, conflict |-> None]]
            /\ source' = [source EXCEPT ![i] = [from |-> "excel", value |-> v]]
         \/ ~owned /\ v = None /\ UNCHANGED fieldVars
      /\ seen' = [seen EXCEPT !.unsure =
           IF Overridden(i) /\ prov' # prov THEN @ \union {i} ELSE @]
  BY Zenon DEF CommitSupplement
<1>1. /\ SourcedAt(i) /\ RememberedAt(i) /\ Told(i)
      /\ prov[i] \in Provenance /\ source[i] \in Source /\ task[i] \in Task
      /\ None \in Held /\ prov \in [Issues -> Provenance] /\ source \in [Issues -> Source]
  BY <1>0, Types DEF Sourced, Remembered, FieldTells, Held, TypeOK
<1>2. /\ task' \in [Issues -> Task]
      /\ task'[i].shown = (IF ~owned /\ v # None THEN v ELSE task[i].shown)
      /\ task'[i].latest = "excel"
      /\ \A j \in Issues : /\ task'[j].known = task[j].known /\ task'[j].visible = task[j].visible
                           /\ task'[j].saved = task[j].saved /\ task'[j].heard = task[j].heard
                           /\ j # i => task'[j] = task[j]
  <2> DEFINE w == IF ~owned /\ v # None THEN v ELSE task[i].shown
  <2>1. task' = [task EXCEPT ![i].latest = "excel", ![i].shown = w] /\ w \in Held
    BY <1>0, <1>1 DEF TypeOK, Task
  <2> HIDE DEF w
  <2>2. /\ task' \in [Issues -> Task] /\ task'[i].shown = w /\ task'[i].latest = "excel"
        /\ \A j \in Issues : /\ task'[j].known = task[j].known /\ task'[j].visible = task[j].visible
                             /\ task'[j].saved = task[j].saved /\ task'[j].heard = task[j].heard
                             /\ j # i => task'[j] = task[j]
    <3>1. "excel" \in Origins
      BY DEF Origins
    <3> QED BY <1>0, <2>1, <3>1, ShownFacts
  <2> QED BY <2>2 DEF w
<1>3. \/ /\ owned
         /\ prov'[i] = [from |-> "jira", as |-> "fact", value |-> task[i].shown, conflict |-> None]
         /\ source'[i] = [from |-> "jira", value |-> task[i].shown]
      \/ /\ ~owned /\ v # None
         /\ prov'[i] = [from |-> "excel", as |-> "supplement", value |-> v, conflict |-> None]
         /\ source'[i] = [from |-> "excel", value |-> v]
      \/ ~owned /\ v = None /\ prov'[i] = prov[i] /\ source'[i] = source[i] /\ prov' = prov
  BY <1>0, <1>1 DEF fieldVars
<1>4. /\ prov' \in [Issues -> Provenance] /\ source' \in [Issues -> Source]
      /\ \A j \in Issues : j # i => prov'[j] = prov[j] /\ source'[j] = source[j]
  <2>1. /\ [from |-> "jira", as |-> "fact", value |-> task[i].shown, conflict |-> None] \in Provenance
        /\ [from |-> "jira", value |-> task[i].shown] \in Source
        /\ [from |-> "excel", as |-> "supplement", value |-> v, conflict |-> None] \in Provenance
        /\ [from |-> "excel", value |-> v] \in Source
    BY <1>1 DEF Provenance, Source, Task
  <2> QED BY <1>0, <1>1, <2>1 DEF fieldVars
<1>5. /\ seen' \in [lost: BOOLEAN, unsure: SUBSET Issues] /\ seen'.lost = seen.lost
      /\ i \notin seen'.unsure => i \notin seen.unsure /\ (~Overridden(i) \/ prov' = prov)
      /\ \A j \in Issues : j # i => (j \in seen'.unsure <=> j \in seen.unsure)
  BY <1>0 DEF TypeOK
<1>6. TypeOK'
  BY <1>0, <1>2, <1>4, <1>5 DEF TypeOK
<1>7. Timely' /\ RunInOrder' /\ PageAsRead' /\ Collected' /\ NothingSkipped'
  <2>1. \A j \in Issues : task'[j].latest # "none" => task'[j].known
    BY <1>0, <1>2 DEF Timely
  <2> QED BY <1>0, <1>2, <1>5, <2>1, RunSame
<1>8. (SourcedAt(i))' /\ (RememberedAt(i))' /\ (Told(i))'
  <2>1. CASE owned
    <3>1. /\ prov'[i] = [from |-> "jira", as |-> "fact", value |-> task[i].shown, conflict |-> None]
          /\ source'[i] = [from |-> "jira", value |-> task[i].shown]
          /\ ~(Overridden(i))'
      BY <1>3, <2>1 DEF Overridden
    <3>2. prov' # prov \/ ~Overridden(i)
      BY <3>1 DEF Overridden
    <3>3. (SourcedAt(i))' /\ (RememberedAt(i))'
      BY <3>1 DEF SourcedAt, RememberedAt
    <3>4. (Told(i))'
      BY <1>0, <1>1, <1>2, <1>5, <2>1, <3>1, <3>2 DEF Told
    <3> QED BY <3>3, <3>4
  <2>2. CASE ~owned /\ v # None
    <3>1. /\ prov'[i] = [from |-> "excel", as |-> "supplement", value |-> v, conflict |-> None]
          /\ source'[i] = [from |-> "excel", value |-> v]
          /\ ~(Overridden(i))'
      BY <1>3, <2>2 DEF Overridden
    <3>2. prov' # prov \/ ~Overridden(i)
      BY <3>1 DEF Overridden
    <3>3. i \notin seen'.unsure => task[i].heard = None
      BY <1>1, <1>5, <2>2, <3>2 DEF Told, RememberedAt
    <3>4. (SourcedAt(i))' /\ (RememberedAt(i))'
      BY <1>0, <1>2, <3>1, <3>3 DEF SourcedAt, RememberedAt
    <3>5. (Told(i))'
      BY <1>0, <1>2, <2>2, <3>1, <3>3 DEF Told
    <3> QED BY <3>4, <3>5
  <2>3. CASE ~owned /\ v = None
    <3>1. prov'[i] = prov[i] /\ source'[i] = source[i] /\ task'[i].shown = task[i].shown
      BY <1>2, <1>3, <2>3
    <3>2. (Overridden(i))' = Overridden(i) /\ (Restored(i))' = Restored(i)
      BY <3>1 DEF Overridden, Restored
    <3> QED BY <1>0, <1>1, <1>2, <1>5, <3>1, <3>2 DEF SourcedAt, RememberedAt, Told
  <2> QED BY <2>1, <2>2, <2>3
<1>9. Sourced' /\ Remembered' /\ FieldTells'
  BY <1>0, <1>2, <1>4, <1>5, <1>8, FieldsOfOne
<1> QED BY <1>6, <1>7, <1>9 DEF IInv

----------------------------------------------------------------------------
(* The theorems *)

LEMMA Stutter ==
  ASSUME IInv, UNCHANGED vars
  PROVE  IInv'
<1>0. /\ TypeOK /\ Timely /\ Sourced /\ Remembered /\ FieldTells
      /\ RunInOrder /\ PageAsRead /\ Collected /\ NothingSkipped
      /\ UNCHANGED <<jira, clock, task, prov, source, cursor, run, seen, budget>>
  BY DEF IInv, vars, fieldVars
<1>1. TypeOK'
  BY <1>0 DEF TypeOK
<1>2. Sourced' /\ Remembered' /\ FieldTells'
  BY <1>0, FieldsSame DEF fieldVars
<1>3. Timely' /\ RunInOrder' /\ PageAsRead' /\ Collected' /\ NothingSkipped'
  <2>1. \A j \in Issues : task'[j].latest # "none" => task'[j].known
    BY <1>0 DEF Timely
  <2> QED BY <1>0, <2>1, RunSame
<1> QED BY <1>1, <1>2, <1>3 DEF IInv

LEMMA Inductive == IInv /\ [Next]_vars => IInv'
<1> SUFFICES ASSUME IInv, [Next]_vars PROVE IInv'
  OBVIOUS
<1>1. CASE UNCHANGED vars
  BY <1>1, Stutter
<1>2. CASE Change
  BY <1>2, ChangeStep
<1>3. CASE Sync
  BY <1>3, BeginStep, ReadPageStep, SaveTaskStep, PageDoneStep, HideStep, AdvanceStep, FailStep
     DEF Sync
<1>4. CASE User
  BY <1>4, SetOverrideStep, EndOverrideStep, CommitSupplementStep DEF User
<1> QED BY <1>1, <1>2, <1>3, <1>4 DEF Next

\* The invariant that carries the others.
THEOREM TasksInvariant == Spec => []IInv
BY Initially, Inductive, PTL DEF Spec

\* Every reachable state has the types that Tasks declares.
THEOREM TypeCorrect == Spec => []TypeOK
<1>1. IInv => TypeOK
  BY DEF IInv
<1> QED BY <1>1, TasksInvariant, PTL

\* What a task shows can be explained by the override, by Jira or by the sheet,
\* for any number of issues, edits and changes (jira-sync.service.ts:353,
\* task-override.service.ts:259).
THEOREM FieldsTell == Spec => []FieldTells
<1>1. IInv => FieldTells
  BY DEF IInv
<1> QED BY <1>1, TasksInvariant, PTL

\* Behind the watermark nothing is missing, for any number of issues and pages, any
\* size of a page and any overlap, unless an issue has changed between two pages
\* (jira-sync.service.ts:81, :215).
THEOREM NothingIsSkipped == Spec => []NothingSkipped
<1>1. IInv => NothingSkipped
  BY DEF IInv
<1> QED BY <1>1, TasksInvariant, PTL

-----------------------------------------------------------------------------
(* Task sheets (ExcelImport), for any files, windows, Jira tasks and forms   *)
(* and any bound.  Its variables have names of their own here.               *)

CONSTANTS Files, Windows, Jira, Bad, Uncached, Books, KnownJira, Forms, MaxEvents

VARIABLES book, file, synced, made, upload, page, call, left

Sheet == INSTANCE ExcelImport WITH jira <- synced, budget <- left, Edits <- Forms

\* Nothing in diags keeps a row from being committed.
Harmless(diags) == \A d \in diags : d.sev \notin {"blocking", "conflict"}

\* Fewer diagnostics keep fewer rows back.
LEMMA FewerHarmless ==
  ASSUME NEW T, NEW S \in SUBSET T, Harmless(T)
  PROVE  Harmless(S)
BY DEF Harmless

\* Where nothing keeps a row back, what would have done so is not the case.
LEMMA NoHarm ==
  ASSUME NEW T, Harmless(T), NEW p \in BOOLEAN, NEW sev \in {"blocking", "conflict"},
         NEW code, NEW cell, Sheet!When(p, Sheet!D(sev, code, cell)) \subseteq T
  PROVE  ~p
BY DEF Harmless, Sheet!When, Sheet!D

\* A cell is read as what it holds or, when it cannot be read, as nothing.
LEMMA ReadIs ==
  ASSUME Sheet!ExcelAssumption, NEW v
  PROVE  /\ v \in Sheet!Dated \union Sheet!Unread => Sheet!Read(v) \in Sheet!Dated
         /\ v \in {0, 8, None} \union Sheet!Unread => Sheet!Read(v) \in {0, 8, None}
BY DEF Sheet!Read, Sheet!Dated

\* A parent without a blocking finding is the key of an issue, its own or that of a row above.
LEMMA ParentIs ==
  ASSUME Sheet!ExcelAssumption, NEW rows, NEW i, rows[i] \in Sheet!Cells
  PROVE  /\ Sheet!ParentOf(rows, i) \in Sheet!Keys \union {None}
         /\ Harmless(Sheet!ParentDiagnostics(rows, i)) => Sheet!ParentOf(rows, i) \in Sheet!Keys
<1>1. rows[i].parent \in Sheet!Keys \union {"bad", "half", "none"}
  BY DEF Sheet!Cells
<1>2. Sheet!Inherited(rows, i) \in Sheet!Keys \union {None}
  BY DEF Sheet!Inherited
<1>3. Sheet!ParentOf(rows, i) \in Sheet!Keys \union {None}
  BY <1>1, <1>2 DEF Sheet!ParentOf, Sheet!Keys, Sheet!Parents
<1>4. ASSUME Harmless(Sheet!ParentDiagnostics(rows, i))
      PROVE Sheet!ParentOf(rows, i) \in Sheet!Keys
  <2>1. /\ Sheet!When(rows[i].parent = "bad", Sheet!D("blocking", "PARENT_KEY_INVALID", None))
             \subseteq Sheet!ParentDiagnostics(rows, i)
        /\ Sheet!When(rows[i].parent = "half", Sheet!D("conflict", "PARENT_HALF_EMPTY", None))
             \subseteq Sheet!ParentDiagnostics(rows, i)
        /\ Sheet!When(rows[i].parent = "none" /\ Sheet!Inherited(rows, i) = None,
                Sheet!D("blocking", "PARENT_MISSING", None)) \subseteq Sheet!ParentDiagnostics(rows, i)
    BY DEF Sheet!ParentDiagnostics
  <2>2. /\ rows[i].parent # "bad" /\ rows[i].parent # "half"
        /\ ~(rows[i].parent = "none" /\ Sheet!Inherited(rows, i) = None)
    BY <1>4, <2>1, NoHarm
  <2> QED BY <1>1, <1>2, <2>2 DEF Sheet!ParentOf, Sheet!Keys, Sheet!Parents
<1> QED BY <1>3, <1>4

\* A task without a blocking finding has a title that is not too long.
LEMMA TitleIs ==
  ASSUME Sheet!ExcelAssumption, NEW c \in Sheet!Cells, Harmless(Sheet!TitleDiagnostics(c)),
         Sheet!Kind(c) = "task"
  PROVE  c.title \in {"t", "u"}
<1>1. c.title \in {"t", "u", "long", None}
  BY DEF Sheet!Cells
<1>2. /\ Sheet!When(c.title = None /\ c.who # None, Sheet!D("blocking", "TITLE_MISSING", None))
           \subseteq Sheet!TitleDiagnostics(c)
      /\ Sheet!When(c.title = "long", Sheet!D("blocking", "TITLE_TOO_LONG", None))
          \subseteq Sheet!TitleDiagnostics(c)
  BY DEF Sheet!TitleDiagnostics
<1>3. ~(c.title = None /\ c.who # None) /\ c.title # "long"
  BY <1>2, NoHarm
<1> QED BY <1>1, <1>3 DEF Sheet!Kind

\* Dates without a blocking finding are in order.
LEMMA DatesAre ==
  ASSUME Sheet!ExcelAssumption, NEW c \in Sheet!Cells, NEW st,
         Harmless(Sheet!DateDiagnostics(c, st))
  PROVE  Sheet!Read(c.start) # None
  /\ Sheet!Read(c.due) # None => Sheet!Read(c.start) <= Sheet!Read(c.due)
<1>1. Sheet!Read(c.start) \in Sheet!Dated /\ Sheet!Read(c.due) \in Sheet!Dated
  BY ReadIs DEF Sheet!Cells
<1>2. Sheet!When(Sheet!Read(c.start) # None /\ Sheet!Read(c.due) # None
             /\ Sheet!Read(c.due) < Sheet!Read(c.start),
           Sheet!D("blocking", "DATE_RANGE_INVALID", None)) \subseteq Sheet!DateDiagnostics(c, st)
  BY DEF Sheet!DateDiagnostics
<1>3. ~(/\ Sheet!Read(c.start) # None /\ Sheet!Read(c.due) # None
        /\ Sheet!Read(c.due) < Sheet!Read(c.start))
  BY <1>2, NoHarm
<1> QED BY <1>1, <1>3 DEF Sheet!Dated, Sheet!Dates

\* A row that the parser leaves clean is sound (excel-workbook-parser.service.ts, parseSheet).
LEMMA Parsed ==
  ASSUME Sheet!ExcelAssumption, NEW s \in Sheet!Sheet, NEW i \in DOMAIN s.rows
  PROVE  LET P == Sheet!Prepared(s, i) IN Sheet!Row(P) /\ (Sheet!Clean(P) => Sheet!Sound(P))
<1> DEFINE P == Sheet!Prepared(s, i)
           rows == s.rows  c == rows[i]
           norm == [parent |-> Sheet!ParentOf(rows, i), title |-> c.title, who |-> c.who,
                    start |-> Sheet!Read(c.start), due |-> Sheet!Read(c.due),
                    hours |-> Sheet!Read(c.hours), mine |-> c.who \in Sheet!Aliases(FALSE)]
<1>1. c \in Sheet!Cells
  BY DEF Sheet!Sheet
<1>2. norm \in Sheet!Normal
  BY <1>1, ReadIs, ParentIs DEF Sheet!Normal, Sheet!Form, Sheet!Cells
<1>3. P.norm = norm /\ P.kind = Sheet!Kind(c) /\ P.version = 1
  BY DEF Sheet!Prepared
<1>4. Sheet!Row(P)
  BY <1>2, <1>3, ZenonT(60) DEF Sheet!Row, Sheet!Prepared, Sheet!Kind
<1>5. ASSUME Sheet!Clean(P) PROVE Sheet!Sound(P)
  <2>1. Harmless(P.diags) /\ P.action # "skip"
    BY <1>5 DEF Sheet!Clean, Harmless
  <2>0. /\ Sheet!ParentDiagnostics(rows, i) \subseteq P.diags /\ Sheet!TitleDiagnostics(c)
            \subseteq P.diags
        /\ Sheet!DateDiagnostics(c, s.standard) \subseteq P.diags
    BY DEF Sheet!Prepared
  <2>2. /\ Harmless(Sheet!ParentDiagnostics(rows, i)) /\ Harmless(Sheet!TitleDiagnostics(c))
        /\ Harmless(Sheet!DateDiagnostics(c, s.standard))
    <3> HIDE DEF P
    <3> QED BY <2>0, <2>1, FewerHarmless
  <2>3. P.kind = "task"
    BY <1>3, <2>1 DEF Sheet!Prepared, Harmless, Sheet!Kind
  <2>4. P.action = "link_jira" => P.matched \in P.candidates
    BY DEF Sheet!Prepared
  <2> HIDE DEF P
  <2>5. /\ norm.parent \in Sheet!Keys /\ norm.title \in {"t", "u"}
           /\ norm.start \in Sheet!Dated /\ norm.due \in Sheet!Dated
        /\ norm.start # None /\ norm.due # None => norm.start <= norm.due
    BY <1>1, <1>3, <2>2, <2>3, ReadIs, ParentIs, TitleIs, DatesAre DEF Sheet!Cells
  <2> QED BY <1>3, <2>3, <2>4, <2>5 DEF Sheet!Sound, Sheet!Keys
<1> QED BY <1>4, <1>5

\* A form typed into a row leaves every field in its type.
LEMMA Typed ==
  ASSUME Sheet!ExcelAssumption, NEW m \in Sheet!Normal, NEW e \in Forms, NEW b \in BOOLEAN
  PROVE  [[x \in DOMAIN m |-> IF x \in DOMAIN e THEN e[x] ELSE m[x]] EXCEPT !.mine = b] \in Sheet!Normal
<1> DEFINE n == [[x \in DOMAIN m |-> IF x \in DOMAIN e THEN e[x] ELSE m[x]] EXCEPT !.mine = b]
<1>1. DOMAIN m = {"parent", "title", "who", "start", "due", "hours", "mine"}
      /\ DOMAIN Sheet!Form = {"parent", "title", "who", "start", "due", "hours"}
  BY DEF Sheet!Normal, Sheet!Form
<1>2. \A x \in DOMAIN Sheet!Form : m[x] \in Sheet!Form[x]
  BY <1>1 DEF Sheet!Normal
<1>3. \A x \in DOMAIN e : x \in DOMAIN Sheet!Form /\ e[x] \in Sheet!Form[x]
  BY DEF Sheet!ExcelAssumption
<1>4. \A x \in DOMAIN Sheet!Form : n[x] \in Sheet!Form[x]
  BY <1>1, <1>2, <1>3
<1>5. n.mine = b /\ n = [x \in DOMAIN m |-> n[x]]
  BY <1>1
<1> HIDE DEF n
<1>6. n = [parent |-> n.parent, title |-> n.title, who |-> n.who, start |-> n.start, due |-> n.due,
           hours |-> n.hours, mine |-> n.mine]
  BY <1>1, <1>5
<1>7. n \in Sheet!Normal
  BY <1>1, <1>4, <1>5, <1>6 DEF Sheet!Normal
<1> QED BY <1>7 DEF n

\* A row that a resolution leaves clean is sound, whatever was typed and touched
\* (excel-import-commit.service.ts, revalidate).
LEMMA Corrected ==
  ASSUME Sheet!ExcelAssumption, NEW row, Sheet!Row(row),
         NEW action \in {"create_excel", "link_jira", "skip"},
         NEW matched, NEW e \in Forms, NEW touched, row.kind = "container" => action = "skip",
         action = "link_jira" => matched \in row.candidates
  PROVE  LET R == Sheet!Resolved(row, action, matched, e, touched) IN Sheet!Row(R)
  /\ (Sheet!Clean(R) => Sheet!Sound(R))
<1> DEFINE R == Sheet!Resolved(row, action, matched, e, touched)
           b == (IF "who" \in DOMAIN e THEN e.who ELSE row.norm.who) \in Sheet!Aliases(TRUE)
           n == [[x \in DOMAIN row.norm |-> IF x \in DOMAIN e THEN e[x] ELSE row.norm[x]]
                   EXCEPT !.mine = b]
           ds == Sheet!Revalidated(row, n, action, touched)
                    \union (IF action = "skip" THEN {} ELSE Sheet!NotMine(n))
           to == IF action = "link_jira" THEN matched ELSE None
<1>1. n \in Sheet!Normal
  <2>1. b \in BOOLEAN /\ row.norm \in Sheet!Normal
    BY DEF Sheet!Row
  <2> HIDE DEF b
  <2> QED BY <2>1, Typed
<1>2. R = [row EXCEPT !.norm = n, !.action = action, !.version = @ + 1, !.matched = to, !.diags = ds]
  BY DEF Sheet!Resolved
<1>4. action # "skip" => Sheet!Broken(n, row.kind) \subseteq ds
  BY DEF Sheet!Revalidated
<1> HIDE DEF R, n, ds
<1>3. /\ Sheet!Row(R) /\ R.norm = n /\ R.action = action /\ R.diags = ds /\ R.kind = row.kind
      /\ R.candidates = row.candidates /\ R.matched = to
  <2>1. row = [sheet |-> row.sheet, kind |-> row.kind, norm |-> row.norm, diags |-> row.diags,
               candidates |-> row.candidates, matched |-> row.matched, version |-> row.version,
               action |-> row.action]
        /\ row.kind \in {"container", "task"} /\ row.version + 1 \in Nat
    BY DEF Sheet!Row
  <2>2. R = [sheet |-> row.sheet, kind |-> row.kind, norm |-> n, diags |-> ds,
             candidates |-> row.candidates, matched |-> to, version |-> row.version + 1, action |-> action]
    BY <1>2, <2>1
  <2> QED BY <1>1, <2>1, <2>2 DEF Sheet!Row
<1>5. ASSUME Sheet!Clean(R) PROVE Sheet!Sound(R)
  <2>1. action # "skip" /\ Harmless(ds) /\ row.kind = "task"
    BY <1>3, <1>5 DEF Sheet!Clean, Harmless, Sheet!Row
  <2>2. Harmless(Sheet!Broken(n, row.kind))
    BY <2>1, <1>4, FewerHarmless
  <2>3. /\ Sheet!When(n.parent \in {None, "half"}, Sheet!D("blocking", "PARENT_MISSING", None))
            \subseteq Sheet!Broken(n, row.kind)
        /\ Sheet!When(n.parent \in {"bad", "short"}, Sheet!D("blocking", "PARENT_KEY_INVALID", None))
            \subseteq Sheet!Broken(n, row.kind)
        /\ Sheet!When(row.kind = "task" /\ n.title = None, Sheet!D("blocking", "TITLE_MISSING", None))
             \subseteq Sheet!Broken(n, row.kind)
        /\ Sheet!When(n.title = "long", Sheet!D("blocking", "TITLE_TOO_LONG", None))
            \subseteq Sheet!Broken(n, row.kind)
        /\ Sheet!When(Bad \in {n.start, n.due}, Sheet!D("blocking", "DATE_INVALID", None))
            \subseteq Sheet!Broken(n, row.kind)
        /\ Sheet!When(n.start \in Sheet!Dates /\ n.due \in Sheet!Dates /\ n.due < n.start,
                       Sheet!D("blocking", "DATE_RANGE_INVALID", None))
             \subseteq Sheet!Broken(n, row.kind)
    BY DEF Sheet!Broken
  <2>4. /\ n.parent \notin {None, "half"} /\ n.parent \notin {"bad", "short"}
           /\ ~(row.kind = "task" /\ n.title = None)
        /\ n.title # "long" /\ Bad \notin {n.start, n.due}
        /\ ~(n.start \in Sheet!Dates /\ n.due \in Sheet!Dates /\ n.due < n.start)
    BY <2>2, <2>3, NoHarm
  <2>5. n.parent \in Sheet!Parents /\ n.title \in {"t", "u"} /\ n.start \in Sheet!Dated
        /\ n.due \in Sheet!Dated
    BY <1>1, <2>1, <2>4 DEF Sheet!Normal, Sheet!Form, Sheet!Keys
  <2>6. n.start # None /\ n.due # None => n.start <= n.due
    BY <2>4, <2>5 DEF Sheet!Dated, Sheet!Dates
  <2> QED BY <1>3, <2>1, <2>5, <2>6 DEF Sheet!Sound, Sheet!Keys
<1> QED BY <1>3, <1>5 DEF R

\* An import with another version and one row, or all of them, replaced.
LEMMA RowReplaced ==
  ASSUME NEW old, NEW im, NEW v, NEW rows, im = [old EXCEPT !.version = v, !.rows = rows],
         old = [status |-> old.status, version |-> old.version, diags |-> old.diags, rows |-> old.rows]
  PROVE  im = [status |-> old.status, version |-> v, diags |-> old.diags, rows |-> rows]
OBVIOUS

LEMMA RowsReplaced ==
  ASSUME NEW old, NEW im, NEW st, NEW v, NEW rows,
         im = [old EXCEPT !.status = st, !.version = v, !.rows = rows],
         old = [status |-> old.status, version |-> old.version, diags |-> old.diags, rows |-> old.rows]
  PROVE  im = [status |-> st, version |-> v, diags |-> old.diags, rows |-> rows]
OBVIOUS

\* An import without rows has nothing left to check.
LEMMA Blanks ==
  ASSUME NEW im, im = [Sheet!NoImport EXCEPT !.status = im.status, !.version = im.version],
         im.status \in {"none", "failed"}, im.version \in Nat
  PROVE  Sheet!Import(im) /\ Sheet!Checked(im)
<1>1. /\ Sheet!NoImport.diags = {} /\ DOMAIN Sheet!NoImport.rows = {}
      /\ Sheet!NoImport.rows = [i \in DOMAIN Sheet!NoImport.rows |-> Sheet!NoImport.rows[i]]
      /\ Sheet!NoImport =
              [status |-> Sheet!NoImport.status, version |-> Sheet!NoImport.version,
               diags |-> Sheet!NoImport.diags,
               rows |-> Sheet!NoImport.rows]
  BY DEF Sheet!NoImport
<1>2. im = [status |-> im.status, version |-> im.version, diags |-> Sheet!NoImport.diags,
           rows |-> Sheet!NoImport.rows]
  BY <1>1
<1> QED BY <1>1, <1>2 DEF Sheet!Import, Sheet!Checked

\* The import that is not there and the one that failed.
LEMMA Nothing ==
  Sheet!Import(Sheet!NoImport) /\ Sheet!Checked(Sheet!NoImport) /\ Sheet!Import(Sheet!Failed)
  /\ Sheet!Checked(Sheet!Failed)
  /\ Sheet!NoImport.status = "none" /\ Sheet!Failed.status = "failed"
     /\ Sheet!NoImport.version = 0 /\ Sheet!Failed.version = 1
<1>1. Sheet!NoImport.status = "none" /\ Sheet!NoImport.version = 0
      /\ Sheet!Failed.status = "failed" /\ Sheet!Failed.version = 1
  BY DEF Sheet!NoImport, Sheet!Failed
<1>2. Sheet!NoImport = [Sheet!NoImport EXCEPT !.status = Sheet!NoImport.status, !.version = Sheet!NoImport.version]
  <2>1. Sheet!NoImport =
          [status |-> Sheet!NoImport.status, version |-> Sheet!NoImport.version,
           diags |-> Sheet!NoImport.diags,
           rows |-> Sheet!NoImport.rows]
    BY DEF Sheet!NoImport
  <2> QED BY <2>1
<1>3. Sheet!Failed = [Sheet!NoImport EXCEPT !.status = Sheet!Failed.status, !.version = Sheet!Failed.version]
  BY <1>1 DEF Sheet!Failed
<1>4. Sheet!Import(Sheet!NoImport) /\ Sheet!Checked(Sheet!NoImport)
  <2>1. Sheet!NoImport.status \in {"none", "failed"} /\ Sheet!NoImport.version \in Nat
    BY <1>1
  <2> QED BY <1>2, <2>1, Blanks
<1>5. Sheet!Import(Sheet!Failed) /\ Sheet!Checked(Sheet!Failed)
  <2>1. Sheet!Failed.status \in {"none", "failed"} /\ Sheet!Failed.version \in Nat
    BY <1>1
  <2> QED BY <1>3, <2>1, Blanks
<1> QED BY <1>1, <1>4, <1>5

\* A preview is an import of its first version, every clean row of which is sound.
LEMMA Previewed ==
  ASSUME Sheet!ExcelAssumption, NEW b \in Sheet!Book
  PROVE  LET im == Sheet!Preview(b) IN
         Sheet!Import(im) /\ Sheet!Checked(im) /\ im.status \in {"preview_ready", "failed"}
         /\ im.version = 1
<1>1. CASE Sheet!Preview(b) = Sheet!Failed
  BY <1>1, Nothing
<1>2. CASE Sheet!Preview(b) = [status |-> "preview_ready", version |-> 1,
                               diags |-> Sheet!SheetDiagnostics(b), rows |-> Sheet!RowsOf(b)]
  <2>1. ASSUME NEW x \in Sheet!RowKeys(b)
        PROVE  Sheet!Row(Sheet!RowsOf(b)[x])
        /\ (Sheet!Clean(Sheet!RowsOf(b)[x]) => Sheet!Sound(Sheet!RowsOf(b)[x]))
    <3>1. PICK k \in DOMAIN b.sheets : \E i \in DOMAIN b.sheets[k].rows : x = <<k, i>>
      <4>1. PICK k \in {k \in Sheet!Recognised(b) : b.sheets[k].complete} :
              x \in {<<k, i>> : i \in {i \in DOMAIN b.sheets[k].rows : ~Sheet!Blank(b.sheets[k].rows[i])}}
        BY <2>1 DEF Sheet!RowKeys
      <4>2. k \in DOMAIN b.sheets
        BY <4>1 DEF Sheet!Recognised
      <4> QED BY <4>1, <4>2
    <3>2. PICK i \in DOMAIN b.sheets[k].rows : x = <<k, i>>
      BY <3>1
    <3>3. b.sheets[k] \in Sheet!Sheet
      BY DEF Sheet!Book
    <3>4. Sheet!RowsOf(b)[x] = Sheet!Prepared(b.sheets[k], i)
      BY <2>1, <3>2 DEF Sheet!RowsOf
    <3> QED BY <3>3, <3>4, Parsed
  <2>2. Sheet!RowsOf(b) = [x \in DOMAIN Sheet!RowsOf(b) |-> Sheet!RowsOf(b)[x]]
        /\ DOMAIN Sheet!RowsOf(b) = Sheet!RowKeys(b)
    BY DEF Sheet!RowsOf
  <2>3. Sheet!Import(Sheet!Preview(b))
    BY <1>2, <2>1, <2>2 DEF Sheet!Import
  <2>4. Sheet!Checked(Sheet!Preview(b))
    BY <1>2, <2>1, <2>2 DEF Sheet!Checked
  <2> QED BY <1>2, <2>3, <2>4
<1> QED BY <1>1, <1>2 DEF Sheet!Preview

\* No file is imported and no window shows one at the start.
LEMMA ImportStarts ==
  ASSUME Sheet!ExcelAssumption, Sheet!Init
  PROVE  Sheet!IInv
<1>1. \A w \in Windows : upload[w] = None /\ page[w] = Sheet!NoPage /\ call[w] = None
  BY DEF Sheet!Init
<1>2. \A f \in Files : file[f] = Sheet!NoImport
  BY DEF Sheet!Init
<1>3. Sheet!Window(None, Sheet!NoPage, None) /\ Sheet!Told(None, Sheet!NoPage, None, file)
  BY Nothing DEF Sheet!Window, Sheet!Told, Sheet!NoPage
<1>4. Sheet!TypeOK
  BY <1>1, <1>2, <1>3, Nothing DEF Sheet!TypeOK, Sheet!Init, Sheet!ExcelAssumption
<1>5. Sheet!InStep
  BY <1>1, <1>2, <1>3, Nothing DEF Sheet!InStep
<1> QED BY <1>4, <1>5 DEF Sheet!IInv

\* An import replaced, and what one window shows, makes and sends.
LEMMA WindowMoves ==
  ASSUME Sheet!ExcelAssumption, Sheet!IInv, NEW f \in Files, NEW im,
         \/ im = file[f]
         \/ /\ Sheet!Import(im) /\ Sheet!Checked(im) /\ im.status # "none"
            /\ file[f].status = "none" \/ file[f].version < im.version,
         file' = [file EXCEPT ![f] = im],
         NEW w \in Windows, NEW u, NEW p, NEW c, upload' = [upload EXCEPT ![w] = u],
         page' = [page EXCEPT ![w] = p], call' = [call EXCEPT ![w] = c],
         Sheet!Window(u, p, c), Sheet!Told(u, p, c, file'), UNCHANGED book, left' \in 0..MaxEvents
  PROVE  Sheet!IInv'
<1>1. /\ file' = [g \in Files |-> file'[g]] /\ file'[f] = im
      /\ \A g \in Files : g # f => file'[g] = file[g]
  BY DEF Sheet!IInv, Sheet!TypeOK
<1>2. \A g \in Files : Sheet!Import(file'[g]) /\ Sheet!Checked(file'[g])
  BY <1>1 DEF Sheet!IInv, Sheet!TypeOK, Sheet!InStep
<1>3. /\ upload' = [v \in Windows |-> upload'[v]] /\ page' = [v \in Windows |-> page'[v]]
      /\ call' = [v \in Windows |-> call'[v]] /\ upload'[w] = u /\ page'[w] = p /\ call'[w] = c
      /\ \A v \in Windows : v # w => upload'[v] = upload[v] /\ page'[v] = page[v]
         /\ call'[v] = call[v]
  BY DEF Sheet!IInv, Sheet!TypeOK
<1>4. \A v \in Windows : Sheet!Window(upload'[v], page'[v], call'[v])
  BY <1>3 DEF Sheet!IInv, Sheet!TypeOK
<1>5. Sheet!TypeOK'
  BY <1>1, <1>2, <1>3, <1>4 DEF Sheet!IInv, Sheet!TypeOK
<1>6. ASSUME NEW g \in Files, NEW old, old.version \in Nat, Sheet!AsOld(old, file[g])
      PROVE  Sheet!AsOld(old, file'[g])
  <2>1. CASE file'[g] = file[g]
    BY <1>6, <2>1
  <2>2. CASE g = f /\ Sheet!Import(im) /\ im.status # "none" /\ file[f].version < im.version
    <3>1. file[f].version \in Nat /\ im.version \in Nat /\ old.version <= file[f].version
      BY <1>6, <2>2 DEF Sheet!AsOld, Sheet!IInv, Sheet!TypeOK, Sheet!Import
    <3>2. old.version <= im.version /\ old.version # im.version
      BY <1>6, <2>2, <3>1
    <3> QED BY <1>1, <2>2, <3>2 DEF Sheet!AsOld
  <2> QED BY <1>1, <1>6, <2>1, <2>2 DEF Sheet!AsOld
<1>7. ASSUME NEW v \in Windows, v # w PROVE Sheet!Told(upload[v], page[v], call[v], file')
  <2>1. Sheet!Window(upload[v], page[v], call[v]) /\ Sheet!Told(upload[v], page[v], call[v], file)
    BY DEF Sheet!IInv, Sheet!TypeOK, Sheet!InStep
  <2>2. page[v].file # None => Sheet!AsOld(page[v].shown, file'[page[v].file])
    BY <1>6, <2>1 DEF Sheet!Window, Sheet!Told, Sheet!Import
  <2>3. call[v] # None => Sheet!AsOld(call[v], file'[call[v].file])
    BY <1>6, <2>1 DEF Sheet!Window, Sheet!Told
  <2> QED BY <2>1, <2>2, <2>3 DEF Sheet!Told
<1>8. Sheet!InStep'
  BY <1>2, <1>3, <1>7 DEF Sheet!InStep
<1> QED BY <1>5, <1>8 DEF Sheet!IInv

\* What goes wrong is paid for.
LEMMA Spent ==
  ASSUME Sheet!ExcelAssumption, Sheet!IInv
  PROVE  left \in 0..MaxEvents /\ (Sheet!Event => left' \in 0..MaxEvents)
BY DEF Sheet!IInv, Sheet!TypeOK, Sheet!Event, Sheet!ExcelAssumption

\* What the invariant says of one window.
LEMMA WindowTypes ==
  ASSUME Sheet!IInv, NEW w \in Windows
  PROVE  /\ upload = [upload EXCEPT ![w] = upload[w]] /\ page = [page EXCEPT ![w] = page[w]]
         /\ call = [call EXCEPT ![w] = call[w]]
         /\ \A f \in Files : file = [file EXCEPT ![f] = file[f]] /\ Sheet!Import(file[f])
            /\ Sheet!Checked(file[f])
         /\ Sheet!Window(upload[w], page[w], call[w])
            /\ Sheet!Told(upload[w], page[w], call[w], file)
         /\ left \in 0..MaxEvents
BY DEF Sheet!IInv, Sheet!TypeOK, Sheet!InStep

\* A window that shows something shows an import that is stored.
LEMMA Showing ==
  ASSUME Sheet!ExcelAssumption, Sheet!IInv, NEW w \in Windows, page[w].file # None
  PROVE  /\ page[w].file \in Files /\ Sheet!Import(file[page[w].file])
  /\ Sheet!Import(page[w].shown)
         /\ Sheet!AsOld(page[w].shown, file[page[w].file])
BY WindowTypes DEF Sheet!Window, Sheet!Told

LEMMA Shown ==
  ASSUME Sheet!ExcelAssumption, Sheet!IInv, NEW w \in Windows, page[w].shown.status # "none"
  PROVE  page[w].file # None
BY WindowTypes, Nothing DEF Sheet!Told

\* An import is no later than itself.
LEMMA AsItself ==
  ASSUME NEW im, Sheet!Import(im), im.status # "none"
  PROVE  Sheet!AsOld(im, im)
<1>1. im.version \in Nat
  BY DEF Sheet!Import
<1> QED BY <1>1 DEF Sheet!AsOld

\* A window opens an import that is stored.
LEMMA Opens ==
  ASSUME Sheet!ExcelAssumption, NEW f \in Files, NEW files, Sheet!Import(files[f]),
         files[f].status # "none",
         NEW u, u # None => /\ u = [file |-> u.file, result |-> u.result] /\ u.file \in Files
             /\ Sheet!Import(u.result)
                            /\ u.result.status \in {"preview_ready", "failed"}
                               /\ Sheet!Checked(u.result)
  PROVE  Sheet!Window(u, Sheet!Opened(f, files[f]), None)
  /\ Sheet!Told(u, Sheet!Opened(f, files[f]), None, files)
<1> DEFINE p == Sheet!Opened(f, files[f])
<1>1. p = [file |-> f, shown |-> files[f], ack |-> FALSE, key |-> None]
  BY DEF Sheet!Opened
<1>2. p.file = f /\ p.shown = files[f] /\ f # None
  BY <1>1 DEF Sheet!ExcelAssumption
<1>3. Sheet!AsOld(p.shown, files[p.file])
  BY <1>2 DEF Sheet!AsOld, Sheet!Import
<1> HIDE DEF p
<1>4. Sheet!Window(u, p, None)
  BY <1>1, <1>2 DEF Sheet!Window
<1>5. Sheet!Told(u, p, None, files)
  BY <1>2, <1>3 DEF Sheet!Told
<1> QED BY <1>4, <1>5 DEF p

\* An upload makes a preview, or shows the import of the file.
LEMMA UploadStep ==
  ASSUME Sheet!ExcelAssumption, Sheet!IInv, NEW w \in Windows, NEW f \in Files, Sheet!Upload(w, f)
  PROVE  Sheet!IInv'
<1>1. /\ upload[w] = None /\ call[w] = None /\ book[f] # None
         /\ UNCHANGED <<book, file, synced, made, call, left>>
      /\ file = [file EXCEPT ![f] = file[f]] /\ call' = [call EXCEPT ![w] = None]
      /\ Sheet!Window(upload[w], page[w], call[w]) /\ Sheet!Told(upload[w], page[w], call[w], file)
      /\ Sheet!Import(file[f])
  BY WindowTypes DEF Sheet!Upload, Sheet!Idle
<1>2. CASE upload' = [upload EXCEPT ![w] = [file |-> f, result |-> Sheet!Preview(book[f])]]
           /\ UNCHANGED page
  <2> DEFINE u == [file |-> f, result |-> Sheet!Preview(book[f])]
  <2>1. book[f] \in Sheet!Book
    BY <1>1 DEF Sheet!IInv, Sheet!TypeOK, Sheet!ExcelAssumption
  <2>2. /\ Sheet!Import(Sheet!Preview(book[f])) /\ Sheet!Checked(Sheet!Preview(book[f]))
        /\ Sheet!Preview(book[f]).status \in {"preview_ready", "failed"}
    BY <2>1, Previewed
  <2>3. Sheet!Window(u, page[w], None) /\ Sheet!Told(u, page[w], None, file')
    BY <1>1, <2>2 DEF Sheet!Window, Sheet!Told
  <2>4. page' = [page EXCEPT ![w] = page[w]] /\ left' \in 0..MaxEvents
    BY <1>1, <1>2, WindowTypes
  <2> HIDE DEF u
  <2> QED BY <1>1, <1>2, <2>3, <2>4, WindowMoves DEF u
<1>3. CASE /\ file[f].status \in {"preview_ready", "committed"} /\ UNCHANGED upload
           /\ page' = [page EXCEPT ![w] = Sheet!Opened(f, file[f])]
  <2>1. Sheet!Window(None, Sheet!Opened(f, file[f]), None)
        /\ Sheet!Told(None, Sheet!Opened(f, file[f]), None, file)
    BY <1>1, <1>3, Opens
  <2>2. upload' = [upload EXCEPT ![w] = None] /\ left' \in 0..MaxEvents
    BY <1>1, <1>3, WindowTypes
  <2> QED BY <1>1, <1>3, <2>1, <2>2, WindowMoves
<1> QED BY <1>2, <1>3 DEF Sheet!Upload

\* An import is chosen from the history.
LEMMA ChooseStep ==
  ASSUME Sheet!ExcelAssumption, Sheet!IInv, NEW w \in Windows, NEW f \in Files, Sheet!Choose(w, f)
  PROVE  Sheet!IInv'
<1>1. /\ upload[w] = None /\ call[w] = None /\ file[f].status # "none"
      /\ page' = [page EXCEPT ![w] = Sheet!Opened(f, file[f])]
         /\ UNCHANGED <<book, file, upload, call, left>>
      /\ file = [file EXCEPT ![f] = file[f]] /\ upload' = [upload EXCEPT ![w] = None]
      /\ call' = [call EXCEPT ![w] = None] /\ Sheet!Import(file[f]) /\ left' \in 0..MaxEvents
  BY WindowTypes DEF Sheet!Choose, Sheet!Idle
<1>2. Sheet!Window(None, Sheet!Opened(f, file[f]), None)
      /\ Sheet!Told(None, Sheet!Opened(f, file[f]), None, file)
  BY <1>1, Opens
<1> QED BY <1>1, <1>2, WindowMoves

\* A preview is stored unless its file was stored meanwhile.
LEMMA StoreStep ==
  ASSUME Sheet!ExcelAssumption, Sheet!IInv, NEW w \in Windows, upload[w] # None, NEW im,
         Sheet!Import(im), Sheet!Checked(im),
         im.status \in {"preview_ready", "failed"}, Sheet!Store(w, im), left' \in 0..MaxEvents
  PROVE  Sheet!IInv'
<1> DEFINE f == upload[w].file
           next == IF file[f].status = "none" THEN im ELSE file[f]
<1>1. /\ f \in Files /\ call[w] = None /\ Sheet!Window(upload[w], page[w], call[w])
      /\ Sheet!Told(upload[w], page[w], call[w], file)
  BY WindowTypes DEF Sheet!Window, Sheet!Told
<1>2. /\ file' = [file EXCEPT ![f] = next] /\ UNCHANGED book
      /\ upload' = [upload EXCEPT ![w] = None] /\ call' = [call EXCEPT ![w] = None]
  BY <1>1, WindowTypes DEF Sheet!Store
<1>3. Sheet!Import(next) /\ Sheet!Checked(next) /\ next.status # "none" /\ file'[f] = next
  BY <1>1, <1>2, WindowTypes DEF Sheet!IInv, Sheet!TypeOK
<1>4. \/ next = file[f]
      \/ /\ Sheet!Import(next) /\ Sheet!Checked(next)
         /\ next.status # "none" /\ file[f].status = "none"
  BY <1>3
<1>5. page' = IF im.status # "failed" THEN [page EXCEPT ![w] = Sheet!Opened(f, file'[f])] ELSE page
  BY DEF Sheet!Store
<1> HIDE DEF f, next
<1>6. CASE im.status # "failed"
  <2>1. Sheet!Window(None, Sheet!Opened(f, file'[f]), None)
        /\ Sheet!Told(None, Sheet!Opened(f, file'[f]), None, file')
    BY <1>1, <1>3, Opens
  <2>2. page' = [page EXCEPT ![w] = Sheet!Opened(f, file'[f])]
    BY <1>5, <1>6
  <2>3. \/ next = file[f]
        \/ /\ Sheet!Import(next) /\ Sheet!Checked(next) /\ next.status # "none"
           /\ file[f].status = "none" \/ file[f].version < next.version
    BY <1>4
  <2> QED BY <1>1, <1>2, <2>1, <2>2, <2>3, WindowMoves, ZenonT(60)
<1>7. CASE im.status = "failed"
  <2>1. page' = [page EXCEPT ![w] = page[w]]
    BY <1>5, <1>7, WindowTypes
  <2>2. Sheet!Window(None, page[w], None)
    BY <1>1 DEF Sheet!Window
  <2>3. ASSUME page[w].file # None PROVE Sheet!AsOld(page[w].shown, file'[page[w].file])
    <3>1. Sheet!AsOld(page[w].shown, file[page[w].file])
      BY <1>1, <2>3 DEF Sheet!Told
    <3>2. file'[page[w].file] = file[page[w].file]
      BY <1>1, <1>2, <2>2, <2>3, <3>1, WindowTypes DEF Sheet!AsOld, next, Sheet!Window, Sheet!IInv,
         Sheet!TypeOK
    <3> QED BY <3>1, <3>2
  <2>4. Sheet!Told(None, page[w], None, file')
    BY <1>1, <2>3 DEF Sheet!Told
  <2> QED BY <1>1, <1>2, <1>4, <2>1, <2>2, <2>4, WindowMoves
<1> QED BY <1>6, <1>7

\* An upload ends with its preview or with a failed write.
LEMMA UploadEndSteps ==
  ASSUME Sheet!ExcelAssumption, Sheet!IInv, NEW w \in Windows,
         Sheet!UploadEnds(w) \/ Sheet!UploadFails(w)
  PROVE  Sheet!IInv'
<1>1. /\ upload[w] # None /\ Sheet!Import(upload[w].result) /\ Sheet!Checked(upload[w].result)
      /\ upload[w].result.status \in {"preview_ready", "failed"}
  BY WindowTypes DEF Sheet!UploadEnds, Sheet!UploadFails, Sheet!Window, Sheet!Told
<1>2. left' \in 0..MaxEvents
  BY WindowTypes DEF Sheet!UploadEnds, Sheet!UploadFails, Sheet!Event, Sheet!ExcelAssumption
<1>3. Sheet!Store(w, upload[w].result) \/ Sheet!Store(w, Sheet!Failed)
  BY DEF Sheet!UploadEnds, Sheet!UploadFails
<1> QED BY <1>1, <1>2, <1>3, StoreStep, Nothing

\* A page reads the import it shows again.
LEMMA RefetchStep ==
  ASSUME Sheet!ExcelAssumption, Sheet!IInv, NEW w \in Windows, Sheet!Refetch(w)
  PROVE  Sheet!IInv'
<1> DEFINE f == page[w].file  p == [page[w] EXCEPT !.shown = file[f]]
<1>1. /\ f \in Files /\ f # None /\ Sheet!Import(file[f]) /\ Sheet!AsOld(page[w].shown, file[f])
      /\ UNCHANGED <<book, file, upload, call, left>> /\ page' = [page EXCEPT ![w] = p]
  BY Showing DEF Sheet!Refetch, Sheet!IInv, Sheet!TypeOK
<1>2. /\ file' = [file EXCEPT ![f] = file[f]] /\ upload' = [upload EXCEPT ![w] = upload[w]]
      /\ call' = [call EXCEPT ![w] = call[w]] /\ left' \in 0..MaxEvents
      /\ Sheet!Window(upload[w], page[w], call[w]) /\ Sheet!Told(upload[w], page[w], call[w], file)
  BY <1>1, WindowTypes
<1>3. /\ p \in [file: Files \union {None}, shown: {file[f]}, ack: BOOLEAN,
                 key: {None, "processing", "completed", "failed"}]
      /\ p.file = f /\ p.shown = file[f] /\ p.key = page[w].key
  BY <1>1, <1>2 DEF Sheet!Window
<1> HIDE DEF p
<1>4. Sheet!Window(upload[w], p, call[w])
  BY <1>1, <1>2, <1>3 DEF Sheet!Window
<1>5. Sheet!AsOld(p.shown, file[p.file])
  BY <1>1, <1>3, AsItself DEF Sheet!AsOld
<1>6. Sheet!Told(upload[w], p, call[w], file)
  BY <1>1, <1>2, <1>3, <1>5 DEF Sheet!Told
<1> QED BY <1>1, <1>2, <1>4, <1>6, WindowMoves

\* The warnings are acknowledged.
LEMMA TickStep ==
  ASSUME Sheet!ExcelAssumption, Sheet!IInv, NEW w \in Windows, Sheet!Tick(w)
  PROVE  Sheet!IInv'
<1> DEFINE f == page[w].file  p == [page[w] EXCEPT !.ack = TRUE]
<1>1. f # None /\ f \in Files
  BY Shown, Showing DEF Sheet!Tick
<1>2. /\ UNCHANGED <<book, file, upload, call, left>> /\ page' = [page EXCEPT ![w] = p]
      /\ file' = [file EXCEPT ![f] = file[f]] /\ upload' = [upload EXCEPT ![w] = upload[w]]
      /\ call' = [call EXCEPT ![w] = call[w]] /\ left' \in 0..MaxEvents
      /\ Sheet!Window(upload[w], page[w], call[w]) /\ Sheet!Told(upload[w], page[w], call[w], file)
  BY <1>1, WindowTypes DEF Sheet!Tick, Sheet!IInv, Sheet!TypeOK
<1>3. /\ p \in [file: Files \union {None}, shown: {p.shown}, ack: BOOLEAN,
                 key: {None, "processing", "completed", "failed"}]
      /\ p.file = f /\ p.shown = page[w].shown /\ p.key = page[w].key
  BY <1>2 DEF Sheet!Window
<1> HIDE DEF p
<1>4. Sheet!Window(upload[w], p, call[w]) /\ Sheet!Told(upload[w], p, call[w], file)
  BY <1>1, <1>2, <1>3 DEF Sheet!Window, Sheet!Told
<1> QED BY <1>1, <1>2, <1>4, WindowMoves

\* A commit is sent from what the page shows, or its answer is read again.
LEMMA CommitStep ==
  ASSUME Sheet!ExcelAssumption, Sheet!IInv, NEW w \in Windows, Sheet!Commit(w)
  PROVE  Sheet!IInv'
<1> DEFINE f == page[w].file
<1>1. /\ f # None /\ f \in Files /\ Sheet!Import(file[f]) /\ Sheet!Import(page[w].shown)
      /\ Sheet!AsOld(page[w].shown, file[f])
  BY Shown, Showing DEF Sheet!Commit, Sheet!CanCommit
<1>2. /\ UNCHANGED <<book, file, upload, left>> /\ upload[w] = None /\ call[w] = None
      /\ file' = [file EXCEPT ![f] = file[f]] /\ upload' = [upload EXCEPT ![w] = None]
      /\ call = [call EXCEPT ![w] = None] /\ left' \in 0..MaxEvents
      /\ Sheet!Window(upload[w], page[w], call[w]) /\ Sheet!Told(upload[w], page[w], call[w], file)
  BY <1>1, WindowTypes DEF Sheet!Commit, Sheet!Idle
<1>3. ASSUME page' = [page EXCEPT ![w].key = "processing"],
             call' = [call EXCEPT ![w] = [file |-> f, version |-> page[w].shown.version,
                                          ack |-> page[w].ack,
                                          rows |-> page[w].shown.rows]]
      PROVE  Sheet!IInv'
  <2> DEFINE p == [page[w] EXCEPT !.key = "processing"]
             c == [file |-> f, version |-> page[w].shown.version,
                                          ack |-> page[w].ack,
                   rows |-> page[w].shown.rows]
  <2>1. page' = [page EXCEPT ![w] = p] /\ call' = [call EXCEPT ![w] = c]
    BY <1>3 DEF Sheet!IInv, Sheet!TypeOK
  <2>2. /\ p \in [file: Files \union {None}, shown: {p.shown}, ack: BOOLEAN,
                   key: {None, "processing", "completed", "failed"}]
        /\ p.file = f /\ p.shown = page[w].shown /\ p.key = "processing"
    BY <1>2 DEF Sheet!Window
  <2>3. c.version \in Nat
    BY <1>1 DEF Sheet!Import
  <2>4. Sheet!Window(None, p, c)
    BY <1>1, <1>2, <2>2, <2>3 DEF Sheet!Window
  <2>5. Sheet!Told(None, p, c, file)
    BY <1>1, <1>2, <2>2 DEF Sheet!Told, Sheet!AsOld
  <2> HIDE DEF p, c
  <2> QED BY <1>1, <1>2, <2>1, <2>4, <2>5, WindowMoves
<1>4. ASSUME page' = [page EXCEPT ![w].shown = file[f]], UNCHANGED call
      PROVE  Sheet!IInv'
  <2> DEFINE p == [page[w] EXCEPT !.shown = file[f]]
  <2>1. page' = [page EXCEPT ![w] = p]
    BY <1>4 DEF Sheet!IInv, Sheet!TypeOK
  <2>2. /\ p \in [file: Files \union {None}, shown: {file[f]}, ack: BOOLEAN,
                   key: {None, "processing", "completed", "failed"}]
        /\ p.file = f /\ p.shown = file[f]
    BY <1>2 DEF Sheet!Window
  <2>3. Sheet!Window(None, p, None)
    BY <1>1, <2>2 DEF Sheet!Window
  <2>4. Sheet!AsOld(p.shown, file[p.file])
    BY <1>1, <2>2, AsItself DEF Sheet!AsOld
  <2> HIDE DEF p
  <2>5. Sheet!Told(None, p, None, file)
    BY <1>1, <2>2, <2>4 DEF Sheet!Told
  <2> QED BY <1>1, <1>2, <1>4, <2>1, <2>3, <2>5, WindowMoves
<1> QED BY <1>3, <1>4 DEF Sheet!Commit

\* A resolution replaces one row of the version it was made on, which counts on.
LEMMA SaveStep ==
  ASSUME Sheet!ExcelAssumption, Sheet!IInv, NEW w \in Windows, NEW i,
         NEW action \in {"create_excel", "link_jira", "skip"},
         NEW matched, NEW e \in Forms, NEW touched, Sheet!Save(w, i, action, matched, e, touched)
  PROVE  Sheet!IInv'
<1> DEFINE f == page[w].file
           row == Sheet!Resolved(file[f].rows[i], action, matched, e, touched)
           rows == [file[f].rows EXCEPT ![i] = row]
           v == file[f].version + 1
           im == [file[f] EXCEPT !.version = v, !.rows = rows]
<1>1. /\ f # None /\ f \in Files /\ Sheet!Import(file[f]) /\ Sheet!Checked(file[f])
      /\ Sheet!Import(page[w].shown) /\ Sheet!AsOld(page[w].shown, file[f])
  BY Shown, Showing, WindowTypes DEF Sheet!Save
<1>2. /\ upload[w] = None /\ call[w] = None /\ file[f].status = "preview_ready"
      /\ i \in DOMAIN page[w].shown.rows /\ file[f].version = page[w].shown.version
      /\ page[w].shown.rows[i].kind = "container" => action = "skip"
      /\ action = "link_jira" => matched \in page[w].shown.rows[i].candidates
      /\ UNCHANGED <<book, upload, call>> /\ page' = [page EXCEPT ![w] = Sheet!Opened(f, file'[f])]
  BY DEF Sheet!Save, Sheet!Idle
<1>3. page[w].shown.rows = file[f].rows
  BY <1>1, <1>2 DEF Sheet!AsOld
<1>4. i \in DOMAIN file[f].rows /\ Sheet!Row(file[f].rows[i])
  BY <1>1, <1>2, <1>3 DEF Sheet!Import
<1>5. Sheet!Row(row) /\ (Sheet!Clean(row) => Sheet!Sound(row))
  BY <1>2, <1>3, <1>4, Corrected
<1>6. file' = [file EXCEPT ![f] = im]
  BY <1>1 DEF Sheet!Save, Sheet!IInv, Sheet!TypeOK
<1> HIDE DEF row
<1>7. /\ im = [status |-> "preview_ready", version |-> file[f].version + 1, diags |-> file[f].diags,
               rows |-> [file[f].rows EXCEPT ![i] = row]]
  <2>1. file[f] = [status |-> file[f].status, version |-> file[f].version, diags |-> file[f].diags,
                   rows |-> file[f].rows]
    BY <1>1 DEF Sheet!Import
  <2>2. im = [file[f] EXCEPT !.version = v, !.rows = rows]
    OBVIOUS
  <2> HIDE DEF im, v, rows
  <2>3. im = [status |-> file[f].status, version |-> v, diags |-> file[f].diags, rows |-> rows]
    BY <2>1, <2>2, RowReplaced
  <2> QED BY <1>2, <2>3 DEF v, rows
<1>8. /\ DOMAIN im.rows = DOMAIN file[f].rows /\ im.rows[i] = row
      /\ \A j \in DOMAIN file[f].rows : j # i => im.rows[j] = file[f].rows[j]
      /\ im.rows = [j \in DOMAIN im.rows |-> im.rows[j]]
      /\ im.status = "preview_ready" /\ im.version = file[f].version + 1
  <2>1. im.status = "preview_ready" /\ im.version = file[f].version + 1 /\ im.rows = rows
    <3> HIDE DEF im, rows
    <3> QED BY <1>7 DEF rows
  <2>2. file[f].rows = [j \in DOMAIN file[f].rows |-> file[f].rows[j]]
    BY <1>1 DEF Sheet!Import
  <2> HIDE DEF im
  <2> QED BY <1>4, <2>1, <2>2
<1> HIDE DEF im
<1>9. Sheet!Import(im) /\ Sheet!Checked(im) /\ file[f].version < im.version
  <2>1. file[f].version \in Nat /\ \A j \in DOMAIN file[f].rows : Sheet!Row(file[f].rows[j])
    BY <1>1 DEF Sheet!Import
  <2>2. \A j \in DOMAIN file[f].rows : Sheet!Clean(file[f].rows[j]) => Sheet!Sound(file[f].rows[j])
    BY <1>1 DEF Sheet!Checked
  <2>3. \A j \in DOMAIN im.rows : Sheet!Row(im.rows[j])
        /\ (Sheet!Clean(im.rows[j]) => Sheet!Sound(im.rows[j]))
    BY <1>5, <1>8, <2>1, <2>2
  <2>4. im = [status |-> im.status, version |-> im.version, diags |-> im.diags, rows |-> im.rows]
    BY <1>7
  <2>5. Sheet!Import(im)
    BY <1>8, <2>1, <2>3, <2>4 DEF Sheet!Import
  <2>6. Sheet!Checked(im)
    BY <1>8, <2>3 DEF Sheet!Checked
  <2> QED BY <1>8, <2>1, <2>5, <2>6
<1>10. file'[f] = im
  BY <1>1, <1>6 DEF Sheet!IInv, Sheet!TypeOK
<1>11. Sheet!Window(None, Sheet!Opened(f, file'[f]), None)
       /\ Sheet!Told(None, Sheet!Opened(f, file'[f]), None, file')
  BY <1>1, <1>8, <1>9, <1>10, Opens
<1>12. upload' = [upload EXCEPT ![w] = None] /\ call' = [call EXCEPT ![w] = None]
  BY <1>2, WindowTypes
<1>13. left' \in 0..MaxEvents
  BY Spent DEF Sheet!Save
<1>14. im.status # "none"
  BY <1>8
<1> HIDE DEF f
<1> QED BY <1>1, <1>2, <1>6, <1>9, <1>11, <1>12, <1>13, <1>14, WindowMoves

\* The commit itself: every row of the import that was shown, once.
LEMMA CommitEndStep ==
  ASSUME Sheet!ExcelAssumption, Sheet!IInv, NEW w \in Windows, Sheet!CommitEnds(w)
  PROVE  Sheet!IInv'
<1> DEFINE f == call[w].file
           v == file[f].version + 1
           rows == [i \in DOMAIN file[f].rows |->
                      [file[f].rows[i] EXCEPT !.version = file[f].rows[i].version + 1]]
           done == Sheet!Committed(file[f])
           Stored == /\ file' = [file EXCEPT ![f] = file'[f]]
                     /\ \/ file'[f] = file[f]
                        \/ /\ Sheet!Import(file'[f]) /\ Sheet!Checked(file'[f])
                           /\ file'[f].status # "none"
                           /\ file[f].version < file'[f].version
           Answered(key, shown) == [page EXCEPT ![w] = [page[w] EXCEPT !.key = key, !.shown = shown]]
<1>1. /\ call[w] # None /\ f \in Files /\ f # None /\ f = page[w].file /\ upload[w] = None
      /\ Sheet!Window(upload[w], page[w], call[w]) /\ Sheet!Told(upload[w], page[w], call[w], file)
      /\ Sheet!Import(file[f]) /\ Sheet!Checked(file[f]) /\ Sheet!AsOld(page[w].shown, file[f])
  <2>1. call[w] # None /\ Sheet!Window(upload[w], page[w], call[w])
        /\ Sheet!Told(upload[w], page[w], call[w], file)
    BY WindowTypes DEF Sheet!CommitEnds
  <2>2. f \in Files /\ f # None
    BY <2>1 DEF Sheet!Window, Sheet!ExcelAssumption
  <2>3. f = page[w].file /\ upload[w] = None
    BY <2>1 DEF Sheet!Window, Sheet!Told
  <2> QED BY <2>1, <2>2, <2>3, WindowTypes DEF Sheet!Told
<1>2. /\ call' = [call EXCEPT ![w] = None] /\ upload' = [upload EXCEPT ![w] = None]
         /\ UNCHANGED book
      /\ file = [file EXCEPT ![f] = file[f]]
  BY <1>1, WindowTypes DEF Sheet!CommitEnds
<1>3. left' \in 0..MaxEvents
  BY Spent DEF Sheet!CommitEnds
<1>4. ASSUME Stored, NEW key \in {"completed", "failed"}, NEW shown \in {page[w].shown, file'[f]},
             page' = Answered(key, shown)
      PROVE  Sheet!IInv'
  <2> DEFINE p == [page[w] EXCEPT !.key = key, !.shown = shown]
  <2>1. Sheet!Import(file'[f]) /\ file'[f].status # "none"
    BY <1>1, <1>4 DEF Sheet!IInv, Sheet!TypeOK, Sheet!AsOld
  <2>2. /\ p \in [file: Files \union {None}, shown: {shown}, ack: BOOLEAN,
                   key: {None, "processing", "completed", "failed"}]
        /\ p.file = f /\ p.shown = shown
    BY <1>1 DEF Sheet!Window
  <2>3. Sheet!Window(None, p, None)
    BY <1>1, <1>4, <2>1, <2>2 DEF Sheet!Window
  <2>4. Sheet!AsOld(shown, file'[f])
    <3>1. CASE shown = file'[f]
      BY <2>1, <3>1 DEF Sheet!AsOld, Sheet!Import
    <3>2. CASE shown = page[w].shown
      <4>1. shown.version \in Nat /\ file[f].version \in Nat /\ file'[f].version \in Nat
        BY <1>1, <2>1, <3>2 DEF Sheet!Window, Sheet!Import
      <4> QED BY <1>1, <1>4, <2>1, <3>2, <4>1 DEF Sheet!AsOld
    <3> QED BY <3>1, <3>2
  <2> HIDE DEF p
  <2>5. Sheet!Told(None, p, None, file')
    BY <1>1, <2>2, <2>4 DEF Sheet!Told
  <2> QED BY <1>1, <1>2, <1>3, <1>4, <2>3, <2>5, WindowMoves DEF p
<1>5. CASE /\ file[f].status # "committed" /\ ~Sheet!Accepts(file[f], call[w])
           /\ page' = [page EXCEPT ![w].key = "failed"] /\ UNCHANGED file
  <2>1. page' = Answered("failed", page[w].shown)
    <3>1. page = [x \in Windows |-> page[x]]
      BY DEF Sheet!IInv, Sheet!TypeOK
    <3>2. page[w] \in [file: Files \union {None}, shown: {page[w].shown}, ack: BOOLEAN,
                       key: {None, "processing", "completed", "failed"}]
      BY <1>1 DEF Sheet!Window
    <3> QED BY <1>5, <3>1, <3>2
  <2>2. Stored
    <3>1. file' = file
      BY <1>5
    <3>2. file'[f] = file[f]
      BY <3>1
    <3>3. file' = [file EXCEPT ![f] = file'[f]]
      BY <1>1, <3>1 DEF Sheet!IInv, Sheet!TypeOK
    <3> HIDE DEF f
    <3> QED BY <3>2, <3>3
  <2> HIDE DEF f, Stored, Answered
  <2>3. \A key \in {"completed", "failed"}, shown \in {page[w].shown, file'[f]} :
          page' = Answered(key, shown) => Sheet!IInv'
    BY <1>4, <2>2
  <2>4. page[w].shown \in {page[w].shown, file'[f]} /\ "failed" \in {"completed", "failed"}
    OBVIOUS
  <2> QED BY <2>1, <2>3, <2>4
<1>6. ASSUME \/ page' = [page EXCEPT ![w].key = "completed", ![w].shown = file'[f]]
             \/ page' = [page EXCEPT ![w].key = "completed"]
      PROVE  \E shown \in {page[w].shown, file'[f]} : page' = Answered("completed", shown)
  <2>1. page' = [page EXCEPT ![w].key = "completed"] =>
          page' = Answered("completed", page[w].shown)
    BY <1>1 DEF Sheet!IInv, Sheet!TypeOK, Sheet!Window
  <2>2. page' = [page EXCEPT ![w].key = "completed", ![w].shown = file'[f]] =>
          page' = Answered("completed", file'[f])
    BY DEF Sheet!IInv, Sheet!TypeOK
  <2> QED BY <1>6, <2>1, <2>2
<1>7. CASE /\ file[f].status = "committed" /\ UNCHANGED file
           /\ \/ page' = [page EXCEPT ![w].key = "completed", ![w].shown = file'[f]]
              \/ page' = [page EXCEPT ![w].key = "completed"]
  <2>1. Stored
    <3>1. file' = file
      BY <1>7
    <3>2. file'[f] = file[f]
      BY <3>1
    <3>3. file' = [file EXCEPT ![f] = file'[f]]
      BY <1>1, <3>1 DEF Sheet!IInv, Sheet!TypeOK
    <3> HIDE DEF f
    <3> QED BY <3>2, <3>3
  <2>2. PICK shown \in {page[w].shown, file'[f]} : page' = Answered("completed", shown)
    BY <1>6, <1>7
  <2> HIDE DEF f, Stored, Answered
  <2>3. \A key \in {"completed", "failed"} : page' = Answered(key, shown) => Sheet!IInv'
    BY <1>4, <2>1
  <2> QED BY <2>2, <2>3
<1>8. CASE /\ file[f].status # "committed" /\ Sheet!Accepts(file[f], call[w])
           /\ file' = [file EXCEPT ![f] = Sheet!Committed(file[f])]
           /\ \/ page' = [page EXCEPT ![w].key = "completed", ![w].shown = file'[f]]
              \/ page' = [page EXCEPT ![w].key = "completed"]
  <2>1. file' = [file EXCEPT ![f] = done] /\ file'[f] = done
    BY <1>1, <1>8 DEF Sheet!IInv, Sheet!TypeOK
  <2>2. done = [status |-> "committed", version |-> file[f].version + 1, diags |-> file[f].diags,
                rows |-> [i \in DOMAIN file[f].rows |->
                            [file[f].rows[i] EXCEPT !.version = file[f].rows[i].version + 1]]]
    <3>1. file[f] = [status |-> file[f].status, version |-> file[f].version, diags |-> file[f].diags,
                     rows |-> file[f].rows]
      BY <1>1 DEF Sheet!Import
    <3>2. done = [file[f] EXCEPT !.status = "committed", !.version = v, !.rows = rows]
      BY DEF Sheet!Committed
    <3> HIDE DEF v, rows, done
    <3>3. done = [status |-> "committed", version |-> v, diags |-> file[f].diags, rows |-> rows]
      BY <3>1, <3>2, RowsReplaced
    <3> QED BY <3>3 DEF v, rows
  <2> HIDE DEF done
  <2>3. ASSUME NEW i \in DOMAIN file[f].rows
        PROVE  /\ Sheet!Row(done.rows[i]) /\ done.rows[i].action = file[f].rows[i].action
               /\ done.rows[i].diags = file[f].rows[i].diags
               /\ Sheet!Sound(file[f].rows[i]) => Sheet!Sound(done.rows[i])
    <3> DEFINE r == file[f].rows[i]  r2 == done.rows[i]
    <3>1. Sheet!Row(r) /\ r2 = [r EXCEPT !.version = r.version + 1]
      BY <1>1, <2>2 DEF Sheet!Import
    <3> HIDE DEF r, r2
    <3>2. /\ r2 = [sheet |-> r.sheet, kind |-> r.kind, norm |-> r.norm, diags |-> r.diags,
                    candidates |-> r.candidates, matched |-> r.matched, version |-> r.version + 1,
                    action |-> r.action]
      BY <3>1 DEF Sheet!Row
    <3>3. Sheet!Row(r2) /\ r2.action = r.action /\ r2.diags = r.diags
          /\ (Sheet!Sound(r) => Sheet!Sound(r2))
      BY <3>1, <3>2 DEF Sheet!Row, Sheet!Sound
    <3> QED BY <3>3 DEF r, r2
  <2>4. /\ DOMAIN done.rows = DOMAIN file[f].rows /\ done.status = "committed"
           /\ done.diags = file[f].diags
        /\ done.version = file[f].version + 1 /\ file[f].version \in Nat
        /\ done.rows = [i \in DOMAIN done.rows |-> done.rows[i]]
        /\ done = [status |-> done.status, version |-> done.version, diags |-> done.diags,
                   rows |-> done.rows]
    BY <1>1, <2>2 DEF Sheet!Import
  <2>5. Sheet!Import(done) /\ file[f].version < done.version
    BY <2>3, <2>4 DEF Sheet!Import
  <2>6. Sheet!Actionable(done) = Sheet!Actionable(file[f])
        /\ Sheet!Unresolved(done) = Sheet!Unresolved(file[f])
    <3>1. Sheet!Actionable(done) = Sheet!Actionable(file[f])
      BY <2>3, <2>4 DEF Sheet!Actionable
    <3>2. \A i \in Sheet!Actionable(done) : done.rows[i].diags = file[f].rows[i].diags
      BY <2>3, <2>4 DEF Sheet!Actionable
    <3>3. Sheet!Diagnostics(done) = Sheet!Diagnostics(file[f])
      <4>1. {done.rows[i].diags : i \in Sheet!Actionable(done)} =
              {file[f].rows[i].diags : i \in Sheet!Actionable(file[f])}
        BY <3>1, <3>2
      <4> QED BY <2>4, <4>1 DEF Sheet!Diagnostics
    <3> QED BY <3>1, <3>3 DEF Sheet!Unresolved
  <2>7. Sheet!Unresolved(done) = {}
    BY <1>8, <2>6 DEF Sheet!Accepts
  <2>8. Sheet!Checked(done)
    BY <1>1, <2>3, <2>4, <2>7 DEF Sheet!Checked, Sheet!Clean
  <2>9. PICK shown \in {page[w].shown, file'[f]} : page' = Answered("completed", shown)
    BY <1>6, <1>8
  <2>10. Stored
    BY <2>1, <2>4, <2>5, <2>8
  <2> HIDE DEF f, Stored, Answered
  <2> QED BY <1>4, <2>9, <2>10
<1> QED BY <1>5, <1>7, <1>8 DEF Sheet!CommitEnds

\* Jira is synchronised, or the service dies with what was on its way.
LEMMA OtherSteps ==
  ASSUME Sheet!ExcelAssumption, Sheet!IInv,
         Sheet!Crash \/ (\E j \in Jira : Sheet!JiraSync(j)) \/ UNCHANGED Sheet!vars
  PROVE  Sheet!IInv'
<1>1. UNCHANGED <<book, file, page>> /\ left' \in 0..MaxEvents
  BY Spent DEF Sheet!Crash, Sheet!JiraSync, Sheet!vars
<1>2. ASSUME upload' = [w \in Windows |-> None], call' = [w \in Windows |-> None]
      PROVE  Sheet!IInv'
  <2>1. \A w \in Windows : Sheet!Window(None, page[w], None)
        /\ Sheet!Told(None, page[w], None, file)
    BY WindowTypes DEF Sheet!Window, Sheet!Told
  <2> QED BY <1>1, <1>2, <2>1 DEF Sheet!IInv, Sheet!TypeOK, Sheet!InStep
<1>3. CASE UNCHANGED <<upload, call>>
  BY <1>1, <1>3 DEF Sheet!IInv, Sheet!TypeOK, Sheet!InStep
<1> QED BY <1>2, <1>3 DEF Sheet!Crash, Sheet!JiraSync, Sheet!vars

\* Every step keeps the invariant.
LEMMA ImportPreserved ==
  ASSUME Sheet!ExcelAssumption, Sheet!IInv, [Sheet!Next]_Sheet!vars
  PROVE  Sheet!IInv'
BY UploadStep, ChooseStep, UploadEndSteps, RefetchStep, TickStep, CommitStep, CommitEndStep,
   SaveStep,
   OtherSteps DEF Sheet!Next

\* An import that is committed has no finding left, and what has none is sound.
LEMMA SoundWhenCommitted ==
  ASSUME Sheet!IInv
  PROVE  Sheet!CommittedIsSound
<1> SUFFICES ASSUME NEW f \in Files, file[f].status = "committed",
                    NEW i \in Sheet!Actionable(file[f])
             PROVE  Sheet!Sound(file[f].rows[i])
  BY DEF Sheet!CommittedIsSound
<1>1. i \in DOMAIN file[f].rows /\ file[f].rows[i].action # "skip" /\ Sheet!Checked(file[f])
  BY DEF Sheet!Actionable, Sheet!IInv, Sheet!InStep
<1>2. \A d \in file[f].rows[i].diags : d.sev \notin {"blocking", "conflict"}
  <2>1. file[f].rows[i].diags \subseteq Sheet!Diagnostics(file[f])
    BY DEF Sheet!Diagnostics
  <2> QED BY <1>1, <2>1 DEF Sheet!Checked, Sheet!Unresolved
<1> QED BY <1>1, <1>2 DEF Sheet!Checked, Sheet!Clean

\* The types, the findings of every row and the versions that windows know, in every state
\* (excel-import-preview.service.ts, excel-import-commit.service.ts, ExcelImportModal.tsx).
THEOREM ImportInvariant ==
  ASSUME Sheet!ExcelAssumption
  PROVE  Sheet!Spec => []Sheet!IInv
<1>1. Sheet!Init => Sheet!IInv
  BY ImportStarts
<1>2. Sheet!IInv /\ [Sheet!Next]_Sheet!vars => Sheet!IInv'
  BY ImportPreserved
<1> QED BY <1>1, <1>2, PTL DEF Sheet!Spec

\* What the service stores and the windows show is of its type.
THEOREM ImportTypeCorrect ==
  ASSUME Sheet!ExcelAssumption
  PROVE  Sheet!Spec => []Sheet!TypeOK
<1>1. Sheet!IInv => Sheet!TypeOK
  BY DEF Sheet!IInv
<1> QED BY <1>1, ImportInvariant, PTL

\* A committed row has a parent, a title of allowed length and dates in order, and supplements
\* only a candidate, as parsed or as corrected (parseSheet and revalidate check for themselves).
THEOREM RowsAreSound ==
  ASSUME Sheet!ExcelAssumption
  PROVE  Sheet!Spec => []Sheet!CommittedIsSound
<1> QED BY SoundWhenCommitted, ImportInvariant, PTL

\* Only a commit turns a preview into tasks, and it sends the version of its window: the same
\* version has the same rows.
LEMMA ShowsWhatItCommits ==
  ASSUME Sheet!ExcelAssumption, Sheet!IInv, [Sheet!Next]_Sheet!vars
  PROVE  Sheet!CommitsAsShown
<1> SUFFICES ASSUME NEW f \in Files, file[f].status = "preview_ready", file'[f].status = "committed"
             PROVE  \E w \in Windows :
                      /\ call[w] # None /\ call'[w] = None /\ call[w].file = f
                         /\ call[w].rows = file[f].rows
                      /\ (Sheet!WarningsOf(file[f]) # {} => call[w].ack)
  BY DEF Sheet!CommitsAsShown
<1>1. file'[f] # file[f]
  OBVIOUS
<1>2. ASSUME NEW w \in Windows, NEW im, Sheet!Store(w, im) PROVE FALSE
  <2>1. file' = [file EXCEPT ![upload[w].file] = im] /\ file[upload[w].file].status = "none"
    BY <1>1, <1>2 DEF Sheet!Store
  <2> QED BY <1>1, <2>1 DEF Sheet!IInv, Sheet!TypeOK
<1>3. ASSUME NEW w \in Windows, NEW i, NEW action, NEW matched, NEW e, NEW touched,
             Sheet!Save(w, i, action, matched, e, touched)
      PROVE  FALSE
  <2> DEFINE row == Sheet!Resolved(file[page[w].file].rows[i], action, matched, e, touched)
  <2>1. file' = [file EXCEPT ![page[w].file].version = @ + 1, ![page[w].file].rows[i] = row]
        /\ file[page[w].file].status = "preview_ready"
    BY <1>3 DEF Sheet!Save
  <2> HIDE DEF row
  <2>2. file'[f].status = file[f].status
    BY <2>1 DEF Sheet!IInv, Sheet!TypeOK, Sheet!Import
  <2> QED BY <2>2
<1>4. ASSUME NEW w \in Windows, Sheet!CommitEnds(w)
      PROVE  /\ call[w] # None /\ call'[w] = None /\ call[w].file = f /\ call[w].rows = file[f].rows
             /\ (Sheet!WarningsOf(file[f]) # {} => call[w].ack)
  <2>1. call[w] # None /\ Sheet!Told(upload[w], page[w], call[w], file)
        /\ Sheet!Window(upload[w], page[w], call[w])
    BY <1>4, WindowTypes DEF Sheet!CommitEnds
  <2>2. call'[w] = None
    BY <1>4 DEF Sheet!CommitEnds, Sheet!IInv, Sheet!TypeOK
  <2>3. f = call[w].file /\ Sheet!Accepts(file[f], call[w])
    BY <1>1, <1>4 DEF Sheet!CommitEnds, Sheet!IInv, Sheet!TypeOK
  <2> QED BY <2>1, <2>2, <2>3 DEF Sheet!Told, Sheet!AsOld, Sheet!Accepts
<1> QED BY <1>1, <1>2, <1>3, <1>4
        DEF Sheet!Next, Sheet!vars, Sheet!JiraSync, Sheet!Upload, Sheet!Choose, Sheet!UploadEnds,
        Sheet!UploadFails, Sheet!Refetch, Sheet!Tick, Sheet!Commit, Sheet!Crash

\* What is committed are the rows a window showed when the user confirmed, with the warnings
\* acknowledged (ExcelImportModal.tsx, commit with previewVersion).
THEOREM CommitsWhatIsShown ==
  ASSUME Sheet!ExcelAssumption
  PROVE  Sheet!Spec => Sheet!CommittedAsShown
<1>1. Sheet!IInv /\ [Sheet!Next]_Sheet!vars => [Sheet!CommitsAsShown]_Sheet!vars
  BY ShowsWhatItCommits
<1> QED BY <1>1, ImportInvariant, PTL DEF Sheet!Spec, Sheet!CommittedAsShown
=============================================================================
