--------------------------- MODULE EvidenceProofs ---------------------------
(* Type correctness of Evidence, that no decision stands on evidence the     *)
(* user has not seen, and that evidence tells what a listing of everything   *)
(* would have told, for every set of sources, projects and texts.            *)
EXTENDS Evidence, TLAPS

\* The two halves of DecisionIsCurrent.
ConfirmedCurrent ==
  \A s \in Sources : link[s] # None /\ link[s].status = "confirmed" /\ link[s].valid =>
    link[s].hash = evidence[s].content

PageCurrent ==
  \A s \in Sources :
    page[s] # None /\ page[s].link.version = link[s].version /\ InStep(page[s]) =>
      page[s].content = evidence[s].content

LEMMA Halves == DecisionIsCurrent <=> ConfirmedCurrent /\ PageCurrent
BY DEF DecisionIsCurrent, ConfirmedCurrent, PageCurrent

\* Nothing is no row, link or text.
LEMMA Somethings ==
  ASSUME EvidenceAssumption
  PROVE  /\ None \notin Texts /\ None \notin Row /\ None \notin EvidenceRow
         /\ None \notin Link /\ None \notin Shown
BY DEF EvidenceAssumption

----------------------------------------------------------------------------
(* Steps that change links only *)

\* What a step may do to a link: it counts a change of what the user decided.
Follows(new, old) ==
  /\ new \in Link
  /\ old # None =>
       /\ old.version <= new.version
       /\ new.version = old.version =>
            new.status = old.status /\ new.valid = old.valid /\ new.hash = old.hash

LinkMoves(s) ==
  \/ link'[s] = link[s]
  \/ /\ Follows(link'[s], link[s])
     /\ link'[s].status = "suggested" => link'[s].method # "manual"
     /\ evidence[s] # None
     /\ link'[s].status = "confirmed" /\ link'[s].valid =>
          link'[s].hash = evidence[s].content

Kept == UNCHANGED <<outside, newer, cache, gone, sync, evidence, seen>>

LEMMA LinkTypes ==
  ASSUME EvidenceAssumption, IInv, link' \in [Sources -> Link \union {None}],
         \A s \in Sources : LinkMoves(s)
  PROVE  /\ \A s \in Sources : link[s] # None => link'[s] # None
         /\ \A s \in Sources : link'[s] # None => evidence[s] # None
<1>1. link \in [Sources -> Link \union {None}]
      /\ \A s \in Sources : link[s] # None => evidence[s] # None
  BY DEF IInv, TypeOK
<1> QED
  BY <1>1, Somethings DEF LinkMoves, Follows

LEMMA LinkSteps ==
  ASSUME EvidenceAssumption, IInv, Kept,
         link' \in [Sources -> Link \union {None}],
         \A s \in Sources : LinkMoves(s)
  PROVE  /\ Backed' /\ RuleSuggests' /\ ReadSoFar' /\ Watermark' /\ EvidenceIsWhole' /\ ConfirmedCurrent'
         /\ \A s \in Sources : link'[s] # None => evidence'[s] # None
         /\ page' = page => PageBehind' /\ PageCurrent'
<1>0. link \in [Sources -> Link \union {None}] /\ page \in [Sources -> Shown \union {None}]
  BY DEF IInv, TypeOK
<1>1. Backed' /\ EvidenceIsWhole'
  BY DEF IInv, Kept, Backed, EvidenceIsWhole
<1>2. ReadSoFar' /\ Watermark'
  BY DEF IInv, Kept, outside, ReadSoFar, Watermark, Unread, Told
<1>3. RuleSuggests'
  BY DEF IInv, RuleSuggests, LinkMoves
<1>4. ConfirmedCurrent'
  BY Halves DEF IInv, Kept, ConfirmedCurrent, LinkMoves
<1>5. \A s \in Sources : link'[s] # None => evidence'[s] # None
  BY LinkTypes DEF Kept
<1>6. ASSUME page' = page PROVE PageBehind' /\ PageCurrent'
  <2>1. ASSUME NEW s \in Sources, page[s] # None
        PROVE  /\ link'[s] # None /\ page[s].link.version <= link'[s].version
               /\ page[s].link.version = link'[s].version =>
                    /\ page[s].link.status = link'[s].status
                    /\ page[s].link.valid = link'[s].valid
                    /\ page[s].link.hash = link'[s].hash
                    /\ page[s].link.version = link[s].version
    <3>1. /\ link[s] # None /\ page[s].link.version <= link[s].version
          /\ page[s].link.version = link[s].version =>
               /\ page[s].link.status = link[s].status /\ page[s].link.valid = link[s].valid
               /\ page[s].link.hash = link[s].hash
      BY <2>1 DEF IInv, PageBehind
    <3>2. page[s].link.version \in Nat /\ link[s].version \in Nat
      BY <1>0, <2>1, <3>1 DEF Shown, Link
    <3>3. CASE link'[s] = link[s]
      BY <3>1, <3>3
    <3>4. CASE Follows(link'[s], link[s])
      <4>1. link'[s].version \in Nat /\ link'[s] # None
        BY <3>4, Somethings DEF Follows, Link
      <4> QED
        BY <3>1, <3>2, <3>4, <4>1 DEF Follows
    <3> QED
      BY <3>3, <3>4 DEF LinkMoves
  <2>2. PageBehind'
    BY <1>6, <2>1 DEF PageBehind
  <2>3. PageCurrent'
    BY <1>6, <2>1, Halves DEF IInv, PageCurrent, Kept
  <2> QED
    BY <2>2, <2>3
<1> QED
  BY <1>1, <1>2, <1>3, <1>4, <1>5, <1>6

\* A call of the user or the schedule: links change and the page stays as it is.
LEMMA LinksOnly ==
  ASSUME EvidenceAssumption, IInv, Kept, page' = page,
         budget' \in [changes: Nat, runs: Nat, decisions: Nat],
         link' \in [Sources -> Link \union {None}],
         \A s \in Sources : LinkMoves(s)
  PROVE  IInv'
<1>1. /\ Backed' /\ RuleSuggests' /\ ReadSoFar' /\ Watermark' /\ EvidenceIsWhole'
      /\ PageBehind' /\ ConfirmedCurrent' /\ PageCurrent'
      /\ \A s \in Sources : link'[s] # None => evidence'[s] # None
  BY LinkSteps
<1>2. DecisionIsCurrent'
  BY <1>1 DEF DecisionIsCurrent, ConfirmedCurrent, PageCurrent
<1>3. TypeOK'
  BY <1>1 DEF IInv, TypeOK, Kept, outside
<1> QED
  BY <1>1, <1>2, <1>3 DEF IInv

\* Fields of a link that a decision sets.
LEMMA LinkFields ==
  ASSUME NEW l \in Link
  PROVE  /\ l.version \in Nat /\ l.hash \in Content /\ l.valid \in BOOLEAN
         /\ l.status \in {"suggested", "confirmed", "rejected", "expired"}
         /\ l.method \in Methods /\ l.expires \in Deadlines
BY DEF Link

LEMMA Bumped ==
  ASSUME NEW l \in Link
  PROVE  /\ [l EXCEPT !.version = @ + 1] \in Link
         /\ [l EXCEPT !.version = @ + 1].version = l.version + 1
         /\ [l EXCEPT !.version = @ + 1].status = l.status
         /\ [l EXCEPT !.version = @ + 1].valid = l.valid
         /\ [l EXCEPT !.version = @ + 1].hash = l.hash
         /\ [l EXCEPT !.version = @ + 1].method = l.method
<1>1. l.version + 1 \in Nat
  BY LinkFields
<1> QED
  BY <1>1 DEF Link

LEMMA Spending ==
  ASSUME IInv, NEW f \in {"changes", "runs", "decisions"}, Spends(f)
  PROVE  budget' \in [changes: Nat, runs: Nat, decisions: Nat]
<1>1. budget \in [changes: Nat, runs: Nat, decisions: Nat] /\ budget[f] \in Nat
      /\ budget[f] > 0
  BY DEF IInv, TypeOK, Spends
<1>2. budget[f] - 1 \in Nat
  BY <1>1
<1> QED
  BY <1>1, <1>2 DEF Spends

\* A decision on s: the new link, whatever it is, has the next version.
LEMMA Deciding ==
  ASSUME EvidenceAssumption, IInv, NEW s \in Sources, link[s] # None,
         NEW st \in {"suggested", "confirmed", "rejected", "expired"},
         NEW v \in BOOLEAN, NEW h \in Content, NEW l,
         l = [link[s] EXCEPT !.status = st, !.valid = v, !.hash = h],
         st = "suggested" => link[s].method # "manual",
         st = "confirmed" /\ v => h = evidence[s].content,
         Decides(s, l)
  PROVE  IInv'
<1>0. link \in [Sources -> Link \union {None}] /\ link[s] \in Link /\ evidence[s] # None
  BY DEF IInv, TypeOK
<1> DEFINE n == [l EXCEPT !.version = @ + 1]
<1>1. /\ n \in Link /\ n.version = link[s].version + 1 /\ n.status = st /\ n.valid = v
      /\ n.hash = h /\ n.method = link[s].method
  <2>1. /\ l \in Link /\ l.version = link[s].version /\ l.status = st /\ l.valid = v
        /\ l.hash = h /\ l.method = link[s].method
    BY <1>0 DEF Link
  <2> QED
    BY <2>1, Bumped
<1>2. link' = [link EXCEPT ![s] = n] /\ Kept /\ page' = page
  BY DEF Decides, Kept, outside
<1> HIDE DEF n
<1>3. link' \in [Sources -> Link \union {None}]
  BY <1>0, <1>1, <1>2
<1>4. link[s].version \in Nat
  BY <1>0, LinkFields
<1>5. LinkMoves(s)
  BY <1>0, <1>1, <1>2, <1>4 DEF LinkMoves, Follows
<1>6. \A t \in Sources : LinkMoves(t)
  BY <1>0, <1>2, <1>5 DEF LinkMoves
<1>7. budget' \in [changes: Nat, runs: Nat, decisions: Nat]
  BY Spending DEF Decides
<1> QED
  BY <1>2, <1>3, <1>6, <1>7, LinksOnly

\* The page shows a link: the task has it.
LEMMA Shows ==
  ASSUME EvidenceAssumption, IInv, NEW s \in Sources, page[s] # None
  PROVE  /\ link[s] \in Link /\ link[s] # None
         /\ evidence[s] \in EvidenceRow /\ evidence[s].content \in Content
BY DEF IInv, TypeOK, PageBehind, EvidenceRow

LEMMA ConfirmStep ==
  ASSUME EvidenceAssumption, IInv, NEW s \in Sources, Confirm(s) PROVE IInv'
<1>1. link[s] # None /\ evidence[s].content \in Content
  BY Shows DEF Confirm, Accepted
<1>2. Decides(s, ConfirmedNow(s))
  BY DEF Confirm
<1> QED
  BY <1>1, <1>2, Deciding DEF ConfirmedNow

LEMMA RejectStep ==
  ASSUME EvidenceAssumption, IInv, NEW s \in Sources, Reject(s) PROVE IInv'
<1>1. link[s] # None /\ evidence[s].content \in Content
  BY Shows DEF Reject, Accepted
<1> QED
  BY <1>1, Deciding DEF Reject

LEMMA RevokeStep ==
  ASSUME EvidenceAssumption, IInv, NEW s \in Sources, Revoke(s) PROVE IInv'
<1>1. link[s] # None /\ link[s] \in Link
  BY Shows DEF Revoke, Accepted
<1> DEFINE st == IF link[s].method = "manual" \/ evidence[s].availability # "available"
                 THEN "expired" ELSE "suggested"
<1>2. st \in {"expired", "suggested"} /\ (st = "suggested" => link[s].method # "manual")
  OBVIOUS
<1>3. Decides(s, [link[s] EXCEPT !.valid = TRUE, !.status = st])
  BY DEF Revoke
<1> HIDE DEF st
<1>4. [link[s] EXCEPT !.valid = TRUE, !.status = st]
        = [link[s] EXCEPT !.status = st, !.valid = TRUE, !.hash = link[s].hash]
  BY <1>1 DEF Link
<1>5. link[s].hash \in Content
  BY <1>1, LinkFields
<1> DEFINE l == [link[s] EXCEPT !.valid = TRUE, !.status = st]
<1> HIDE DEF l
<1>6. l = [link[s] EXCEPT !.status = st, !.valid = TRUE, !.hash = link[s].hash] /\ Decides(s, l)
  BY <1>3, <1>4 DEF l
<1> QED
  BY <1>1, <1>2, <1>5, <1>6, Deciding

LEMMA CreateManualStep ==
  ASSUME EvidenceAssumption, IInv, NEW s \in Sources, CreateManual(s) PROVE IInv'
<1>0. link \in [Sources -> Link \union {None}] /\ link[s] = None /\ evidence[s] # None
      /\ evidence[s].content \in Content
  BY DEF IInv, TypeOK, CreateManual, EvidenceRow
<1>1. PICK d \in {"never", "ahead"} :
        link' = [link EXCEPT ![s] =
          [status |-> "confirmed", method |-> "manual", hash |-> evidence[s].content,
           valid |-> TRUE, expires |-> d, version |-> 1]]
  BY DEF CreateManual
<1> DEFINE n == [status |-> "confirmed", method |-> "manual", hash |-> evidence[s].content,
                 valid |-> TRUE, expires |-> d, version |-> 1]
<1>2. n \in Link /\ n.status = "confirmed" /\ n.hash = evidence[s].content
  BY <1>0 DEF Link, Methods, Deadlines
<1>3. link' = [link EXCEPT ![s] = n]
  BY <1>1
<1> HIDE DEF n
<1>4. link' \in [Sources -> Link \union {None}] /\ \A t \in Sources : LinkMoves(t)
  BY <1>0, <1>2, <1>3 DEF LinkMoves, Follows
<1>5. Kept /\ page' = page /\ budget' \in [changes: Nat, runs: Nat, decisions: Nat]
  BY Spending DEF CreateManual, Kept, outside
<1> QED
  BY <1>4, <1>5, LinksOnly

LEMMA BatchConfirmStep ==
  ASSUME EvidenceAssumption, IInv, BatchConfirm PROVE IInv'
<1>0. link \in [Sources -> Link \union {None}]
  BY DEF IInv, TypeOK
<1>1. PICK S \in SUBSET Sources :
        /\ \A s \in S : Accepted(s)
        /\ Spends("decisions")
        /\ link' = [s \in Sources |-> IF s \in S THEN [ConfirmedNow(s) EXCEPT !.version = @ + 1]
                                      ELSE link[s]]
        /\ UNCHANGED <<outside, newer, cache, gone, sync, evidence, page, seen>>
  BY DEF BatchConfirm
<1>2. ASSUME NEW s \in S PROVE LinkMoves(s) /\ link'[s] \in Link
  <2>1. link[s] \in Link /\ link[s] # None /\ evidence[s] # None /\ evidence[s].content \in Content
    BY <1>1, Shows DEF Accepted, IInv, TypeOK
  <2> DEFINE n == [ConfirmedNow(s) EXCEPT !.version = @ + 1]
  <2>2. /\ n \in Link /\ n.version = link[s].version + 1 /\ n.status = "confirmed"
        /\ n.hash = evidence[s].content
    <3>1. /\ ConfirmedNow(s) \in Link /\ ConfirmedNow(s).version = link[s].version
          /\ ConfirmedNow(s).status = "confirmed" /\ ConfirmedNow(s).hash = evidence[s].content
      BY <2>1 DEF ConfirmedNow, Link
    <3> QED
      BY <3>1, Bumped
  <2>3. link'[s] = n
    BY <1>1
  <2>4. link[s].version \in Nat
    BY <2>1, LinkFields
  <2> HIDE DEF n
  <2> QED
    BY <2>1, <2>2, <2>3, <2>4 DEF LinkMoves, Follows
<1>3. \A s \in Sources \ S : link'[s] = link[s]
  BY <1>1
<1>4. link' \in [Sources -> Link \union {None}]
  <2>1. \A s \in Sources : link'[s] \in Link \union {None}
    BY <1>0, <1>2, <1>3
  <2> QED
    BY <1>1, <2>1
<1>5. \A s \in Sources : LinkMoves(s)
  BY <1>2, <1>3 DEF LinkMoves
<1>6. Kept /\ page' = page /\ budget' \in [changes: Nat, runs: Nat, decisions: Nat]
  BY <1>1, Spending DEF Kept
<1> QED
  BY <1>4, <1>5, <1>6, LinksOnly

\* Links that are due expire.
LEMMA Expiring ==
  ASSUME EvidenceAssumption, IInv, link' = Expired
  PROVE  /\ link' \in [Sources -> Link \union {None}]
         /\ \A s \in Sources : LinkMoves(s)
<1>0. link \in [Sources -> Link \union {None}]
      /\ \A s \in Sources : link[s] # None => evidence[s] # None
  BY DEF IInv, TypeOK
<1>1. ASSUME NEW s \in Sources PROVE LinkMoves(s) /\ link'[s] \in Link \union {None}
  <2>1. CASE ~Due(link[s])
    BY <1>0, <2>1 DEF Expired, LinkMoves
  <2>2. CASE Due(link[s])
    <3>1. link[s] \in Link /\ link[s] # None /\ evidence[s] # None
      BY <1>0, <2>2 DEF Due
    <3> DEFINE n == [link[s] EXCEPT !.status = "expired", !.valid = TRUE, !.version = @ + 1]
    <3>2. n \in Link /\ n.version = link[s].version + 1 /\ n.status = "expired"
      <4>1. link[s].version + 1 \in Nat
        BY <3>1, LinkFields
      <4> QED
        BY <3>1, <4>1 DEF Link
    <3>3. link'[s] = n
      BY <2>2 DEF Expired
    <3>4. link[s].version \in Nat
      BY <3>1, LinkFields
    <3> HIDE DEF n
    <3> QED
      BY <3>1, <3>2, <3>3, <3>4 DEF LinkMoves, Follows
  <2> QED
    BY <2>1, <2>2
<1> QED
  BY <1>1 DEF Expired

LEMMA ExpireDueLinksStep ==
  ASSUME EvidenceAssumption, IInv, ExpireDueLinks PROVE IInv'
<1>1. Kept /\ page' = page /\ budget' \in [changes: Nat, runs: Nat, decisions: Nat]
      /\ link' = Expired
  BY DEF ExpireDueLinks, Kept, IInv, TypeOK, outside
<1> QED
  BY <1>1, Expiring, LinksOnly

LEMMA DeadlinePassesStep ==
  ASSUME EvidenceAssumption, IInv, NEW s \in Sources, DeadlinePasses(s) PROVE IInv'
<1>0. link \in [Sources -> Link \union {None}] /\ link[s] \in Link /\ evidence[s] # None
  BY DEF IInv, TypeOK, DeadlinePasses
<1>1. Kept /\ page' = page /\ budget' \in [changes: Nat, runs: Nat, decisions: Nat]
      /\ link' = [link EXCEPT ![s].expires = "past"]
  BY DEF DeadlinePasses, Kept, IInv, TypeOK, outside
<1> DEFINE n == [link[s] EXCEPT !.expires = "past"]
<1>2. /\ n \in Link /\ n.version = link[s].version /\ n.status = link[s].status
      /\ n.valid = link[s].valid /\ n.hash = link[s].hash /\ n.method = link[s].method
  BY <1>0 DEF Link, Deadlines
<1>3. link' = [link EXCEPT ![s] = n]
  BY <1>1
<1> HIDE DEF n
<1>4. link' \in [Sources -> Link \union {None}]
  BY <1>0, <1>2, <1>3
<1>5. link[s].version \in Nat /\ RuleSuggests /\ ConfirmedCurrent /\ link[s] # None
  BY <1>0, LinkFields, Halves, Somethings DEF IInv
<1>6. LinkMoves(s)
  BY <1>0, <1>2, <1>3, <1>5 DEF LinkMoves, Follows, RuleSuggests, ConfirmedCurrent
<1>7. \A t \in Sources : LinkMoves(t)
  BY <1>0, <1>3, <1>6 DEF LinkMoves
<1> QED
  BY <1>1, <1>4, <1>7, LinksOnly

\* The page is loaded: it shows the links and the evidence as they are.
LEMMA LoadStep ==
  ASSUME EvidenceAssumption, IInv, Load PROVE IInv'
<1>0. /\ link \in [Sources -> Link \union {None}]
      /\ evidence \in [Sources -> EvidenceRow \union {None}]
      /\ \A s \in Sources : link[s] # None => evidence[s] # None
      /\ budget \in [changes: Nat, runs: Nat, decisions: Nat]
  BY DEF IInv, TypeOK
<1>1. Kept /\ budget' = budget /\ link' = Expired
  BY DEF Load, Kept
<1>2. link' \in [Sources -> Link \union {None}] /\ \A s \in Sources : LinkMoves(s)
  BY <1>1, Expiring
<1>3. /\ Backed' /\ RuleSuggests' /\ ReadSoFar' /\ Watermark' /\ EvidenceIsWhole' /\ ConfirmedCurrent'
      /\ \A s \in Sources : link'[s] # None => evidence'[s] # None
      /\ \A s \in Sources : link[s] # None => link'[s] # None
  BY <1>1, <1>2, LinkSteps, LinkTypes
<1>4. page' = [s \in Sources |-> IF link[s] = None THEN None
                                 ELSE [link |-> link'[s], content |-> evidence[s].content]]
  BY <1>1 DEF Load
<1>5. \A s \in Sources :
        \/ page'[s] = None
        \/ /\ link'[s] # None /\ link'[s] \in Link
           /\ page'[s] = [link |-> link'[s], content |-> evidence[s].content]
           /\ evidence[s].content \in Content
  BY <1>0, <1>2, <1>3, <1>4 DEF EvidenceRow
<1>6. page' \in [Sources -> Shown \union {None}]
  <2>1. ASSUME NEW s \in Sources PROVE page'[s] \in Shown \union {None}
    <3>1. \A l \in Link, c \in Content : [link |-> l, content |-> c] \in Shown
      BY DEF Shown
    <3> QED
      BY <1>5, <3>1
  <2> QED
    BY <1>4, <2>1
<1>7. PageBehind'
  <2>1. ASSUME NEW s \in Sources, page'[s] # None
        PROVE  link'[s] # None /\ page'[s].link = link'[s] /\ link'[s].version \in Nat
    <3>1. /\ link'[s] # None /\ link'[s] \in Link
          /\ page'[s] = [link |-> link'[s], content |-> evidence[s].content]
      BY <1>5, <2>1
    <3> QED
      BY <3>1, LinkFields
  <2>2. \A n \in Nat : n <= n
    OBVIOUS
  <2> QED
    BY <2>1, <2>2 DEF PageBehind
<1>8. PageCurrent'
  <2>1. ASSUME NEW s \in Sources, page'[s] # None
        PROVE  page'[s].content = evidence'[s].content
    <3>1. page'[s] = [link |-> link'[s], content |-> evidence[s].content]
      BY <1>5, <2>1
    <3> QED
      BY <1>1, <3>1 DEF Kept
  <2> QED
    BY <2>1 DEF PageCurrent
<1>9. DecisionIsCurrent'
  BY <1>3, <1>8 DEF DecisionIsCurrent, ConfirmedCurrent, PageCurrent
<1>10. TypeOK'
  BY <1>0, <1>1, <1>2, <1>3, <1>6 DEF IInv, TypeOK, Kept, outside
<1> QED
  BY <1>3, <1>7, <1>9, <1>10 DEF IInv

----------------------------------------------------------------------------
(* The synchronisation *)

LEMMA Elsewhere ==
  ASSUME IInv, UNCHANGED <<evidence, link, page, seen>>,
         gitlab' \in [Sources -> Texts \union {None}],
         scope' \subseteq Projects, gone' \subseteq Projects, newer' \subseteq Sources,
         cache' \in [Sources -> Row \union {None}], sync' \in Sync,
         budget' \in [changes: Nat, runs: Nat, decisions: Nat],
         Backed', ReadSoFar', Watermark'
  PROVE  IInv'
<1>1. TypeOK'
  BY DEF IInv, TypeOK
<1>2. PageBehind' /\ RuleSuggests'
  BY DEF IInv, PageBehind, RuleSuggests
<1>3. DecisionIsCurrent' /\ EvidenceIsWhole'
  BY DEF IInv, DecisionIsCurrent, EvidenceIsWhole, InStep
<1> QED
  BY <1>1, <1>2, <1>3 DEF IInv

LEMMA OutsideStep ==
  ASSUME EvidenceAssumption, IInv,
         (\E s \in Sources : Change(s)) \/ (\E p \in Projects : Rescope(p))
  PROVE  IInv'
<1>0. TypeOK /\ Backed /\ ReadSoFar /\ Watermark
  BY DEF IInv
<1>1. UNCHANGED <<cache, gone, sync, evidence, link, page, seen>> /\ Spends("changes")
  BY DEF Change, Rescope
<1>2. budget' \in [changes: Nat, runs: Nat, decisions: Nat]
  BY <1>1, Spending
<1>3. /\ gitlab' \in [Sources -> Texts \union {None}] /\ scope' \subseteq Projects
      /\ newer' \subseteq Sources
  BY <1>0 DEF TypeOK, Change, Rescope
<1>4. Backed' /\ ReadSoFar'
  BY <1>0, <1>1 DEF Backed, ReadSoFar, Unread, Told
<1>5. ASSUME NEW t \in Sources
      PROVE  /\ gitlab'[t] = gitlab[t] \/ t \in newer'
             /\ t \in newer => t \in newer'
             /\ Kind[t] # "branch" => gitlab'[t] # None
  BY <1>0 DEF TypeOK, Watermark, Change, Rescope
<1>6. Watermark'
  <2>1. \A t \in Sources : Told(t)' <=> Told(t)
    BY <1>1 DEF Told
  <2> QED
    BY <1>0, <1>1, <1>5, <2>1 DEF Watermark, Of
<1> QED
  BY <1>0, <1>1, <1>2, <1>3, <1>4, <1>6, Elsewhere DEF TypeOK

LEMMA SyncFields ==
  ASSUME IInv
  PROVE  /\ sync.pc \in Stages /\ sync.run \in Nat /\ sync.todo \subseteq Projects
         /\ sync.project \in Projects \union {None} /\ sync.touched \subseteq Projects
         /\ sync.failed \in BOOLEAN /\ sync.unsaved \subseteq Sources
         /\ sync.listed \in [Sources -> Texts \union {None}]
BY DEF IInv, TypeOK, Sync

LEMMA SyncStartStep ==
  ASSUME IInv, SyncStart PROVE IInv'
<1>0. TypeOK /\ Backed /\ Watermark
  BY DEF IInv
<1>1. UNCHANGED <<gitlab, scope, newer, cache, gone, evidence, link, page, seen>>
      /\ budget' \in [changes: Nat, runs: Nat, decisions: Nat]
  BY Spending DEF SyncStart, outside
<1>2. /\ sync'.pc = "next" /\ sync'.todo = scope /\ sync'.touched = {}
      /\ sync'.listed = Nothing /\ sync' \in Sync
  <2>1. sync.run + 1 \in Nat /\ Nothing \in [Sources -> Texts \union {None}]
    BY SyncFields DEF Nothing
  <2> QED
    BY <1>0, <2>1 DEF SyncStart, Sync, Stages, TypeOK
<1>3. ReadSoFar'
  BY <1>2 DEF ReadSoFar, Unread, Nothing
<1>4. Backed' /\ Watermark'
  BY <1>0, <1>1, <1>2 DEF Backed, Watermark
<1> QED
  BY <1>0, <1>1, <1>2, <1>3, <1>4, Elsewhere DEF TypeOK

\* A project is resolved once: its sources are still to be read.
LEMMA ResolveStep ==
  ASSUME IInv, NEW p \in Projects, Resolve(p) PROVE IInv'
<1>0. TypeOK /\ Backed /\ ReadSoFar /\ Watermark /\ sync \in Sync
  BY DEF IInv, TypeOK
<1>1. UNCHANGED <<gitlab, scope, newer, cache, evidence, link, page, seen, budget>>
      /\ gone' = gone \ {p}
  BY DEF Resolve, outside
<1>2. /\ sync'.pc = "list" /\ sync'.project = p /\ sync'.todo = sync.todo \ {p}
      /\ sync'.touched = sync.touched \union {p} /\ sync'.listed = sync.listed
      /\ sync'.failed = sync.failed /\ sync' \in Sync
  BY <1>0 DEF Resolve, Sync, Stages
<1>3. ReadSoFar'
  BY <1>0, <1>1, <1>2 DEF ReadSoFar, Unread, Told, Resolve
<1>4. Backed' /\ Watermark'
  BY <1>0, <1>1, <1>2 DEF Backed, Watermark
<1> QED
  BY <1>0, <1>1, <1>2, <1>3, <1>4, Elsewhere DEF TypeOK

LEMMA FetchStep ==
  ASSUME IInv, Fetch PROVE IInv'
<1>0. TypeOK /\ Backed /\ ReadSoFar /\ Watermark /\ sync \in Sync
  BY DEF IInv, TypeOK
<1>1. UNCHANGED <<gitlab, scope, newer, cache, gone, evidence, link, page, seen, budget>>
  BY DEF Fetch, outside
<1> DEFINE new == [s \in Sources |-> IF s \in Of(sync.project) THEN gitlab[s]
                                     ELSE sync.listed[s]]
<1>2. new \in [Sources -> Texts \union {None}]
  BY <1>0, SyncFields DEF TypeOK
<1>3. \A s \in Sources : IF s \in Of(sync.project) THEN new[s] = gitlab[s]
                         ELSE new[s] = sync.listed[s]
  OBVIOUS
<1>4. PICK again \in SUBSET Of(sync.project) :
        sync' = [sync EXCEPT !.pc = "save", !.unsaved = Since(sync.project) \union again,
                             !.listed = new]
  BY <1>0 DEF Fetch, Sync
<1> HIDE DEF new
<1>5. /\ sync'.pc = "save" /\ sync'.project = sync.project /\ sync'.todo = sync.todo
      /\ sync'.touched = sync.touched /\ sync'.listed = new
      /\ sync'.failed = sync.failed /\ sync' \in Sync
      /\ sync'.unsaved = Since(sync.project) \union again
  BY <1>0, <1>2, <1>4 DEF Sync, Stages, Of, Since
\* What the lists leave out is cached as they would have told it.
<1>6. \A s \in Of(sync.project) : s \in sync'.unsaved \/ Told(s)'
  <2> SUFFICES ASSUME NEW s \in Of(sync.project), s \notin Since(sync.project)
               PROVE  Told(s)'
    BY <1>5
  <2>1. /\ s \in Sources /\ cache[s] # None /\ cache[s].text = gitlab[s] /\ ~cache[s].stale
        /\ gitlab[s] # None
    BY <1>0 DEF Watermark, Since, Of
  <2> QED
    BY <1>1, <1>3, <1>5, <2>1 DEF Told
<1>7. ReadSoFar'
  <2>1. sync.pc = "list" /\ sync.project \in sync.touched
    BY <1>0 DEF Fetch, ReadSoFar
  <2>2. ASSUME NEW s \in Sources, ~sync.failed PROVE Unread(s)' \/ Told(s)'
    <3>1. CASE s \in Of(sync.project)
      BY <1>5, <1>6, <3>1 DEF Unread
    <3>2. CASE s \notin Of(sync.project)
      <4>1. Unread(s) \/ Told(s)
        BY <1>0, <2>1, <2>2 DEF ReadSoFar
      <4> QED
        BY <1>1, <1>3, <1>5, <2>1, <3>2, <4>1 DEF Unread, Told, Of
    <3> QED
      BY <3>1, <3>2
  <2> QED
    BY <1>0, <1>3, <1>5, <2>1, <2>2 DEF ReadSoFar, Of
<1>8. Backed'
  BY <1>0, <1>1 DEF Backed
<1>9. Watermark'
  <2>1. sync'.unsaved \subseteq Of(sync.project)
    BY <1>5 DEF Since
  <2>2. \A s \in Of(sync.project) :
          Kind[s] # "branch" => sync'.listed[s] # None /\ sync'.listed[s] = gitlab[s]
    BY <1>0, <1>3, <1>5 DEF Watermark, Of
  <2>3. Of(sync.project)' = Of(sync.project)
    BY <1>5 DEF Of
  <2> QED
    BY <1>0, <1>1, <1>5, <1>6, <2>1, <2>2, <2>3 DEF Watermark
<1> QED
  BY <1>0, <1>1, <1>5, <1>7, <1>8, <1>9, Elsewhere DEF TypeOK

LEMMA CachedRow ==
  ASSUME EvidenceAssumption, IInv, NEW s \in Sources
  PROVE  /\ Cached(s) \in Row \union {None}
         /\ cache[s] # None => Cached(s) # None
         /\ IF sync.listed[s] # None
            THEN Cached(s) # None /\ Cached(s).text = sync.listed[s] /\ ~Cached(s).stale
            ELSE Cached(s) = None \/ Cached(s).stale
<1>1. sync.listed[s] \in Texts \union {None} /\ cache[s] \in Row \union {None}
      /\ sync.run \in Nat /\ 0 \in Nat /\ None \notin Row
  BY SyncFields, Somethings DEF IInv, TypeOK
<1>2. CASE sync.listed[s] # None
  <2> DEFINE r == [text |-> sync.listed[s],
                   at |-> IF Kind[s] = "branch" THEN sync.run ELSE 0, stale |-> FALSE]
  <2>1. r \in Row /\ r.text = sync.listed[s] /\ ~r.stale
    BY <1>1, <1>2 DEF Row
  <2>2. Cached(s) = r
    BY <1>2 DEF Cached
  <2> HIDE DEF r
  <2> QED
    BY <1>1, <1>2, <2>1, <2>2
<1>3. CASE sync.listed[s] = None /\ cache[s] = None
  BY <1>3 DEF Cached
<1>4. CASE sync.listed[s] = None /\ cache[s] # None
  <2>1. Cached(s) = [cache[s] EXCEPT !.stale = TRUE]
    BY <1>4 DEF Cached
  <2>2. Cached(s) \in Row /\ Cached(s).stale
    BY <1>1, <1>4, <2>1 DEF Row
  <2> QED
    BY <1>1, <1>4, <2>2
<1> QED
  BY <1>2, <1>3, <1>4

LEMMA SaveStep ==
  ASSUME EvidenceAssumption, IInv, Save PROVE IInv'
<1>0. TypeOK /\ Backed /\ ReadSoFar /\ Watermark /\ sync \in Sync
  BY DEF IInv, TypeOK
<1>1. UNCHANGED <<gitlab, scope, newer, gone, evidence, link, page, seen, budget>>
      /\ cache' = [s \in Sources |-> IF s \in NextUnsaved THEN Cached(s) ELSE cache[s]]
  BY DEF Save, outside
<1>2. /\ sync'.pc = "save" /\ sync'.project = sync.project /\ sync'.todo = sync.todo
      /\ sync'.touched = sync.touched /\ sync'.listed = sync.listed
      /\ sync'.failed = sync.failed /\ sync'.unsaved = sync.unsaved \ NextUnsaved
      /\ sync' \in Sync /\ sync.pc = "save"
  BY <1>0 DEF Save, Sync, Stages
<1>3. cache' \in [Sources -> Row \union {None}]
  <2>1. \A s \in Sources : cache'[s] \in Row \union {None}
    BY <1>0, <1>1, CachedRow DEF TypeOK
  <2> QED
    BY <1>1, <2>1
<1>4. Backed'
  BY <1>0, <1>1, CachedRow DEF Backed
<1>5. ASSUME NEW s \in Sources PROVE s \in NextUnsaved => Told(s)'
  <2>1. ASSUME s \in NextUnsaved PROVE cache'[s] = Cached(s)
    BY <1>1, <2>1
  <2> QED
    BY <1>2, <2>1, CachedRow DEF Told
<1>6. ASSUME NEW s \in Sources, s \notin NextUnsaved
      PROVE  cache'[s] = cache[s] /\ (Told(s)' <=> Told(s))
  BY <1>1, <1>2, <1>6 DEF Told
<1>7. ASSUME NEW s \in Sources, ~sync.failed PROVE Unread(s)' \/ Told(s)'
  <2>1. CASE s \in NextUnsaved
    BY <1>5, <2>1
  <2>2. CASE s \notin NextUnsaved
    BY <1>0, <1>2, <1>6, <1>7, <2>2 DEF ReadSoFar, Unread
  <2> QED
    BY <2>1, <2>2
<1>8. ReadSoFar'
  BY <1>0, <1>2, <1>7 DEF ReadSoFar
<1>9. Watermark'
  <2>1. ASSUME NEW s \in Sources, Kind[s] # "branch", s \notin newer
        PROVE  cache'[s] # None /\ cache'[s].text = gitlab[s] /\ ~cache'[s].stale
    <3>1. CASE s \in NextUnsaved
      <4>1. s \in Of(sync.project)
        BY <1>0, <1>2, <3>1 DEF NextUnsaved, Watermark
      <4>2. sync.listed[s] # None /\ sync.listed[s] = gitlab[s]
        BY <1>0, <1>2, <2>1, <4>1 DEF Watermark
      <4> QED
        BY <1>2, <1>5, <3>1, <4>2 DEF Told
    <3>2. CASE s \notin NextUnsaved
      BY <1>0, <1>6, <2>1, <3>2 DEF Watermark
    <3> QED
      BY <3>1, <3>2
  <2>2. \A s \in Of(sync.project) : s \in sync'.unsaved \/ Told(s)'
    BY <1>0, <1>2, <1>5, <1>6 DEF Watermark, Of
  <2> QED
    BY <1>0, <1>1, <1>2, <2>1, <2>2 DEF Watermark, Of
<1> QED
  BY <1>0, <1>1, <1>2, <1>3, <1>4, <1>8, <1>9, Elsewhere DEF TypeOK

LEMMA ProjectDoneStep ==
  ASSUME IInv, ProjectDone PROVE IInv'
<1>0. TypeOK /\ Backed /\ ReadSoFar /\ Watermark /\ sync \in Sync
  BY DEF IInv, TypeOK
<1>1. UNCHANGED <<gitlab, scope, cache, gone, evidence, link, page, seen, budget>>
      /\ newer' = newer \ Completed(sync.project)
  BY DEF ProjectDone, outside
<1>2. /\ sync'.pc = "next" /\ sync'.todo = sync.todo
      /\ sync'.touched = sync.touched /\ sync'.listed = sync.listed
      /\ sync'.failed = sync.failed /\ sync' \in Sync
  BY <1>0 DEF ProjectDone, Sync, Stages
<1>3. ReadSoFar'
  BY <1>0, <1>1, <1>2 DEF ReadSoFar, Unread, Told, ProjectDone
<1>4. Backed' /\ newer' \subseteq Sources
  BY <1>0, <1>1 DEF Backed, TypeOK
<1>5. ASSUME NEW s \in Sources, Kind[s] # "branch", s \notin newer'
      PROVE  cache[s] # None /\ cache[s].text = gitlab[s] /\ ~cache[s].stale
  <2>1. CASE s \in Completed(sync.project)
    <3>1. sync.pc = "save" /\ sync.unsaved = {} /\ s \in Of(sync.project)
          /\ gitlab[s] = sync.listed[s]
      BY <2>1 DEF ProjectDone, Completed
    <3>2. Told(s) /\ sync.listed[s] # None
      BY <1>0, <1>5, <3>1 DEF Watermark
    <3> QED
      BY <3>1, <3>2 DEF Told
  <2>2. CASE s \notin Completed(sync.project)
    BY <1>0, <1>1, <1>5, <2>2 DEF Watermark
  <2> QED
    BY <2>1, <2>2
<1>6. Watermark'
  BY <1>0, <1>1, <1>2, <1>5 DEF Watermark
<1> QED
  BY <1>0, <1>1, <1>2, <1>3, <1>4, <1>6, Elsewhere DEF TypeOK

LEMMA ProjectFailsStep ==
  ASSUME IInv, ProjectFails PROVE IInv'
<1>0. TypeOK /\ Backed /\ ReadSoFar /\ Watermark /\ sync \in Sync
  BY DEF IInv, TypeOK
<1>1. UNCHANGED <<gitlab, scope, newer, cache, gone, evidence, link, page, seen, budget>>
  BY DEF ProjectFails, outside
<1>2. PICK p \in Projects :
        sync' = [sync EXCEPT !.pc = "next", !.project = None, !.failed = TRUE,
                             !.todo = @ \ {p}, !.unsaved = {}]
  BY DEF ProjectFails
<1>3. /\ sync'.pc = "next" /\ sync'.todo = sync.todo \ {p}
      /\ sync'.touched = sync.touched /\ sync'.listed = sync.listed
      /\ sync'.failed = TRUE /\ sync' \in Sync
  BY <1>0, <1>2 DEF Sync, Stages
<1>4. ReadSoFar'
  BY <1>0, <1>1, <1>3 DEF ReadSoFar, ProjectFails
<1>5. Backed' /\ Watermark'
  BY <1>0, <1>1, <1>3 DEF Backed, Watermark
<1> QED
  BY <1>0, <1>1, <1>3, <1>4, <1>5, Elsewhere DEF TypeOK

LEMMA SyncFailsStep ==
  ASSUME IInv, SyncFails PROVE IInv'
<1>0. TypeOK /\ Backed /\ Watermark /\ sync \in Sync
  BY DEF IInv, TypeOK
<1>1. UNCHANGED <<gitlab, scope, newer, cache, gone, evidence, link, page, seen, budget>>
  BY DEF SyncFails, outside
<1>2. sync'.pc = "idle" /\ sync' \in Sync
  BY <1>0 DEF SyncFails, Sync, Stages
<1>3. ReadSoFar' /\ Backed' /\ Watermark'
  BY <1>0, <1>1, <1>2 DEF ReadSoFar, Backed, Watermark
<1> QED
  BY <1>0, <1>1, <1>2, <1>3, Elsewhere DEF TypeOK

\* Only when every project was read are the projects that were not met stale.
LEMMA AllReadStep ==
  ASSUME IInv, AllRead PROVE IInv'
<1>0. TypeOK /\ Backed /\ ReadSoFar /\ Watermark /\ sync \in Sync
  BY DEF IInv, TypeOK
<1>1. UNCHANGED <<gitlab, scope, newer, cache, evidence, link, page, seen, budget>>
      /\ gone' = Projects \ sync.touched
  BY DEF AllRead, outside
<1>2. /\ sync'.pc = "refresh" /\ sync'.todo = sync.todo
      /\ sync'.touched = sync.touched /\ sync'.listed = sync.listed
      /\ sync'.failed = sync.failed /\ sync' \in Sync
  BY <1>0 DEF AllRead, Sync, Stages
<1>3. ReadSoFar'
  BY <1>0, <1>1, <1>2 DEF ReadSoFar, Unread, Told, AllRead
<1>4. Backed' /\ Watermark'
  BY <1>0, <1>1, <1>2 DEF Backed, Watermark
<1> QED
  BY <1>0, <1>1, <1>2, <1>3, <1>4, Elsewhere DEF TypeOK

----------------------------------------------------------------------------
(* The refresh of the evidence *)

\* The content of a known source.
LEMMA CollectedRow ==
  ASSUME EvidenceAssumption, IInv, NEW s \in Sources, cache[s] # None
  PROVE  /\ Collected(s) \in EvidenceRow /\ Collected(s) # None
         /\ Collected(s).content \in Content
<1>1. cache[s] \in Row
  BY DEF IInv, TypeOK
<1>2. Collected(s) \in EvidenceRow
  BY <1>1 DEF Collected, EvidenceRow, Content, Availability, Row
<1> QED
  BY <1>2, Somethings DEF EvidenceRow

\* A confirmation that is to be looked at again is another version.
LEMMA Revalidated ==
  ASSUME NEW l \in Link
  PROVE  /\ Follows(Revalidate(l), l) /\ Revalidate(l).status = l.status
         /\ ~Revalidate(l).valid /\ Revalidate(l).method = l.method
         /\ Revalidate(l).hash = l.hash
<1>1. CASE ~l.valid
  <2>1. l.version <= l.version
    BY LinkFields
  <2> QED
    BY <1>1, <2>1 DEF Revalidate, Follows
<1>2. CASE l.valid
  <2> DEFINE r == [l EXCEPT !.valid = FALSE, !.version = @ + 1]
  <2>1. l.version \in Nat /\ l.version + 1 \in Nat
    BY LinkFields
  <2>2. /\ r \in Link /\ r.version = l.version + 1 /\ r.status = l.status /\ ~r.valid
        /\ r.method = l.method /\ r.hash = l.hash
    BY <2>1 DEF Link
  <2>3. Revalidate(l) = r
    BY <1>2 DEF Revalidate
  <2> HIDE DEF r
  <2> QED
    BY <2>1, <2>2, <2>3 DEF Follows
<1> QED
  BY <1>1, <1>2

\* A link on another basis is another version.
LEMMA RebasedLink ==
  ASSUME NEW l \in Link, NEW m \in Methods, NEW c \in Content
  PROVE  /\ Follows(Rebased(l, m, c), l) /\ Rebased(l, m, c).status = l.status
         /\ Rebased(l, m, c).method = m /\ Rebased(l, m, c).hash = c
         /\ Rebased(l, m, c).valid = l.valid
         /\ BasisChanged(l, c) => Rebased(l, m, c).version = l.version + 1
<1> DEFINE n == IF BasisChanged(l, c) THEN l.version + 1 ELSE l.version
           r == [l EXCEPT !.method = m, !.hash = c, !.version = n]
<1>1. l.version \in Nat /\ n \in Nat /\ l.version <= n
  BY LinkFields
<1>2. Rebased(l, m, c) = r
  BY DEF Rebased, Link
<1>3. n = l.version => l.hash = c
  BY <1>1 DEF BasisChanged
<1>4. BasisChanged(l, c) => n = l.version + 1
  OBVIOUS
<1> HIDE DEF n
<1>5. /\ r \in Link /\ r.version = n /\ r.status = l.status /\ r.valid = l.valid
      /\ r.method = m /\ r.hash = c
  BY <1>1 DEF Link
<1> HIDE DEF r
<1> QED
  BY <1>1, <1>2, <1>3, <1>4, <1>5 DEF Follows

LEMMA FollowsTwice ==
  ASSUME NEW a \in Link, NEW b, NEW c, Follows(b, a), Follows(c, b), b # None
  PROVE  Follows(c, a)
<1>1. a.version \in Nat /\ b.version \in Nat /\ c.version \in Nat
  BY LinkFields DEF Follows
<1> QED
  BY <1>1 DEF Follows

\* What evidence that changes does to a link: a confirmation that counts as valid
\* afterwards is on evidence that has not changed.
LEMMA UpsertedLink ==
  ASSUME EvidenceAssumption, IInv, NEW s \in Sources, link[s] # None
  PROVE  /\ Follows(Upserted(s), link[s]) /\ Upserted(s) # None
         /\ Upserted(s).status = link[s].status /\ Upserted(s).method = link[s].method
         /\ Upserted(s).status = "confirmed" /\ Upserted(s).valid =>
              Upserted(s).hash = Collected(s).content
<1>1. link[s] \in Link /\ link[s].version <= link[s].version
  BY LinkFields DEF IInv, TypeOK
<1>2. CASE link[s].status = "confirmed" /\ Changes(s)
  <2>1. Upserted(s) = Revalidate(link[s])
    BY <1>2 DEF Upserted
  <2> QED
    BY <1>1, <2>1, Revalidated, Somethings DEF Follows
<1>3. CASE ~(link[s].status = "confirmed" /\ Changes(s))
  <2>1. Upserted(s) = link[s]
    BY <1>3 DEF Upserted
  <2>2. link[s].status = "confirmed" /\ link[s].valid => link[s].hash = evidence[s].content
    BY Halves DEF IInv, ConfirmedCurrent
  <2> QED
    BY <1>1, <1>3, <2>1, <2>2 DEF Follows, Changes
<1> QED
  BY <1>2, <1>3

\* After a refresh, a suggestion and a confirmation that is valid are on what the
\* evidence then says.
Grounded(l, c) ==
  /\ l.status = "suggested" => l.method # "manual" /\ l.hash = c
  /\ l.status = "confirmed" /\ l.valid => l.hash = c

LEMMA RefreshedLink ==
  ASSUME EvidenceAssumption, IInv, NEW s \in Sources, cache[s] # None,
         NEW m \in Methods \ {"manual"}
  PROVE  /\ Follows(Refreshed(s, Upserted(s), m), link[s])
         /\ Grounded(Refreshed(s, Upserted(s), m), Collected(s).content)
<1> DEFINE u == Upserted(s)
           c == Collected(s).content
           r == Refreshed(s, u, m)
<1>0. c \in Content
  BY CollectedRow
<1>1. CASE link[s] = None
  <2>1. u = None
    BY <1>1 DEF Upserted
  <2> DEFINE n == [status |-> "suggested", method |-> m, hash |-> c, valid |-> TRUE,
                   expires |-> "never", version |-> 1]
  <2>2. r = n
    BY <2>1 DEF Refreshed
  <2>3. n \in Link /\ n.status = "suggested" /\ n.method = m /\ n.hash = c
    <3> HIDE DEF c
    <3> QED
      BY <1>0 DEF Link, Deadlines
  <2> HIDE DEF n, u, c, r
  <2>4. Follows(r, link[s]) /\ Grounded(r, c)
    BY <1>1, <2>2, <2>3 DEF Follows, Grounded
  <2> QED
    BY <2>4 DEF u, c, r
<1>2. CASE link[s] # None
  <2>0. link[s] \in Link
    BY <1>2 DEF IInv, TypeOK
  <2>1. /\ Follows(u, link[s]) /\ u # None /\ u \in Link
        /\ u.status = "confirmed" /\ u.valid => u.hash = c
    BY <1>2, UpsertedLink DEF Follows
  <2>2. r = (CASE u.status = "suggested" -> Rebased(u, m, c)
               [] u.status = "confirmed" -> IF BasisChanged(u, c) THEN Revalidate(u) ELSE u
               [] u.status = "rejected" /\ ~BasisChanged(u, c) -> u
               [] u.status = "expired" /\ ~BasisChanged(u, c) -> Rebased(u, m, c)
               [] OTHER -> [Rebased(u, m, c) EXCEPT !.status = "suggested", !.valid = TRUE])
    BY <2>1 DEF Refreshed
  <2> HIDE DEF u, c, r
  <2>3. u.status \in {"suggested", "confirmed", "rejected", "expired"} /\ u.version \in Nat
    BY <2>1, LinkFields
  <2>4. /\ Follows(Rebased(u, m, c), u) /\ Rebased(u, m, c).status = u.status
        /\ Rebased(u, m, c).method = m /\ Rebased(u, m, c).hash = c
        /\ BasisChanged(u, c) => Rebased(u, m, c).version = u.version + 1
    BY <1>0, <2>1, RebasedLink
  <2>5. Follows(r, u) /\ Grounded(r, c)
    <3>1. CASE u.status = "suggested"
      <4>1. r = Rebased(u, m, c)
        BY <2>2, <3>1
      <4> QED
        BY <2>4, <3>1, <4>1 DEF Grounded
    <3>2. CASE u.status = "confirmed" /\ BasisChanged(u, c)
      <4>1. r = Revalidate(u)
        BY <2>2, <3>2
      <4> QED
        BY <2>1, <3>2, <4>1, Revalidated DEF Grounded
    <3>3. CASE u.status \in {"confirmed", "rejected"} /\ ~BasisChanged(u, c)
      <4>1. r = u
        BY <2>2, <3>3
      <4> QED
        BY <2>1, <2>3, <3>3, <4>1 DEF Grounded, Follows
    <3>4. CASE u.status = "expired" /\ ~BasisChanged(u, c)
      <4>1. r = Rebased(u, m, c)
        BY <2>2, <3>4
      <4> QED
        BY <2>4, <3>4, <4>1 DEF Grounded
    <3>5. CASE u.status \in {"rejected", "expired"} /\ BasisChanged(u, c)
      <4> DEFINE b == Rebased(u, m, c)
                 d == [b EXCEPT !.status = "suggested", !.valid = TRUE]
      <4>1. r = d
        BY <2>2, <3>5
      <4>2. b \in Link /\ b.method = m /\ b.hash = c /\ b.version = u.version + 1
        BY <2>4, <3>5 DEF Follows
      <4> HIDE DEF b
      <4>3. /\ d \in Link /\ d.method = m /\ d.hash = c /\ d.version = u.version + 1
            /\ d.status = "suggested"
        BY <4>2 DEF Link
      <4> HIDE DEF d
      <4> QED
        BY <2>3, <4>1, <4>3 DEF Grounded, Follows
    <3> QED
      BY <2>3, <3>1, <3>2, <3>3, <3>4, <3>5
  <2>6. Follows(r, link[s])
    BY <2>0, <2>1, <2>5, FollowsTwice
  <2> QED
    BY <2>5, <2>6 DEF u, c, r
<1> QED
  BY <1>1, <1>2

LEMMA WithdrawnLink ==
  ASSUME EvidenceAssumption, IInv, NEW s \in Sources, link[s] # None
  PROVE  /\ Follows(Withdrawn(Upserted(s)), link[s])
         /\ Grounded(Withdrawn(Upserted(s)), Collected(s).content)
<1> DEFINE u == Upserted(s)
           c == Collected(s).content
           r == Withdrawn(u)
<1>0. link[s] \in Link
  BY DEF IInv, TypeOK
<1>1. /\ Follows(u, link[s]) /\ u # None /\ u \in Link
      /\ u.status = "confirmed" /\ u.valid => u.hash = c
      /\ u.status = link[s].status /\ u.method = link[s].method
  BY UpsertedLink DEF Follows
<1>2. u.status = "suggested" => u.method # "manual"
  BY <1>1 DEF IInv, RuleSuggests
<1> HIDE DEF u, c
<1>3. CASE u.status = "suggested"
  <2> DEFINE n == [u EXCEPT !.status = "expired", !.version = @ + 1]
  <2>1. r = n
    BY <1>1, <1>2, <1>3 DEF Withdrawn
  <2>2. u.version \in Nat /\ u.version + 1 \in Nat
    BY <1>1, LinkFields
  <2>3. n \in Link /\ n.status = "expired" /\ n.version = u.version + 1
    BY <1>1, <2>2 DEF Link
  <2> HIDE DEF n, r
  <2>4. Follows(r, u) /\ Grounded(r, c)
    BY <2>1, <2>2, <2>3 DEF Follows, Grounded
  <2>5. Follows(r, link[s])
    BY <1>0, <1>1, <2>4, FollowsTwice
  <2> QED
    BY <2>4, <2>5 DEF u, c, r
<1>4. CASE u.status # "suggested"
  <2>1. r = u
    BY <1>4 DEF Withdrawn
  <2> HIDE DEF r
  <2>2. Follows(r, link[s]) /\ Grounded(r, c)
    BY <1>1, <1>4, <2>1 DEF Grounded
  <2> QED
    BY <2>2 DEF u, c, r
<1> QED
  BY <1>3, <1>4

LEMMA Suggested ==
  ASSUME NEW s \in Sources, Suggestion(s) # None
  PROVE  Suggestion(s) \in Methods \ {"manual"}
BY DEF Suggestion, Methods

\* The links and the evidence after a refresh, source by source.
LEMMA RefreshMoves ==
  ASSUME EvidenceAssumption, IInv, Refresh, NEW s \in Sources
  PROVE  \/ cache[s] = None /\ link'[s] = link[s] /\ evidence'[s] = evidence[s]
         \/ /\ cache[s] # None /\ evidence'[s] = Collected(s)
            /\ link'[s] = None /\ link[s] = None
         \/ /\ cache[s] # None /\ evidence'[s] = Collected(s)
            /\ Follows(link'[s], link[s]) /\ Grounded(link'[s], Collected(s).content)
<1> DEFINE known == {t \in Sources : cache[t] # None}
           wanted == {t \in known : Collected(t).availability = "available"
                                      /\ Suggestion(t) # None}
<1>1. /\ evidence' = [t \in Sources |-> IF t \in known THEN Collected(t) ELSE evidence[t]]
      /\ link' = [t \in Sources |->
           IF t \in wanted THEN Refreshed(t, Upserted(t), Suggestion(t))
           ELSE IF t \in known THEN Withdrawn(Upserted(t)) ELSE link[t]]
  BY DEF Refresh
<1>2. CASE cache[s] = None
  BY <1>1, <1>2
<1>3. CASE s \in wanted
  <2>1. Suggestion(s) \in Methods \ {"manual"}
    BY <1>3, Suggested
  <2>2. cache[s] # None /\ evidence'[s] = Collected(s)
        /\ link'[s] = Refreshed(s, Upserted(s), Suggestion(s))
    BY <1>1, <1>3
  <2> QED
    BY <2>1, <2>2, RefreshedLink
<1>4. CASE cache[s] # None /\ s \notin wanted
  <2>1. evidence'[s] = Collected(s) /\ link'[s] = Withdrawn(Upserted(s))
    BY <1>1, <1>4
  <2>2. CASE link[s] = None
    BY <1>4, <2>1, <2>2 DEF Upserted, Withdrawn
  <2>3. CASE link[s] # None
    BY <1>4, <2>1, <2>3, WithdrawnLink
  <2> QED
    BY <2>2, <2>3
<1> QED
  BY <1>2, <1>3, <1>4

LEMMA RefreshStep ==
  ASSUME EvidenceAssumption, IInv, Refresh PROVE IInv'
<1>0. /\ TypeOK /\ Backed /\ ReadSoFar /\ Watermark /\ PageBehind /\ RuleSuggests
      /\ ConfirmedCurrent /\ PageCurrent /\ EvidenceIsWhole /\ sync \in Sync
  BY Halves DEF IInv, TypeOK
<1>1. UNCHANGED <<gitlab, scope, newer, cache, gone, page, budget>>
  BY DEF Refresh, outside
<1>2. sync.pc = "refresh" /\ sync'.pc = "idle" /\ sync' \in Sync
  BY <1>0 DEF Refresh, Sync, Stages
<1>3. ReadSoFar' /\ Watermark'
  BY <1>0, <1>1, <1>2 DEF ReadSoFar, Watermark
<1>4. /\ link' \in [Sources -> Link \union {None}]
      /\ evidence' \in [Sources -> EvidenceRow \union {None}]
      /\ \A s \in Sources : link'[s] # None => evidence'[s] # None
  <2>1. ASSUME NEW s \in Sources
        PROVE  /\ link'[s] \in Link \union {None} /\ evidence'[s] \in EvidenceRow \union {None}
               /\ link'[s] # None => evidence'[s] # None
    BY <1>0, RefreshMoves, CollectedRow DEF TypeOK, Follows
  <2> QED
    BY <2>1 DEF Refresh
<1>5. Backed'
  BY <1>0, <1>1, RefreshMoves DEF Backed
<1>6. seen' = [s \in Sources |-> [text |-> sync.listed[s],
                                  current |-> ProjectOf[s] \in sync.touched]]
  BY DEF Refresh
<1>7. seen' \in [Sources -> Reading]
  BY <1>6, SyncFields DEF Reading
<1>8. EvidenceIsWhole'
  <2> SUFFICES ASSUME NEW s \in Sources
               PROVE  /\ evidence'[s] # None =>
                           /\ evidence'[s].availability = "stale" <=> ~seen'[s].current
                           /\ evidence'[s].availability = "unavailable" <=>
                                seen'[s].current /\ seen'[s].text = None
                           /\ evidence'[s].availability = "available" =>
                                evidence'[s].content.text = seen'[s].text
                      /\ evidence'[s] = None => seen'[s].text = None
    BY DEF EvidenceIsWhole
  <2>1. seen'[s].text = sync.listed[s] /\ (seen'[s].current <=> ProjectOf[s] \in sync.touched)
    BY <1>6
  <2>2. /\ gone = Projects \ sync.touched
        /\ ProjectOf[s] \notin sync.touched \/ Told(s)
        /\ ProjectOf[s] \notin sync.touched => sync.listed[s] = None
        /\ ProjectOf[s] \in Projects
    BY <1>0, <1>2 DEF ReadSoFar, Unread, EvidenceAssumption
  <2>3. CASE cache[s] = None
    <3>1. evidence'[s] = None
      BY <1>0, <2>3, RefreshMoves DEF Backed
    <3> QED
      BY <2>1, <2>2, <2>3, <3>1 DEF Told
  <2>4. CASE cache[s] # None
    <3>1. evidence'[s] = Collected(s) /\ evidence'[s] # None
      BY <2>4, RefreshMoves, CollectedRow
    <3> QED
      BY <2>1, <2>2, <2>4, <3>1 DEF Told, Collected
  <2> QED
    BY <2>3, <2>4
<1>9. RuleSuggests'
  BY <1>0, RefreshMoves DEF RuleSuggests, Grounded
<1>10. ConfirmedCurrent'
  BY <1>0, RefreshMoves DEF ConfirmedCurrent, Grounded
<1>11. ASSUME NEW s \in Sources, page[s] # None
       PROVE  /\ link'[s] # None /\ page[s].link.version <= link'[s].version
              /\ page[s].link.version = link'[s].version =>
                   /\ page[s].link.status = link'[s].status
                   /\ page[s].link.valid = link'[s].valid
                   /\ page[s].link.hash = link'[s].hash
                   /\ page[s].link.version = link[s].version
  <2>1. /\ link[s] # None /\ page[s].link.version <= link[s].version
        /\ page[s].link.version = link[s].version =>
             /\ page[s].link.status = link[s].status /\ page[s].link.valid = link[s].valid
             /\ page[s].link.hash = link[s].hash
    BY <1>0, <1>11 DEF PageBehind
  <2>2. page[s].link.version \in Nat /\ link[s].version \in Nat
    BY <1>0, <1>11, <2>1 DEF TypeOK, Shown, Link
  <2>3. CASE link'[s] = link[s]
    BY <2>1, <2>3
  <2>4. CASE Follows(link'[s], link[s])
    <3>1. link'[s].version \in Nat /\ link'[s] # None
      BY <2>4, Somethings DEF Follows, Link
    <3> QED
      BY <2>1, <2>2, <2>4, <3>1 DEF Follows
  <2> QED
    BY <2>1, <2>3, <2>4, RefreshMoves
<1>12. PageBehind'
  BY <1>1, <1>11 DEF PageBehind
<1>13. PageCurrent'
  <2> SUFFICES ASSUME NEW s \in Sources, page[s] # None,
                      page[s].link.version = link'[s].version, InStep(page[s])
               PROVE  page[s].content = evidence'[s].content
    BY <1>1 DEF PageCurrent, InStep
  <2>1. /\ page[s].link.status = link'[s].status /\ page[s].link.valid = link'[s].valid
        /\ page[s].link.hash = link'[s].hash /\ page[s].link.version = link[s].version
    BY <1>11
  <2>2. page[s].content = evidence[s].content
    BY <1>0, <2>1 DEF PageCurrent
  <2>3. CASE cache[s] = None
    BY <2>2, <2>3, RefreshMoves
  <2>4. CASE cache[s] # None
    <3>1. link'[s] # None
      BY <1>11
    <3>2. evidence'[s] = Collected(s) /\ Grounded(link'[s], Collected(s).content)
      BY <2>4, <3>1, RefreshMoves
    <3> QED
      BY <2>1, <3>2 DEF InStep, Grounded
  <2> QED
    BY <2>3, <2>4
<1>14. DecisionIsCurrent'
  BY <1>10, <1>13 DEF DecisionIsCurrent, ConfirmedCurrent, PageCurrent
<1>15. TypeOK'
  BY <1>0, <1>1, <1>2, <1>4, <1>7 DEF TypeOK
<1> QED
  BY <1>3, <1>5, <1>8, <1>9, <1>12, <1>14, <1>15 DEF IInv

----------------------------------------------------------------------------

LEMMA Initially == ASSUME EvidenceAssumption, Init PROVE IInv
<1>1. TypeOK
  <2>1. sync \in Sync
    BY DEF Init, Sync, Stages, Nothing
  <2>2. seen \in [Sources -> Reading] /\ budget \in [changes: Nat, runs: Nat, decisions: Nat]
    BY DEF Init, Reading, EvidenceAssumption
  <2> QED
    BY <2>1, <2>2 DEF Init, TypeOK, Nothing
<1>2. Backed /\ PageBehind /\ RuleSuggests /\ ReadSoFar /\ Watermark
  BY Somethings DEF Init, Watermark, Backed, PageBehind, RuleSuggests, ReadSoFar, Nothing
<1>3. DecisionIsCurrent /\ EvidenceIsWhole
  BY DEF Init, DecisionIsCurrent, EvidenceIsWhole, Nothing
<1> QED
  BY <1>1, <1>2, <1>3 DEF IInv

LEMMA Inductive == ASSUME EvidenceAssumption, IInv, [Next]_vars PROVE IInv'
<1>1. CASE UNCHANGED vars
  <2>1. Backed' /\ ReadSoFar' /\ Watermark'
    BY <1>1 DEF vars, IInv, Backed, ReadSoFar, Watermark, Unread, Told
  <2> QED
    BY <1>1, <2>1, Elsewhere DEF vars, IInv, TypeOK
<1>2. CASE Outside
  BY <1>2, OutsideStep DEF Outside
<1>3. CASE Synchronise
  BY <1>3, SyncStartStep, ResolveStep, FetchStep, SaveStep, ProjectDoneStep, ProjectFailsStep,
     SyncFailsStep, AllReadStep, RefreshStep DEF Synchronise
<1>4. CASE User
  BY <1>4, LoadStep, BatchConfirmStep, ConfirmStep, RejectStep, RevokeStep, CreateManualStep
  DEF User
<1>5. CASE ExpireDueLinks \/ \E s \in Sources : DeadlinePasses(s)
  BY <1>5, ExpireDueLinksStep, DeadlinePassesStep
<1> QED
  BY <1>1, <1>2, <1>3, <1>4, <1>5 DEF Next

THEOREM EvidenceInvariant == EvidenceAssumption => (Spec => []IInv)
<1> SUFFICES ASSUME EvidenceAssumption PROVE Spec => []IInv
  OBVIOUS
<1>1. Init => IInv
  BY Initially
<1>2. IInv /\ [Next]_vars => IInv'
  BY Inductive
<1> QED
  BY <1>1, <1>2, PTL DEF Spec

\* Every reachable state of the cache, the evidence, the links and the page is well
\* typed; in particular a link never loses its evidence.
THEOREM TypeCorrect == EvidenceAssumption => (Spec => []TypeOK)
<1> SUFFICES ASSUME EvidenceAssumption PROVE Spec => []TypeOK
  OBVIOUS
<1>1. IInv => TypeOK
  BY DEF IInv
<1> QED
  BY <1>1, EvidenceInvariant, PTL

\* Whatever is synchronised, expired or decided between the load of the page and the
\* decision on it, a confirmation that counts as valid is on the content the evidence
\* has, and a decision that would be accepted from a page in step is on evidence that
\* says what the page shows (evidence-lifecycle.service.ts, evidence-materializer.service.ts).
THEOREM DecisionsAreCurrent == EvidenceAssumption => (Spec => []DecisionIsCurrent)
<1> SUFFICES ASSUME EvidenceAssumption PROVE Spec => []DecisionIsCurrent
  OBVIOUS
<1>1. IInv => DecisionIsCurrent
  BY DEF IInv
<1> QED
  BY <1>1, EvidenceInvariant, PTL

\* Although a synchronisation lists only what is newer than the watermark of a project, and
\* earlier runs may have failed before, between and after the projects, what evidence says,
\* what it calls unavailable and what it calls stale is what the synchronisation that built
\* it would have found, missed or not met had it listed everything (gitlab-sync.service.ts).
THEOREM EvidenceTellsAll == EvidenceAssumption => (Spec => []EvidenceIsWhole)
<1> SUFFICES ASSUME EvidenceAssumption PROVE Spec => []EvidenceIsWhole
  OBVIOUS
<1>1. IInv => EvidenceIsWhole
  BY DEF IInv
<1> QED
  BY <1>1, EvidenceInvariant, PTL

=============================================================================
