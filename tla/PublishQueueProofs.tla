-------------------------- MODULE PublishQueueProofs --------------------------
(* What holds of the publisher for every sheet, every number of overlapping   *)
(* runs, every limit and every kind of fault, and what holds of one publisher *)
(* process at a time whose failed marks are written.                          *)
EXTENDS PublishQueue, TLAPS

\* Every step keeps every variable's type.
LEMMA TypeStep == TypeOK /\ [Next]_vars => TypeOK'
<1> USE RowsAssumption, CellsAssumption
<1> SUFFICES ASSUME TypeOK, [Next]_vars PROVE TypeOK'
  OBVIOUS
<1> USE DEF TypeOK
<1>1. ASSUME NEW p \in Runs, Start(p) PROVE TypeOK'
  BY <1>1 DEF Start, Stages, DueHeads, human
<1>2. ASSUME NEW p \in Runs, NextUnit(p) PROVE TypeOK'
  BY <1>2 DEF NextUnit, Stages, Chain, human, NoMedia
<1>3. ASSUME NEW p \in Runs, Reset(p), UNCHANGED <<human, feed, now>> PROVE TypeOK'
  BY <1>3 DEF Reset, Stages, human, NoMedia
<1>4. ASSUME NEW p \in Runs, NEW s \in Stages, pc[p] # "idle", GoTo(p, s),
             UNCHANGED <<feed, now, consent>>, queue' \in [Rows -> Row]
      PROVE  TypeOK'
  BY <1>4 DEF GoTo
<1>5. ASSUME NEW p \in Runs, NEW r \in Rows, pc[p] # "idle" PROVE
             /\ PostOf(p, r) \in Post
             /\ PostedRow(snap[p][r], media[p], began[p]) \in Row
             /\ FailedRow(snap[p][r]) \in Row
  <2>1. /\ snap[p][r] \in Row
        /\ media[p] \in Nat /\ parentMedia[p] \in Nat /\ began[p] \in Nat
    BY <1>5
  <2>2. PostOf(p, r) \in Post BY <2>1 DEF PostOf, Post, Row, NoMedia
  <2>3. \A row \in Row, id \in Nat, t \in Int : PostedRow(row, id, t) \in Row
    BY DEF PostedRow, Row, Statuses
  <2>4. \A row \in Row : FailedRow(row) \in Row
    BY DEF FailedRow, Row, Statuses, NoMedia
  <2>5. began[p] \in Int BY <2>1
  <2> QED BY <2>1, <2>2, <2>3, <2>4, <2>5
<1>6. ASSUME NEW p \in Runs, NEW r \in Rows, pc[p] # "idle", GoLive(p, r)
      PROVE  feed' \in Seq(Post) /\ Len(feed) + 1 \in Nat /\ sent' \in [Runs -> SUBSET Rows]
  BY <1>5, <1>6 DEF GoLive
<1>7. ASSUME NEW p \in Runs, PublishPost(p) PROVE TypeOK'
  BY <1>6, <1>7 DEF PublishPost, Stages, human
<1>8. ASSUME NEW p \in Runs, PublishUnacknowledged(p) PROVE TypeOK'
  BY <1>6, <1>8 DEF PublishUnacknowledged, Stages, human
<1>9. ASSUME NEW p \in Runs, NEW r \in Rows, pc[p] # "idle", WritePosted(p, r)
      PROVE  queue' \in [Rows -> Row] /\ consent' = consent
  BY <1>5, <1>9 DEF WritePosted
<1>10. ASSUME NEW p \in Runs, Record(p) PROVE TypeOK'
  <2>1. PICK r \in Rows : Record(p)!2!(r) BY <1>10 DEF Record
  <2>2. queue' \in [Rows -> Row] /\ consent' = consent
    BY <1>9, <1>10, <2>1 DEF Record
  <2>3. posted' \in [Runs -> Nat] /\ parentMedia' \in [Runs -> Nat]
    BY <2>1
  <2>4. /\ pc' \in [Runs -> Stages] /\ left' \in [Runs -> SUBSET Rows]
        /\ \A x \in Runs : pc'[x] # "idle" => pc[x] # "idle"
    BY <1>10, <2>1 DEF Record, Stages
  <2> QED BY <1>10, <2>2, <2>3, <2>4 DEF Record
<1>11. ASSUME NEW p \in Runs, NEW r \in Rows, pc[p] = "failing", Marked(p, r),
              queue' \in [Rows -> Row]
       PROVE  TypeOK'
  BY <1>11 DEF Marked, Stages
<1>12. ASSUME NEW p \in Runs, RunStep(p) PROVE TypeOK'
  <2>1. CASE NextUnit(p) BY <2>1, <1>2
  <2>2. CASE Finish(p) BY <2>2, <1>3 DEF Finish
  <2>3. CASE Prepare(p) \/ PrepareFails(p) \/ PublishRefused(p) \/ RecordFails(p)
    BY <2>3, <1>4 DEF Prepare, PrepareFails, PublishRefused, RecordFails, human, Stages
  <2>4. CASE PublishPost(p) BY <2>4, <1>7
  <2>5. CASE PublishUnacknowledged(p) BY <2>5, <1>8
  <2>6. CASE Record(p) BY <2>6, <1>10
  <2>7. CASE RecordUnacknowledged(p)
    BY <2>7, <1>4, <1>9 DEF RecordUnacknowledged, Stages
  <2>8. CASE MarkFailed(p)
    <3>1. pc[p] = "failing" BY <2>8 DEF MarkFailed
    <3>2. PICK r \in Rows : /\ queue' = [queue EXCEPT ![r] = FailedRow(snap[p][r])]
                            /\ Marked(p, r)
      BY <2>8 DEF MarkFailed
    <3>3. queue' \in [Rows -> Row] BY <3>1, <3>2, <1>5
    <3> QED BY <3>1, <3>2, <3>3, <1>11
  <2>9. CASE MarkLost(p) BY <2>9, <1>11 DEF MarkLost
  <2> QED BY <1>12, <2>1, <2>2, <2>3, <2>4, <2>5, <2>6, <2>7, <2>8, <2>9 DEF RunStep
<1>13. CASE HumanNext
  <2>1. PICK r \in Rows, t \in Texts, c \in Cells : WriteApproved(r, t, c)
    BY <1>13 DEF HumanNext, Approve, Edit
  <2>2. queue' \in [Rows -> Row]
    <3>1. queue[r] \in Row OBVIOUS
    <3>2. [queue[r] EXCEPT !.status = "approved", !.text = t, !.scheduled_at = c] \in Row
      BY <3>1 DEF Row, Statuses
    <3> QED BY <2>1, <3>2 DEF WriteApproved
  <2>3. consent' \subseteq Rows \X Texts \X Cells BY <2>1 DEF WriteApproved
  <2> QED BY <2>1, <2>2, <2>3 DEF WriteApproved, run
<1>14. CASE Tick BY <1>14 DEF Tick, human, run
<1>15. CASE UNCHANGED vars BY <1>15 DEF vars, human, run
<1>16. CASE PublisherNext
  BY <1>16, <1>1, <1>12, <1>3 DEF PublisherNext, Crash
<1> QED BY <1>13, <1>14, <1>15, <1>16 DEF Next

\* TypeOK is an invariant: every variable keeps its type, and a run under way
\* always holds a whole copy of the sheet.
THEOREM TypeCorrect == Spec => []TypeOK
<1>1. Init => TypeOK
  BY RowsAssumption, CellsAssumption
     DEF Init, TypeOK, Row, Statuses, Post, Stages, NoMedia, NoTime
<1> QED BY <1>1, TypeStep, PTL DEF Spec

-----------------------------------------------------------------------------
\* Facts about units that every later proof needs.

\* The head of a unit is its own parent, and a unit has one row per seq.
LEMMA HeadIsParent ==
    ASSUME NEW r \in Rows, IsHead(r)
    PROVE  Parent[r] = r
BY RowsAssumption DEF IsHead

\* _approved_thread_chain returns approved rows of one unit, without gaps.
LEMMA ChainProperties ==
    ASSUME NEW sheet, NEW h \in Rows, NEW r \in Chain(sheet, h)
    PROVE  /\ r \in Rows /\ Parent[r] = h
           /\ sheet[r].status = "approved"
           /\ IsHead(r) => r = h
           /\ \A n \in 0..SeqNo[r] : \E q \in Chain(sheet, h) : SeqNo[q] = n
<1>1. r \in Rows /\ Parent[r] = h /\ SeqNo[r] \in Nat
  BY RowsAssumption DEF Chain
<1>2. \A n \in 0..SeqNo[r] : \E q \in Rows :
         Parent[q] = h /\ SeqNo[q] = n /\ sheet[q].status = "approved"
  BY DEF Chain
<1>3. sheet[r].status = "approved"
  <2>1. PICK q \in Rows : Parent[q] = h /\ SeqNo[q] = SeqNo[r] /\ sheet[q].status = "approved"
    BY <1>1, <1>2
  <2> QED BY <1>1, <2>1, RowsAssumption
<1>4. IsHead(r) => r = h BY <1>1, HeadIsParent
<1>5. ASSUME NEW n \in 0..SeqNo[r] PROVE \E q \in Chain(sheet, h) : SeqNo[q] = n
  <2>1. PICK q \in Rows : Parent[q] = h /\ SeqNo[q] = n BY <1>2
  <2>2. 0..SeqNo[q] \subseteq 0..SeqNo[r] BY <1>1, <2>1
  <2>3. q \in Chain(sheet, h) BY <1>2, <2>1, <2>2 DEF Chain
  <2> QED BY <2>1, <2>3
<1> QED BY <1>1, <1>3, <1>4, <1>5

\* What a run writes to a row: its copy of it with the result.
LEMMA ResultRows ==
    ASSUME TypeOK, NEW p \in Runs, NEW r \in Rows, pc[p] # "idle"
    PROVE  /\ FailedRow(snap[p][r]).status = "failed"
           /\ LET new == PostedRow(snap[p][r], media[p], began[p])
              IN /\ new.status = "posted"
                 /\ new.posted_post_id = media[p] /\ new.posted_at = began[p]
                 /\ new.text = snap[p][r].text
<1>1. snap[p][r] \in Row /\ media[p] \in Nat /\ began[p] \in Nat
  BY DEF TypeOK
<1> QED BY <1>1 DEF PostedRow, FailedRow, Row

\* What a step inside a unit can touch: the run's own place, the next row of the
\* unit (overwritten with the run's copy of it) and the end of the feed.
Touches(p) ==
    /\ pc[p] \notin {"idle", "loop"} /\ pc'[p] # "idle"
    /\ UNCHANGED <<now, consent, began, snap, todo>>
    /\ \A x \in Runs \ {p} : /\ pc'[x] = pc[x] /\ left'[x] = left[x]
                             /\ media'[x] = media[x] /\ parentMedia'[x] = parentMedia[x]
    /\ left' \in [Runs -> SUBSET Rows] /\ left'[p] \subseteq left[p]
    /\ \A r \in Rows :
          \/ queue'[r] = queue[r]
          \/ /\ IsNext(r, p)
             /\ \/ /\ pc[p] = "record"
                   /\ queue'[r] = PostedRow(snap[p][r], media[p], began[p])
                \/ queue'[r] = FailedRow(snap[p][r])
    /\ \/ feed' = feed
       \/ /\ pc[p] = "publish"
          /\ \E r \in Rows : IsNext(r, p) /\ feed' = Append(feed, PostOf(p, r))
    /\ pc'[p] = "record" =>
          /\ left'[p] = left[p] /\ media'[p] = Len(feed) + 1 /\ feed' # feed
    /\ pc'[p] \in {"prepare", "publish", "record"} =>
          \/ /\ left'[p] = left[p] /\ parentMedia'[p] = parentMedia[p]
             /\ \/ pc[p] = "prepare" /\ pc'[p] = "publish"
                \/ pc[p] = "publish" /\ pc'[p] = "record"
          \/ /\ pc[p] = "record" /\ pc'[p] = "prepare"
             /\ \E r \in Rows :
                   /\ IsNext(r, p) /\ left'[p] = left[p] \ {r}
                   /\ parentMedia'[p] = IF IsHead(r) THEN media[p] ELSE parentMedia[p]
                   /\ queue'[r] = PostedRow(snap[p][r], media[p], began[p])

\* Every step inside a unit touches only what Touches lists.
LEMMA UnitStep ==
    ASSUME TypeOK, NEW p \in Runs, RunStep(p)
    PROVE  NextUnit(p) \/ Finish(p) \/ Touches(p)
<1> USE DEF TypeOK
<1>1. CASE Prepare(p) \/ PrepareFails(p) \/ PublishRefused(p) \/ RecordFails(p)
  BY <1>1 DEF Prepare, PrepareFails, PublishRefused, RecordFails, GoTo, human, Touches
<1>2. CASE PublishPost(p) \/ PublishUnacknowledged(p)
  BY <1>2 DEF PublishPost, PublishUnacknowledged, GoLive, human, Touches
<1>3. CASE Record(p)
  BY <1>3 DEF Record, WritePosted, Touches
<1>4. CASE RecordUnacknowledged(p)
  BY <1>4 DEF RecordUnacknowledged, GoTo, WritePosted, Touches
<1>5. CASE MarkFailed(p) BY <1>5 DEF MarkFailed, Marked, Touches
<1>6. CASE MarkLost(p) BY <1>6 DEF MarkLost, Marked, Touches
<1> QED BY <1>1, <1>2, <1>3, <1>4, <1>5, <1>6 DEF RunStep

-----------------------------------------------------------------------------
\* The strengthening of PublishedAsApproved: consent covers every approved row of
\* the sheet and of every copy of it, and a run only holds rows that are approved
\* in its copy, heads among them due when the run began.
ConsentCovers ==
    /\ \A r \in Rows : queue[r].status = "approved"
          => <<r, queue[r].text, queue[r].scheduled_at>> \in consent
    /\ \A p \in Runs : pc[p] # "idle" =>
          /\ \A r \in Rows : snap[p][r].status = "approved"
                => <<r, snap[p][r].text, snap[p][r].scheduled_at>> \in consent
          /\ \A h \in todo[p] : IsHead(h) /\ IsDue(snap[p][h], began[p])
          /\ \A r \in left[p] : /\ snap[p][r].status = "approved"
                                /\ IsHead(r) => IsDue(snap[p][r], began[p])
    /\ \A p \in Runs : pc[p] = "idle" => left[p] = {}

\* What one publication adds is consented to.
LEMMA PostIsConsented ==
    ASSUME TypeOK, ConsentCovers, PublishedAsApproved,
           NEW p \in Runs, NEW r \in left[p], pc[p] # "idle",
           feed' = Append(feed, PostOf(p, r)), consent' = consent
    PROVE  PublishedAsApproved'
<1>1. <<r, snap[p][r].text, snap[p][r].scheduled_at>> \in consent
  BY DEF ConsentCovers, TypeOK
<1>2. IsHead(r) => /\ snap[p][r].scheduled_at.form # "bad"
                   /\ snap[p][r].scheduled_at.at <= began[p]
  BY DEF ConsentCovers, IsDue
<1>3. /\ PostOf(p, r).row = r /\ PostOf(p, r).text = snap[p][r].text
      /\ PostOf(p, r).began = began[p]
  BY DEF PostOf
<1>4. /\ DOMAIN feed' = DOMAIN feed \cup {Len(feed) + 1}
      /\ \A i \in DOMAIN feed : feed'[i] = feed[i]
      /\ feed'[Len(feed) + 1] = PostOf(p, r)
  BY DEF TypeOK
<1>5. SUFFICES ASSUME NEW i \in DOMAIN feed'
               PROVE  \E k \in consent :
                         /\ k[1] = feed'[i].row /\ k[2] = feed'[i].text
                         /\ IsHead(feed'[i].row) => /\ k[3].form # "bad"
                                                    /\ k[3].at <= feed'[i].began
  BY DEF PublishedAsApproved, IsHead
<1>6. CASE i \in DOMAIN feed BY <1>4, <1>6 DEF PublishedAsApproved
<1>7. CASE i = Len(feed) + 1
  <2> DEFINE k == <<r, snap[p][r].text, snap[p][r].scheduled_at>>
  <2>1. /\ k \in consent /\ k[1] = feed'[i].row /\ k[2] = feed'[i].text
        /\ IsHead(feed'[i].row) => /\ k[3].form # "bad"
                                   /\ k[3].at <= feed'[i].began
    BY <1>1, <1>2, <1>3, <1>4, <1>7
  <2> QED BY <2>1
<1> QED BY <1>4, <1>6, <1>7

\* Every step keeps what is live, and what can still go live, covered by consent.
LEMMA ConsentStep ==
    TypeOK /\ ConsentCovers /\ PublishedAsApproved /\ [Next]_vars
        => ConsentCovers' /\ PublishedAsApproved'
<1> USE RowsAssumption
<1> SUFFICES ASSUME TypeOK, ConsentCovers, PublishedAsApproved, [Next]_vars
             PROVE  ConsentCovers' /\ PublishedAsApproved'
  OBVIOUS
<1>1. UNCHANGED <<feed, consent>> => PublishedAsApproved'
  BY DEF PublishedAsApproved, IsHead
<1>2. consent \subseteq consent' /\ feed' = feed => PublishedAsApproved'
  BY DEF PublishedAsApproved, IsHead
<1>3. ASSUME NEW p \in Runs, Start(p) PROVE ConsentCovers'
  <2>1. /\ UNCHANGED <<queue, consent, left>>
        /\ snap' = [snap EXCEPT ![p] = queue] /\ began' = [began EXCEPT ![p] = now]
        /\ todo' = [todo EXCEPT ![p] = DueHeads(queue, now)]
        /\ \A x \in Runs \ {p} : pc'[x] = pc[x]
        /\ left[p] = {}
    BY <1>3 DEF Start, human, TypeOK, ConsentCovers
  <2>2. \A h \in DueHeads(queue, now) : IsHead(h) /\ IsDue(queue[h], now)
    BY DEF DueHeads
  <2>3. \A x \in Runs \ {p} :
           snap'[x] = snap[x] /\ began'[x] = began[x] /\ todo'[x] = todo[x]
    BY <2>1 DEF TypeOK
  <2>4. snap'[p] = queue /\ began'[p] = now /\ todo'[p] = DueHeads(queue, now)
    BY <2>1 DEF TypeOK
  <2>5. \A x \in Runs : pc'[x] = "idle" => left'[x] = {}
    BY <2>1 DEF ConsentCovers
  <2> QED BY <2>1, <2>2, <2>3, <2>4, <2>5 DEF ConsentCovers, IsDue, IsHead
<1>4. ASSUME NEW p \in Runs, NextUnit(p) PROVE ConsentCovers'
  BY <1>4, ChainProperties DEF NextUnit, ConsentCovers, TypeOK, human, IsHead
<1>5. ASSUME NEW p \in Runs, Reset(p), UNCHANGED human PROVE ConsentCovers'
  BY <1>5 DEF Reset, ConsentCovers, TypeOK, human
<1>6. ASSUME NEW p \in Runs, Touches(p) PROVE ConsentCovers' /\ PublishedAsApproved'
  <2>1. \A r \in Rows : queue'[r].status = "approved" => queue'[r] = queue[r]
    BY <1>6, ResultRows DEF Touches
  <2>2. ConsentCovers'
    <3>1. \A r \in Rows : queue'[r].status = "approved"
             => <<r, queue'[r].text, queue'[r].scheduled_at>> \in consent'
      BY <1>6, <2>1 DEF Touches, ConsentCovers
    <3>2. ASSUME NEW x \in Runs
          PROVE  /\ left'[x] \subseteq left[x]
                 /\ pc'[x] # "idle" => pc[x] # "idle"
                 /\ pc'[x] = "idle" => pc[x] = "idle"
      BY <1>6 DEF Touches
    <3>3. UNCHANGED <<consent, began, snap, todo>> BY <1>6 DEF Touches
    <3> QED BY <3>1, <3>2, <3>3 DEF ConsentCovers, IsDue, IsHead
  <2>3. PublishedAsApproved'
    BY <1>6, <1>1, PostIsConsented DEF Touches, IsNext
  <2> QED BY <2>2, <2>3
<1>7. ASSUME NEW p \in Runs, RunStep(p) PROVE ConsentCovers' /\ PublishedAsApproved'
  BY <1>7, <1>1, <1>4, <1>5, <1>6, UnitStep DEF NextUnit, Finish, human
<1>8. CASE HumanNext
  <2>1. PICK r \in Rows, t \in Texts, c \in Cells : WriteApproved(r, t, c)
    BY <1>8 DEF HumanNext, Approve, Edit
  <2>2. ConsentCovers'
    BY <2>1 DEF WriteApproved, ConsentCovers, TypeOK, run, IsDue, IsHead
  <2> QED BY <1>2, <2>1, <2>2 DEF WriteApproved
<1>9. CASE Tick \/ UNCHANGED vars
  BY <1>1, <1>9 DEF Tick, vars, human, run, ConsentCovers, IsDue, IsHead
<1>10. CASE PublisherNext
  <2>1. PICK p \in Runs : Start(p) \/ RunStep(p) \/ Crash(p) BY <1>10 DEF PublisherNext
  <2>2. CASE Start(p) BY <2>2, <1>1, <1>3 DEF Start, human
  <2>3. CASE RunStep(p) BY <2>3, <1>7
  <2>4. CASE Crash(p) BY <2>4, <1>1, <1>5 DEF Crash, human
  <2> QED BY <2>1, <2>2, <2>3, <2>4
<1> QED BY <1>8, <1>9, <1>10 DEF Next

\* Consent covers the copies of runs under way along every behaviour.
LEMMA ConsentAlways == Spec => [](ConsentCovers /\ PublishedAsApproved)
<1>1. Init => ConsentCovers /\ PublishedAsApproved
  BY DEF Init, ConsentCovers, PublishedAsApproved
<1> QED BY <1>1, ConsentStep, TypeCorrect, PTL DEF Spec

\* Whatever is live reads as a human left it approved, and heads were due: for any
\* number of overlapping runs, any faults, and edits at any moment.
THEOREM OnlyApprovedGoesLive == Spec => []PublishedAsApproved
BY ConsentAlways, PTL

-----------------------------------------------------------------------------
\* A run works on one unit at a time.
OneUnit == \A p \in Runs : \A r, q \in left[p] : Parent[r] = Parent[q]

\* A run that is about to record holds the id of the post of its next row.
MediaKnown ==
    \A p \in Runs : pc[p] = "record" =>
        /\ media[p] \in DOMAIN feed
        /\ \A r \in Rows : IsNext(r, p) =>
              LET e == feed[media[p]]
              IN e.row = r /\ e.text = snap[p][r].text /\ e.began = began[p]

\* A unit has one next row, and it is a row of that unit.
LEMMA NextIsUnique ==
    ASSUME TypeOK, OneUnit, NEW p \in Runs, NEW r \in Rows, NEW q \in Rows,
           IsNext(r, p), IsNext(q, p)
    PROVE  r = q
<1>1. Parent[r] = Parent[q] BY DEF OneUnit, IsNext
<1>2. SeqNo[r] \in Nat /\ SeqNo[q] \in Nat /\ SeqNo[r] <= SeqNo[q] /\ SeqNo[q] <= SeqNo[r]
  BY RowsAssumption DEF IsNext
<1> QED BY <1>1, <1>2, RowsAssumption

\* What Append leaves alone and what it adds.
LEMMA FeedGrows ==
    ASSUME TypeOK, NEW p \in Runs, Touches(p)
    PROVE  /\ DOMAIN feed \subseteq DOMAIN feed'
           /\ \A i \in DOMAIN feed : feed'[i] = feed[i]
           /\ feed' # feed => \E r \in Rows :
                /\ pc[p] = "publish" /\ IsNext(r, p)
                /\ DOMAIN feed' = DOMAIN feed \cup {Len(feed) + 1}
                /\ Len(feed) + 1 \notin DOMAIN feed
                /\ feed'[Len(feed) + 1] = PostOf(p, r)
<1>1. CASE feed' = feed BY <1>1
<1>2. CASE feed' # feed
  <2>1. PICK r \in Rows : /\ pc[p] = "publish" /\ IsNext(r, p)
                          /\ feed' = Append(feed, PostOf(p, r))
    BY <1>2 DEF Touches
  <2>2. feed \in Seq(Post) /\ DOMAIN feed = 1..Len(feed) /\ Len(feed) \in Nat
    BY DEF TypeOK
  <2>3. DOMAIN feed' = 1..(Len(feed) + 1) BY <2>1, <2>2
  <2>4. feed'[Len(feed) + 1] = PostOf(p, r) BY <2>1, <2>2
  <2>5. \A i \in DOMAIN feed : feed'[i] = feed[i] BY <2>1, <2>2
  <2>6. /\ DOMAIN feed' = DOMAIN feed \cup {Len(feed) + 1}
        /\ Len(feed) + 1 \notin DOMAIN feed
    BY <2>2, <2>3
  <2> QED BY <2>1, <2>4, <2>5, <2>6
<1> QED BY <1>1, <1>2

\* Every step keeps a run within one unit.
LEMMA OneUnitStep == TypeOK /\ OneUnit /\ [Next]_vars => OneUnit'
<1> SUFFICES ASSUME TypeOK, OneUnit, [Next]_vars PROVE OneUnit'
  OBVIOUS
<1>1. left' = left => OneUnit' BY DEF OneUnit
<1>2. ASSUME NEW p \in Runs, NextUnit(p) PROVE OneUnit'
  BY <1>2, ChainProperties DEF NextUnit, OneUnit, TypeOK
<1>3. ASSUME NEW p \in Runs, Reset(p) PROVE OneUnit'
  BY <1>3 DEF Reset, OneUnit, TypeOK
<1>4. ASSUME NEW p \in Runs, Touches(p) PROVE OneUnit'
  BY <1>4 DEF Touches, OneUnit
<1>5. CASE PublisherNext
  BY <1>5, <1>1, <1>2, <1>3, <1>4, UnitStep DEF PublisherNext, Start, Finish, Crash
<1>6. CASE HumanNext \/ Tick \/ UNCHANGED vars
  BY <1>6, <1>1 DEF HumanNext, Approve, Edit, WriteApproved, Tick, vars, run
<1> QED BY <1>5, <1>6 DEF Next

\* Every step keeps the media id a run is about to record the id of its own post.
LEMMA MediaKnownStep == TypeOK /\ OneUnit /\ MediaKnown /\ [Next]_vars => MediaKnown'
<1> SUFFICES ASSUME TypeOK, OneUnit, MediaKnown, [Next]_vars PROVE MediaKnown'
  OBVIOUS
<1>1. UNCHANGED <<feed, run>> => MediaKnown'
  BY DEF MediaKnown, IsNext, run
<1>2. ASSUME NEW p \in Runs, Start(p) \/ NextUnit(p) \/ Reset(p), UNCHANGED feed
      PROVE  MediaKnown'
  BY <1>2 DEF Start, NextUnit, Reset, MediaKnown, IsNext, TypeOK
<1>3. ASSUME NEW p \in Runs, Touches(p) PROVE MediaKnown'
  <2> SUFFICES ASSUME NEW x \in Runs, pc'[x] = "record"
               PROVE  /\ media'[x] \in DOMAIN feed'
                      /\ \A r \in Rows : IsNext(r, x)' =>
                            LET e == feed'[media'[x]]
                            IN /\ e.row = r /\ e.text = snap'[x][r].text
                               /\ e.began = began'[x]
    BY DEF MediaKnown
  <2>1. UNCHANGED <<snap, began>> BY <1>3 DEF Touches
  <2>2. CASE x # p
    <3>1. pc[x] = "record" /\ left'[x] = left[x] /\ media'[x] = media[x]
      BY <1>3, <2>2 DEF Touches
    <3>2. \A r \in Rows : IsNext(r, x)' => IsNext(r, x) BY <3>1 DEF IsNext
    <3> QED BY <1>3, <2>1, <3>1, <3>2, FeedGrows DEF MediaKnown
  <2>3. CASE x = p
    <3>1. left'[p] = left[p] /\ media'[p] = Len(feed) + 1 /\ feed' # feed
      BY <1>3, <2>3 DEF Touches
    <3>2. PICK r \in Rows : /\ IsNext(r, p) /\ Len(feed) + 1 \in DOMAIN feed'
                            /\ feed'[Len(feed) + 1] = PostOf(p, r)
      BY <1>3, <3>1, FeedGrows
    <3>3. \A q \in Rows : IsNext(q, p)' => q = r
      BY <3>1, <3>2, NextIsUnique DEF IsNext
    <3> QED BY <2>1, <2>3, <3>1, <3>2, <3>3 DEF PostOf
  <2> QED BY <2>2, <2>3
<1>4. CASE PublisherNext
  BY <1>4, <1>2, <1>3, UnitStep DEF PublisherNext, Start, NextUnit, Finish, Crash
<1>5. CASE HumanNext \/ Tick \/ UNCHANGED vars
  BY <1>5, <1>1 DEF HumanNext, Approve, Edit, WriteApproved, Tick, vars
<1> QED BY <1>4, <1>5 DEF Next

\* The two facts about runs that the next theorems rest on.
LEMMA RunFacts == Spec => [](OneUnit /\ MediaKnown)
<1>1. Init => OneUnit /\ MediaKnown
  BY DEF Init, OneUnit, MediaKnown
<1> QED BY <1>1, OneUnitStep, MediaKnownStep, TypeCorrect, PTL DEF Spec

\* A run records a row under the id of its own post.
LEMMA PostedRealStep ==
    TypeOK /\ OneUnit /\ MediaKnown /\ PostedIsReal /\ [Next]_vars => PostedIsReal'
<1> SUFFICES ASSUME TypeOK, OneUnit, MediaKnown, PostedIsReal, [Next]_vars
             PROVE  PostedIsReal'
  OBVIOUS
<1>1. UNCHANGED <<queue, feed>> => PostedIsReal' BY DEF PostedIsReal
<1>2. ASSUME NEW p \in Runs, Touches(p) PROVE PostedIsReal'
  <2> SUFFICES ASSUME NEW r \in Rows, queue'[r].status = "posted"
               PROVE  /\ queue'[r].posted_post_id \in DOMAIN feed'
                      /\ LET e == feed'[queue'[r].posted_post_id]
                         IN /\ e.row = r /\ e.text = queue'[r].text
                            /\ e.began = queue'[r].posted_at
    BY DEF PostedIsReal
  <2>1. CASE queue'[r] = queue[r]
    BY <1>2, <2>1, FeedGrows DEF PostedIsReal
  <2>2. CASE /\ IsNext(r, p) /\ pc[p] = "record"
             /\ queue'[r] = PostedRow(snap[p][r], media[p], began[p])
    BY <1>2, <2>2, FeedGrows, ResultRows DEF MediaKnown
  <2>3. CASE queue'[r] = FailedRow(snap[p][r])
    BY <1>2, <2>3, ResultRows DEF Touches
  <2> QED BY <1>2, <2>1, <2>2, <2>3 DEF Touches
<1>3. CASE PublisherNext
  BY <1>3, <1>1, <1>2, UnitStep DEF PublisherNext, Start, NextUnit, Finish, Crash, human
<1>4. CASE HumanNext
  <2>1. PICK r \in Rows, t \in Texts, c \in Cells : WriteApproved(r, t, c)
    BY <1>4 DEF HumanNext, Approve, Edit
  <2>2. /\ feed' = feed /\ queue'[r].status = "approved"
        /\ \A q \in Rows \ {r} : queue'[q] = queue[q]
    BY <2>1 DEF WriteApproved, TypeOK, Row
  <2> QED BY <2>2 DEF PostedIsReal
<1>5. CASE Tick \/ UNCHANGED vars BY <1>1, <1>5 DEF Tick, vars, human
<1> QED BY <1>3, <1>4, <1>5 DEF Next

\* A row is posted only with the id of a live post of it, with its text and the hour
\* of the run: for overlapping runs, any faults, and edits at any moment.
THEOREM PostedRowsAreReal == Spec => []PostedIsReal
<1>1. Init => PostedIsReal BY DEF Init, PostedIsReal
<1> QED BY <1>1, PostedRealStep, TypeCorrect, RunFacts, PTL DEF Spec

-----------------------------------------------------------------------------
\* What a run knows of the unit it is publishing: whatever comes before a row is
\* still to come or is live by this run, and once the head is recorded
\* parent_media is the id of its post.
Publishing(p) == pc[p] \in {"prepare", "publish", "record"}

LowerLive(p) ==
    \A r \in left[p] : \A n \in 0..(SeqNo[r] - 1) :
        \/ \E q \in left[p] : SeqNo[q] = n
        \/ \E j \in DOMAIN feed : /\ Parent[feed[j].row] = Parent[r]
                                  /\ SeqNo[feed[j].row] = n
                                  /\ feed[j].began = began[p]
ParentKnown(p) ==
    \A r \in left[p] :
        \/ Parent[r] \in left[p]
        \/ parentMedia[p] \in DOMAIN feed /\ feed[parentMedia[p]].row = Parent[r]

UnitInOrder == \A p \in Runs : Publishing(p) => LowerLive(p) /\ ParentKnown(p)

\* A step of one run leaves what another run knows true: the feed only grows.
LEMMA UnitInOrderFrame ==
    ASSUME TypeOK, NEW x \in Runs, LowerLive(x) /\ ParentKnown(x),
           DOMAIN feed \subseteq DOMAIN feed',
           \A i \in DOMAIN feed : feed'[i] = feed[i],
           left'[x] = left[x], parentMedia'[x] = parentMedia[x], began'[x] = began[x]
    PROVE  LowerLive(x)' /\ ParentKnown(x)'
BY DEF LowerLive, ParentKnown

\* A step inside a unit keeps its order.
LEMMA UnitInOrderTouches ==
    ASSUME TypeOK, OneUnit, MediaKnown, UnitInOrder, NEW p \in Runs, Touches(p)
    PROVE  UnitInOrder'
<1> SUFFICES ASSUME NEW x \in Runs, Publishing(x)' PROVE LowerLive(x)' /\ ParentKnown(x)'
  BY DEF UnitInOrder
<1>1. began' = began BY DEF Touches
<1>2. CASE x # p
  <2>1. Publishing(x) /\ left'[x] = left[x] /\ parentMedia'[x] = parentMedia[x]
    BY <1>2 DEF Touches, Publishing
  <2> QED BY <1>1, <2>1, FeedGrows, UnitInOrderFrame DEF UnitInOrder
<1>3. CASE x = p /\ left'[p] = left[p] /\ parentMedia'[p] = parentMedia[p] /\ Publishing(p)
  BY <1>1, <1>3, FeedGrows, UnitInOrderFrame DEF UnitInOrder
<1>4. CASE /\ x = p /\ pc[p] = "record"
           /\ \E r \in Rows :
                 /\ IsNext(r, p) /\ left'[p] = left[p] \ {r}
                 /\ parentMedia'[p] = IF IsHead(r) THEN media[p] ELSE parentMedia[p]
  <2>1. PICK r \in Rows : /\ IsNext(r, p) /\ left'[p] = left[p] \ {r}
                          /\ parentMedia'[p] = IF IsHead(r) THEN media[p] ELSE parentMedia[p]
    BY <1>4
  <2>2. feed' = feed BY <1>4 DEF Touches
  <2>3. /\ media[p] \in DOMAIN feed
        /\ feed[media[p]].row = r /\ feed[media[p]].began = began[p]
    BY <1>4, <2>1 DEF MediaKnown
  <2>4. LowerLive(p) /\ ParentKnown(p) BY <1>4 DEF UnitInOrder, Publishing
  <2>5. \A q \in left[p] : Parent[q] = Parent[r] BY <2>1 DEF OneUnit, IsNext
  <2>6. LowerLive(p)'
    BY <1>1, <2>1, <2>2, <2>3, <2>4, <2>5 DEF LowerLive
  <2>7. ParentKnown(p)'
    <3> SUFFICES ASSUME NEW q \in left'[p]
                 PROVE  \/ Parent[q] \in left'[p]
                        \/ /\ parentMedia'[p] \in DOMAIN feed'
                           /\ feed'[parentMedia'[p]].row = Parent[q]
      BY DEF ParentKnown
    <3>1. q \in left[p] /\ q \in Rows BY <2>1 DEF TypeOK
    <3>2. CASE IsHead(r)
      BY <2>1, <2>2, <2>3, <2>5, <3>1, <3>2, HeadIsParent
    <3>3. CASE ~IsHead(r)
      <4>1. Parent[q] # r BY <3>1, <3>3, RowsAssumption DEF IsHead
      <4> QED BY <2>1, <2>2, <2>4, <3>1, <3>3, <4>1 DEF ParentKnown
    <3> QED BY <3>2, <3>3
  <2> QED BY <1>4, <2>6, <2>7
<1> QED BY <1>2, <1>3, <1>4 DEF Touches, Publishing

\* Every step of the system keeps every unit in order.
LEMMA UnitInOrderStep ==
    TypeOK /\ OneUnit /\ MediaKnown /\ UnitInOrder /\ [Next]_vars => UnitInOrder'
<1> SUFFICES ASSUME TypeOK, OneUnit, MediaKnown, UnitInOrder, [Next]_vars
             PROVE  UnitInOrder'
  OBVIOUS
<1>1. UNCHANGED <<feed, run>> => UnitInOrder'
  BY DEF UnitInOrder, Publishing, LowerLive, ParentKnown, run
<1>2. ASSUME NEW p \in Runs, feed' = feed, pc'[p] \in {"idle", "loop"},
             \A x \in Runs \ {p} : /\ pc'[x] = pc[x] /\ left'[x] = left[x]
                                   /\ began'[x] = began[x]
                                   /\ parentMedia'[x] = parentMedia[x]
      PROVE  UnitInOrder'
  BY <1>2, UnitInOrderFrame DEF UnitInOrder, Publishing
<1>3. ASSUME NEW p \in Runs, Start(p) \/ (Reset(p) /\ UNCHANGED feed) PROVE UnitInOrder'
  BY <1>2, <1>3 DEF Start, Reset, TypeOK
<1>4. ASSUME NEW p \in Runs, NextUnit(p) PROVE UnitInOrder'
  <2>1. PICK h \in todo[p] : left' = [left EXCEPT ![p] = Chain(snap[p], h)]
    BY <1>4 DEF NextUnit
  <2>2. h \in Rows /\ left'[p] = Chain(snap[p], h) BY <2>1 DEF TypeOK
  <2>3. LowerLive(p)'
    <3> SUFFICES ASSUME NEW r \in left'[p], NEW n \in 0..(SeqNo[r] - 1)
                 PROVE  \E q \in left'[p] : SeqNo[q] = n
      BY DEF LowerLive
    <3>1. r \in Rows /\ SeqNo[r] \in Nat BY <2>2, ChainProperties, RowsAssumption
    <3>2. n \in 0..SeqNo[r] BY <3>1
    <3> QED BY <2>2, <3>2, ChainProperties
  <2>4. ParentKnown(p)'
    <3> SUFFICES ASSUME NEW r \in left'[p] PROVE Parent[r] \in left'[p]
      BY DEF ParentKnown
    <3>1. r \in Rows /\ Parent[r] = h /\ SeqNo[r] \in Nat
      BY <2>2, ChainProperties, RowsAssumption
    <3>2. PICK q \in left'[p] : SeqNo[q] = 0 BY <2>2, <3>1, ChainProperties
    <3>3. q = h BY <2>2, <3>2, ChainProperties DEF IsHead
    <3> QED BY <3>1, <3>2, <3>3
  <2>5. ASSUME NEW x \in Runs \ {p}, Publishing(x)' PROVE LowerLive(x)' /\ ParentKnown(x)'
    <3>1. /\ Publishing(x) /\ feed' = feed /\ left'[x] = left[x]
          /\ began'[x] = began[x] /\ parentMedia'[x] = parentMedia[x]
      BY <1>4, <2>1, <2>5 DEF NextUnit, Publishing, TypeOK
    <3> QED BY <3>1, UnitInOrderFrame DEF UnitInOrder
  <2> QED BY <2>3, <2>4, <2>5 DEF UnitInOrder
<1>5. CASE PublisherNext
  BY <1>5, <1>3, <1>4, UnitStep, UnitInOrderTouches DEF PublisherNext, Finish, Crash
<1>6. CASE HumanNext \/ Tick \/ UNCHANGED vars
  BY <1>6, <1>1 DEF HumanNext, Approve, Edit, WriteApproved, Tick, vars
<1> QED BY <1>5, <1>6 DEF Next

\* What a run that knows its unit publishes keeps the threads in order.
LEMMA ThreadsStep ==
    TypeOK /\ UnitInOrder /\ ThreadsInOrder /\ [Next]_vars => ThreadsInOrder'
<1> SUFFICES ASSUME TypeOK, UnitInOrder, ThreadsInOrder, [Next]_vars
             PROVE  ThreadsInOrder'
  OBVIOUS
<1>1. feed' = feed => ThreadsInOrder' BY DEF ThreadsInOrder, IsHead
<1>2. ASSUME NEW p \in Runs, NEW r \in Rows, pc[p] = "publish", IsNext(r, p),
             feed' = Append(feed, PostOf(p, r))
      PROVE  ThreadsInOrder'
  <2> DEFINE last == Len(feed) + 1
  <2>1. /\ Len(feed) \in Nat /\ DOMAIN feed = 1..Len(feed)
        /\ DOMAIN feed' = 1..last /\ feed'[last] = PostOf(p, r)
        /\ \A i \in 1..Len(feed) : feed'[i] = feed[i]
    BY <1>2 DEF TypeOK
  <2>2. LowerLive(p) /\ ParentKnown(p) /\ r \in left[p] /\ SeqNo[r] \in Nat
    BY <1>2, RowsAssumption DEF UnitInOrder, Publishing, IsNext
  <2>3. \A n \in 0..(SeqNo[r] - 1) : ~\E q \in left[p] : SeqNo[q] = n
    BY <1>2, <2>2 DEF IsNext
  <2>4. ~IsHead(r) => /\ parentMedia[p] \in 1..Len(feed)
                      /\ feed[parentMedia[p]].row = Parent[r]
    <3> SUFFICES ASSUME ~IsHead(r) PROVE Parent[r] \notin left[p]
      BY <2>1, <2>2 DEF ParentKnown
    <3>1. SeqNo[Parent[r]] = 0 /\ 0 \in 0..(SeqNo[r] - 1)
      BY <2>2, RowsAssumption DEF IsHead
    <3> QED BY <2>3, <3>1
  <2> SUFFICES ASSUME NEW i \in 1..last
               PROVE  LET q == feed'[i].row
                      IN /\ IsHead(q) => feed'[i].replyTo = NoMedia
                         /\ ~IsHead(q) => /\ feed'[i].replyTo \in 1..(i - 1)
                                          /\ feed'[feed'[i].replyTo].row = Parent[q]
                         /\ \A n \in 0..(SeqNo[q] - 1) : \E j \in 1..(i - 1) :
                               /\ Parent[feed'[j].row] = Parent[q]
                               /\ SeqNo[feed'[j].row] = n
                               /\ feed'[j].began = feed'[i].began
    BY <2>1 DEF ThreadsInOrder, IsHead
  <2>5. CASE i \in 1..Len(feed)
    <3>1. 1..(i - 1) \subseteq 1..Len(feed) BY <2>1, <2>5
    <3>2. feed'[i] = feed[i] /\ \A j \in 1..(i - 1) : feed'[j] = feed[j]
      BY <2>1, <2>5, <3>1
    <3>3. /\ IsHead(feed[i].row) => feed[i].replyTo = NoMedia
          /\ ~IsHead(feed[i].row) => /\ feed[i].replyTo \in 1..(i - 1)
                                     /\ feed[feed[i].replyTo].row = Parent[feed[i].row]
          /\ \A n \in 0..(SeqNo[feed[i].row] - 1) : \E j \in 1..(i - 1) :
                /\ Parent[feed[j].row] = Parent[feed[i].row]
                /\ SeqNo[feed[j].row] = n
                /\ feed[j].began = feed[i].began
      BY <2>1, <2>5 DEF ThreadsInOrder
    <3> QED BY <3>2, <3>3
  <2>6. CASE i = last
    <3>1. /\ feed'[i].row = r /\ feed'[i].began = began[p]
          /\ IsHead(r) => feed'[i].replyTo = NoMedia
          /\ ~IsHead(r) => feed'[i].replyTo = parentMedia[p]
          /\ 1..(i - 1) = 1..Len(feed)
      BY <2>1, <2>6 DEF PostOf
    <3>2. \A n \in 0..(SeqNo[r] - 1) : \E j \in 1..Len(feed) :
             /\ Parent[feed'[j].row] = Parent[r]
             /\ SeqNo[feed'[j].row] = n
             /\ feed'[j].began = began[p]
      BY <2>1, <2>2, <2>3 DEF LowerLive
    <3> QED BY <2>1, <2>4, <3>1, <3>2
  <2> QED BY <2>1, <2>5, <2>6
<1>3. ASSUME NEW p \in Runs, Touches(p) PROVE ThreadsInOrder'
  BY <1>1, <1>2, <1>3 DEF Touches
<1>4. CASE PublisherNext
  BY <1>4, <1>1, <1>3, UnitStep DEF PublisherNext, Start, NextUnit, Finish, Crash
<1>5. CASE HumanNext \/ Tick \/ UNCHANGED vars
  BY <1>5, <1>1 DEF HumanNext, Approve, Edit, WriteApproved, Tick, vars
<1> QED BY <1>4, <1>5 DEF Next

\* Threads go out in order and replies hang under their own parent: for overlapping
\* runs, any faults, and edits at any moment.
THEOREM ThreadsGoOutInOrder == Spec => []ThreadsInOrder
<1>1. Init => UnitInOrder /\ ThreadsInOrder
  BY DEF Init, UnitInOrder, Publishing, ThreadsInOrder
<1> QED BY <1>1, ThreadsStep, UnitInOrderStep, TypeCorrect, RunFacts, PTL DEF Spec
=============================================================================
