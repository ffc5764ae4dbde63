-------------------------- MODULE PublishCapsProofs --------------------------
(* The limits of one publisher process at a time whose failed marks are       *)
(* written: how many units a run and a day put out, and how far apart they    *)
(* are, although the guards are evaluated once, on a copy of the sheet.       *)
EXTENDS PublishOnceProofs, FiniteSetTheorems

\* What the sole run's copy of the sheet is still worth: the approved rows of units
\* it has not started are approved in the sheet, and so are those of its unit until
\* something fails; none of its rows is failed.
CopyHolds ==
    \A p \in Runs : pc[p] # "idle" =>
        /\ \A r \in Rows : Parent[r] \in todo[p] /\ snap[p][r].status = "approved"
              => queue[r].status = "approved"
        /\ \A r \in left[p] : Parent[r] \notin todo[p] /\ queue[r].status # "failed"
        /\ pc[p] = "loop" => left[p] = {}
        /\ Publishing(p) => \A r \in left[p] : queue[r].status = "approved"

\* A row that stays in the unit is left alone, or is recorded without an answer.
LEMMA RowsThatStay ==
    ASSUME TypeOK, NEW p \in Runs, RunStep(p), ~NextUnit(p), ~Finish(p), NEW r \in left'[p]
    PROVE  queue'[r] = queue[r] \/ queue'[r].status = "posted"
<1> USE DEF TypeOK
<1>1. Touches(p) /\ pc[p] # "idle" /\ r \in Rows BY UnitStep DEF Touches
<1>2. CASE Prepare(p) \/ PrepareFails(p) \/ PublishRefused(p) \/ RecordFails(p)
  BY <1>2 DEF Prepare, PrepareFails, PublishRefused, RecordFails, human
<1>3. CASE PublishPost(p) \/ PublishUnacknowledged(p)
  BY <1>3 DEF PublishPost, PublishUnacknowledged, human
<1>4. CASE Record(p) BY <1>1, <1>4 DEF Record, WritePosted
<1>5. CASE RecordUnacknowledged(p)
  BY <1>1, <1>5, ResultRows DEF RecordUnacknowledged, WritePosted
<1>6. CASE MarkFailed(p) BY <1>1, <1>6 DEF MarkFailed, Marked
<1>7. CASE MarkLost(p) BY <1>7 DEF MarkLost
<1> QED BY <1>2, <1>3, <1>4, <1>5, <1>6, <1>7 DEF RunStep

\* A step inside a unit keeps the copy what it is worth.
LEMMA CopyTouches ==
    ASSUME TypeOK, OneUnit, SoleRun, "mark" \notin Faults, CopyHolds,
           NEW p \in Runs, RunStep(p), ~NextUnit(p), ~Finish(p)
    PROVE  CopyHolds'
<1>1. /\ Touches(p) /\ \A x \in Runs : x = p
      /\ \A r \in left[p] \ left'[p] : queue'[r].status \in Terminal
      /\ pc'[p] = "loop" => left'[p] = {}
      /\ pc'[p] # "failing" => \A r \in left'[p] : queue'[r] = queue[r]
  BY CarefulStep DEF SoleRun
<1>2. /\ snap' = snap /\ todo' = todo /\ left'[p] \subseteq left[p] /\ left[p] \subseteq Rows
      /\ pc[p] # "idle" /\ pc'[p] # "idle"
      /\ \A r \in Rows \ left[p] : queue'[r] = queue[r]
  BY <1>1 DEF Touches, TypeOK, IsNext
<1>3. \A r \in Rows : Parent[r] \in todo[p] => r \notin left[p] /\ queue'[r] = queue[r]
  BY <1>2 DEF CopyHolds
<1>4. \A r \in left'[p] : queue'[r].status # "failed"
  <2> SUFFICES ASSUME NEW r \in left'[p] PROVE queue'[r].status # "failed"
    OBVIOUS
  <2>1. r \in Rows /\ queue[r].status # "failed" BY <1>2 DEF CopyHolds
  <2> QED BY <2>1, RowsThatStay
<1>5. Publishing(p)' => \A r \in left'[p] : queue'[r].status = "approved"
  <2> SUFFICES ASSUME Publishing(p)', NEW r \in left'[p]
               PROVE  queue'[r].status = "approved"
    OBVIOUS
  <2>1. Publishing(p) /\ pc'[p] # "failing" BY <1>1 DEF Touches, Publishing
  <2> QED BY <1>1, <1>2, <2>1 DEF CopyHolds
<1> QED BY <1>1, <1>2, <1>3, <1>4, <1>5 DEF CopyHolds

\* Every step of the system keeps the sole run's copy what it is worth.
LEMMA CopyStep ==
    ASSUME SoleRun, "mark" \notin Faults
    PROVE  TypeOK /\ OneUnit /\ CopyHolds /\ ConsentCovers /\ [Next]_vars => CopyHolds'
<1> SUFFICES ASSUME TypeOK, OneUnit, CopyHolds, ConsentCovers, [Next]_vars PROVE CopyHolds'
  OBVIOUS
<1>1. ASSUME NEW p \in Runs, Start(p) PROVE CopyHolds'
  <2>1. /\ \A x \in Runs : x = p
        /\ left'[p] = {} /\ queue' = queue /\ pc'[p] = "loop" /\ snap'[p] = queue
    BY <1>1 DEF SoleRun, Start, human, ConsentCovers, TypeOK
  <2> QED BY <2>1 DEF CopyHolds, Publishing
<1>2. ASSUME NEW p \in Runs, NextUnit(p) PROVE CopyHolds'
  <2>1. PICK h \in todo[p] : /\ todo' = [todo EXCEPT ![p] = @ \ {h}]
                             /\ left' = [left EXCEPT ![p] = Chain(snap[p], h)]
    BY <1>2 DEF NextUnit
  <2>2. /\ \A x \in Runs : x = p
        /\ queue' = queue /\ snap' = snap /\ pc[p] = "loop" /\ pc'[p] = "prepare"
        /\ h \in Rows /\ todo'[p] = todo[p] \ {h} /\ left'[p] = Chain(snap[p], h)
    BY <1>2, <2>1 DEF SoleRun, NextUnit, human, TypeOK
  <2>3. \A r \in left'[p] : r \in Rows /\ Parent[r] = h /\ snap[p][r].status = "approved"
    BY <2>2, ChainProperties
  <2>4. \A r \in left'[p] : queue[r].status = "approved"
    BY <2>2, <2>3 DEF CopyHolds
  <2> QED BY <2>2, <2>3, <2>4 DEF CopyHolds
<1>3. ASSUME NEW p \in Runs, Reset(p) PROVE CopyHolds'
  BY <1>3 DEF Reset, CopyHolds, SoleRun, TypeOK
<1>4. CASE PublisherNext
  BY <1>4, <1>1, <1>2, <1>3, CopyTouches DEF PublisherNext, Finish, Crash
<1>5. CASE HumanNext
  <2>1. PICK r \in Rows, t \in Texts, c \in Cells : WriteApproved(r, t, c)
    BY <1>5 DEF HumanNext, Approve, Edit
  <2>2. /\ UNCHANGED run /\ queue'[r].status = "approved"
        /\ \A q \in Rows \ {r} : queue'[q] = queue[q]
    BY <2>1 DEF WriteApproved, TypeOK, Row
  <2>3. \A p \in Runs : left[p] \subseteq Rows BY DEF TypeOK
  <2>4. \A q \in Rows : queue'[q].status = queue[q].status \/ queue'[q].status = "approved"
    BY <2>2
  <2>5. pc' = pc /\ left' = left /\ todo' = todo /\ snap' = snap BY <2>2 DEF run
  <2> QED BY <2>3, <2>4, <2>5 DEF CopyHolds, Publishing
<1>6. CASE Tick \/ UNCHANGED vars
  BY <1>6 DEF Tick, vars, human, run, CopyHolds, Publishing
<1> QED BY <1>4, <1>5, <1>6 DEF Next

\* What fails stays failed, so a unit that is broken stays broken.
LEMMA BrokenStays ==
    ASSUME TypeOK, CopyHolds, [Next]_vars, NEW h, Broken(h)
    PROVE  Broken(h)'
<1>1. PICK r \in Rows : Parent[r] = h /\ queue[r].status = "failed" BY DEF Broken
<1> SUFFICES queue'[r] = queue[r] BY <1>1 DEF Broken
<1>2. CASE PublisherNext
  <2>1. PICK p \in Runs : Start(p) \/ RunStep(p) \/ Crash(p) BY <1>2 DEF PublisherNext
  <2>2. CASE Touches(p) BY <1>1, <2>2 DEF Touches, IsNext, CopyHolds
  <2> QED BY <2>1, <2>2, UnitStep DEF Start, Crash, NextUnit, Finish, human
<1>3. CASE HumanNext
  BY <1>1, <1>3 DEF HumanNext, Approve, Edit, WriteApproved, TypeOK
<1>4. CASE Tick \/ UNCHANGED vars BY <1>4 DEF Tick, vars, human
<1> QED BY <1>2, <1>3, <1>4 DEF Next

\* The copy of the sole run holds along every behaviour, crashes included.
LEMMA CopyAlways ==
    ASSUME SoleRun, "mark" \notin Faults
    PROVE  Spec => []CopyHolds
<1>1. Init => CopyHolds BY DEF Init, CopyHolds
<1> QED BY <1>1, CopyStep, ConsentAlways, TypeCorrect, RunFacts, PTL DEF Spec

-----------------------------------------------------------------------------
\* The units a run is through with that are not broken, and the strengthening of
\* RunCap: no more of them than units counted, and a run that is inside a unit has
\* room for it.
Settled(p) ==
    {h \in sent[p] : IsHead(h) /\ ~Broken(h) /\ \A r \in left[p] : Parent[r] # h}

RunCount ==
    \A p \in Runs :
        /\ posted[p] <= MaxPostsPerRun
        /\ pc[p] \notin {"idle", "loop"} => posted[p] < MaxPostsPerRun /\ left[p] # {}
        /\ Cardinality(Settled(p)) <= posted[p]

\* Sets of rows are finite.
LEMMA RowSets ==
    ASSUME NEW S \in SUBSET Rows
    PROVE  IsFiniteSet(S) /\ Cardinality(S) \in Nat
BY RowsAssumption, FS_Subset, FS_CardinalityType

\* A set of rows that is part of another one, but for one row, has at most one more.
LEMMA OneMore ==
    ASSUME NEW S \in SUBSET Rows, NEW T \in SUBSET Rows, NEW h, S \subseteq T \cup {h}
    PROVE  Cardinality(S) <= Cardinality(T) + 1
<1>1. IsFiniteSet(T) /\ Cardinality(T) \in Nat BY RowSets
<1>2. IsFiniteSet(T \cup {h}) /\ Cardinality(T \cup {h}) <= Cardinality(T) + 1
  BY <1>1, FS_AddElement
<1>3. Cardinality(S) <= Cardinality(T \cup {h}) BY <1>2, FS_Subset
<1>4. Cardinality(S) \in Nat /\ Cardinality(T \cup {h}) \in Nat
  BY <1>2, RowSets, FS_CardinalityType
<1> QED BY <1>1, <1>2, <1>3, <1>4

\* How a step inside a unit counts: the unit is over when its last row is recorded,
\* and counts then, or when its last row is marked failed.
LEMMA CountingStep ==
    ASSUME TypeOK, "mark" \notin Faults, NEW p \in Runs, RunStep(p),
           ~NextUnit(p), ~Finish(p), left[p] # {}
    PROVE  /\ left'[p] # {} => posted'[p] = posted[p]
           /\ left'[p] = {} => \/ posted'[p] = posted[p] + 1
                               \/ /\ posted'[p] = posted[p]
                                  /\ \E r \in left[p] : queue'[r].status = "failed"
           /\ pc'[p] \notin {"idle", "loop"} => left'[p] # {}
           /\ \/ sent'[p] = sent[p]
              \/ \E r \in left[p] : left'[p] = left[p] /\ sent'[p] = sent[p] \cup {r}
<1> USE DEF TypeOK
<1>1. Touches(p) /\ pc[p] # "idle" BY UnitStep DEF Touches
<1>2. CASE Prepare(p) \/ PrepareFails(p) \/ PublishRefused(p) \/ RecordFails(p)
  BY <1>2 DEF Prepare, PrepareFails, PublishRefused, RecordFails, GoTo
<1>3. CASE PublishPost(p) \/ PublishUnacknowledged(p)
  BY <1>3 DEF PublishPost, PublishUnacknowledged, GoLive, IsNext
<1>4. CASE Record(p) BY <1>4 DEF Record
<1>5. CASE RecordUnacknowledged(p) BY <1>5 DEF RecordUnacknowledged, GoTo
<1>6. CASE MarkFailed(p)
  BY <1>1, <1>6, ResultRows DEF MarkFailed, Marked, IsNext
<1> QED BY <1>2, <1>3, <1>4, <1>5, <1>6 DEF RunStep, MarkLost

\* A step inside a unit keeps the count.
LEMMA CountTouches ==
    ASSUME TypeOK, TypeOK', OneUnit, CopyHolds, CopyHolds', SoleRun, "mark" \notin Faults,
           RunCount, [Next]_vars, NEW p \in Runs, RunStep(p), ~NextUnit(p), ~Finish(p)
    PROVE  RunCount'
<1>1. /\ Touches(p) /\ \A x \in Runs : x = p
      /\ pc[p] \notin {"idle", "loop"} /\ left'[p] \subseteq left[p] /\ left[p] \subseteq Rows
  BY UnitStep DEF SoleRun, Touches, TypeOK
<1>2. left[p] # {} /\ posted[p] < MaxPostsPerRun /\ Cardinality(Settled(p)) <= posted[p]
  BY <1>1 DEF RunCount
<1>3. /\ Settled(p) \in SUBSET Rows /\ Settled(p)' \in SUBSET Rows
      /\ posted[p] \in Nat /\ MaxPostsPerRun \in Nat
      /\ Cardinality(Settled(p)) \in Nat /\ Cardinality(Settled(p)') \in Nat
  BY RowSets, LimitsAssumption DEF Settled, TypeOK
<1>4. PICK u \in left[p] : TRUE BY <1>2
<1>5. \A r \in left[p] : Parent[r] = Parent[u] BY <1>4 DEF OneUnit
<1>6. \A h : ~Broken(h)' => ~Broken(h) BY BrokenStays
<1>7. \A h \in Settled(p)' : h \in sent[p] /\ IsHead(h) /\ ~Broken(h)
  <2> SUFFICES ASSUME NEW h \in Settled(p)' PROVE h \in sent[p] /\ IsHead(h) /\ ~Broken(h)
    OBVIOUS
  <2>1. /\ h \in sent'[p] /\ IsHead(h) /\ ~Broken(h)' /\ \A r \in left'[p] : Parent[r] # h
        /\ h \in Rows
    BY <1>3 DEF Settled, IsHead
  <2>2. h \notin left'[p] BY <2>1, HeadIsParent
  <2> QED BY <1>2, <1>6, <2>1, <2>2, CountingStep
<1>8. CASE left'[p] # {}
  <2>1. \A h \in Settled(p)' : \A r \in left[p] : Parent[r] # h
    BY <1>1, <1>5, <1>8 DEF Settled
  <2>2. Settled(p)' \subseteq Settled(p) BY <1>7, <2>1 DEF Settled
  <2>3. Cardinality(Settled(p)') <= Cardinality(Settled(p))
    BY <1>3, <2>2, RowSets, FS_Subset
  <2>4. posted'[p] = posted[p] BY <1>2, <1>8, CountingStep
  <2> QED BY <1>1, <1>2, <1>3, <1>8, <2>3, <2>4 DEF RunCount
<1>9. CASE left'[p] = {} /\ posted'[p] = posted[p] + 1
  <2>1. Settled(p)' \subseteq Settled(p) \cup {Parent[u]}
    BY <1>5, <1>7 DEF Settled
  <2>2. Cardinality(Settled(p)') <= Cardinality(Settled(p)) + 1
    BY <1>3, <2>1, OneMore
  <2>3. pc'[p] \in {"idle", "loop"} BY <1>2, <1>9, CountingStep
  <2> QED BY <1>1, <1>2, <1>3, <1>9, <2>2, <2>3 DEF RunCount
<1>10. CASE /\ left'[p] = {} /\ posted'[p] = posted[p]
            /\ \E r \in left[p] : queue'[r].status = "failed"
  <2>1. Broken(Parent[u])' BY <1>1, <1>5, <1>10 DEF Broken
  <2>2. \A h \in Settled(p)' : h # Parent[u] BY <2>1 DEF Settled
  <2>3. Settled(p)' \subseteq Settled(p) BY <1>5, <1>7, <2>2 DEF Settled
  <2>4. Cardinality(Settled(p)') <= Cardinality(Settled(p))
    BY <1>3, <2>3, RowSets, FS_Subset
  <2>5. pc'[p] \in {"idle", "loop"} BY <1>2, <1>10, CountingStep
  <2> QED BY <1>1, <1>2, <1>3, <1>10, <2>4, <2>5 DEF RunCount
<1> QED BY <1>2, <1>8, <1>9, <1>10, CountingStep

\* Every step of the system keeps the count of the sole run.
LEMMA CountStep ==
    ASSUME SoleRun, "mark" \notin Faults
    PROVE  /\ TypeOK /\ TypeOK' /\ OneUnit /\ CopyHolds /\ CopyHolds' /\ ConsentCovers
           /\ RunCount /\ [Next]_vars
           => RunCount'
<1> SUFFICES ASSUME TypeOK, TypeOK', OneUnit, CopyHolds, CopyHolds', ConsentCovers,
                    RunCount, [Next]_vars
             PROVE  RunCount'
  OBVIOUS
<1> USE LimitsAssumption
<1>1. \A h : ~Broken(h)' => ~Broken(h) BY BrokenStays
<1>2. ASSUME NEW p \in Runs PROVE /\ Settled(p) \in SUBSET Rows /\ Settled(p)' \in SUBSET Rows
                                  /\ Cardinality(Settled(p)) \in Nat
                                  /\ Cardinality(Settled(p)') \in Nat
  BY RowSets DEF Settled, TypeOK
<1>3. ASSUME NEW p \in Runs, posted'[p] = posted[p], Settled(p)' \subseteq Settled(p),
             pc'[p] \notin {"idle", "loop"} => posted[p] < MaxPostsPerRun /\ left'[p] # {}
      PROVE  RunCount'
  <2>1. Cardinality(Settled(p)') <= Cardinality(Settled(p))
    BY <1>2, <1>3, RowSets, FS_Subset
  <2>2. \A x \in Runs : x = p BY DEF SoleRun
  <2> QED BY <1>2, <1>3, <2>1, <2>2 DEF RunCount, TypeOK
<1>4. ASSUME NEW p \in Runs, Start(p) PROVE RunCount'
  <2>1. /\ posted'[p] = posted[p] /\ pc'[p] = "loop"
        /\ sent'[p] = sent[p] /\ left'[p] = left[p]
    BY <1>4 DEF Start, TypeOK
  <2>2. Settled(p)' \subseteq Settled(p) BY <1>1, <2>1 DEF Settled, IsHead
  <2> QED BY <1>3, <2>1, <2>2
<1>5. ASSUME NEW p \in Runs, NextUnit(p) PROVE RunCount'
  <2>1. PICK h \in todo[p] : left' = [left EXCEPT ![p] = Chain(snap[p], h)]
    BY <1>5 DEF NextUnit
  <2>2. /\ posted'[p] = posted[p] /\ sent'[p] = sent[p] /\ posted[p] < MaxPostsPerRun
        /\ pc[p] = "loop" /\ left[p] = {} /\ h \in Rows /\ left'[p] = Chain(snap[p], h)
    BY <1>5, <2>1 DEF NextUnit, RunHasRoom, CopyHolds, TypeOK
  <2>3. SeqNo[h] = 0 /\ Parent[h] = h /\ snap[p][h].status = "approved"
    BY <2>2, HeadIsParent DEF ConsentCovers, IsHead, IsDue
  <2>4. h \in Chain(snap[p], h) BY <2>2, <2>3 DEF Chain
  <2>5. Settled(p)' \subseteq Settled(p) BY <1>1, <2>2 DEF Settled, IsHead
  <2> QED BY <1>3, <2>2, <2>4, <2>5
<1>6. ASSUME NEW p \in Runs, Reset(p) PROVE RunCount'
  <2>1. posted'[p] = 0 /\ pc'[p] = "idle" /\ sent'[p] = {} BY <1>6 DEF Reset, TypeOK
  <2>2. Settled(p)' = {} BY <2>1 DEF Settled
  <2>3. \A x \in Runs : x = p BY DEF SoleRun
  <2> QED BY <2>1, <2>2, <2>3, FS_EmptySet DEF RunCount
<1>7. CASE PublisherNext
  BY <1>7, <1>4, <1>5, <1>6, CountTouches DEF PublisherNext, Finish, Crash
<1>8. ASSUME UNCHANGED run PROVE RunCount'
  <2>1. ASSUME NEW p \in Runs PROVE Settled(p)' \subseteq Settled(p)
    BY <1>1, <1>8 DEF Settled, IsHead, run
  <2> QED BY <1>3, <1>8, <2>1 DEF RunCount, run
<1>9. CASE HumanNext \/ Tick \/ UNCHANGED vars
  BY <1>8, <1>9 DEF HumanNext, Approve, Edit, WriteApproved, Tick, vars
<1> QED BY <1>7, <1>9 DEF Next

\* No run has put out anything at the start.
LEMMA RunCountInit == Init => RunCount
<1> SUFFICES ASSUME Init, NEW p \in Runs
             PROVE  /\ posted[p] <= MaxPostsPerRun
                    /\ pc[p] \in {"idle", "loop"}
                    /\ Cardinality(Settled(p)) <= posted[p]
  BY DEF RunCount
<1>1. posted[p] = 0 /\ pc[p] = "idle" /\ sent[p] = {} BY DEF Init
<1>2. Settled(p) = {} BY <1>1 DEF Settled
<1> QED BY <1>1, <1>2, FS_EmptySet, LimitsAssumption

\* The count holds along every behaviour of a sole run.
LEMMA CountAlways ==
    ASSUME SoleRun, "mark" \notin Faults
    PROVE  Spec => []RunCount
BY RunCountInit, CountStep, CopyAlways, ConsentAlways, TypeCorrect, RunFacts, PTL DEF Spec

\* The units a run has put out that are not broken: those it is through with, and
\* at most the one it is in.
LEMMA CountIsCap ==
    ASSUME TypeOK, OneUnit, CopyHolds, ConsentCovers, RunCount
    PROVE  RunCap
<1> SUFFICES ASSUME NEW p \in Runs
             PROVE  Cardinality({h \in sent[p] : IsHead(h) /\ ~Broken(h)}) <= MaxPostsPerRun
  BY DEF RunCap
<1> DEFINE Out == {h \in sent[p] : IsHead(h) /\ ~Broken(h)}
<1>1. /\ Out \in SUBSET Rows /\ Settled(p) \in SUBSET Rows
      /\ Cardinality(Out) \in Nat /\ Cardinality(Settled(p)) \in Nat
      /\ posted[p] \in Nat /\ MaxPostsPerRun \in Nat
      /\ posted[p] <= MaxPostsPerRun /\ Cardinality(Settled(p)) <= posted[p]
  BY RowSets, LimitsAssumption DEF Settled, TypeOK, RunCount
<1>2. CASE left[p] = {}
  <2>1. Out = Settled(p) BY <1>2 DEF Settled
  <2> QED BY <1>1, <2>1
<1>3. CASE left[p] # {}
  <2>1. PICK u \in left[p] : TRUE BY <1>3
  <2>2. \A r \in left[p] : Parent[r] = Parent[u] BY <2>1 DEF OneUnit
  <2>3. posted[p] < MaxPostsPerRun BY <1>3 DEF RunCount, ConsentCovers, CopyHolds
  <2>4. Out \subseteq Settled(p) \cup {Parent[u]} BY <2>2 DEF Settled
  <2>5. Cardinality(Out) <= Cardinality(Settled(p)) + 1 BY <1>1, <2>4, OneMore
  <2> QED BY <1>1, <2>3, <2>5
<1> QED BY <1>2, <1>3

\* "At most 1 post per invocation", counted in units that are not broken, is kept by
\* a sole run whose failed marks are written: for every limit, however its calls
\* fail, with lost acknowledgements, crashes and edits at any moment.
THEOREM RunsStayWithinCap ==
    ASSUME SoleRun, "mark" \notin Faults
    PROVE  Spec => []RunCap
BY CountIsCap, CountAlways, CopyAlways, ConsentAlways, TypeCorrect, RunFacts, PTL

-----------------------------------------------------------------------------
\* Why the sheet knows when a unit went out: the head of a live reply is posted for
\* good, and a row the run goes on with has its head posted or still to come.
HeadsKept ==
    /\ \A r \in LiveRows : ~IsHead(r)
          => /\ queue[Parent[r]].status = "posted"
             /\ \A p \in Runs : Parent[r] \notin left[p]
    /\ \A p \in Runs : Publishing(p) =>
          \A r \in left[p] : \/ Parent[r] \in left[p]
                             \/ queue[Parent[r]].status = "posted"

\* Posts on the feed are of rows of the sheet, by runs that began at some hour.
LEMMA FeedRows ==
    ASSUME TypeOK
    PROVE  /\ \A i \in DOMAIN feed : feed[i].row \in Rows /\ feed[i].began \in Nat
           /\ LiveRows \subseteq Rows
           /\ DOMAIN feed = 1..Len(feed) /\ Len(feed) \in Nat
<1>1. feed \in Seq(Post) BY DEF TypeOK
<1>2. \A e \in Post : e.row \in Rows /\ e.began \in Nat BY DEF Post
<1>3. \A i \in DOMAIN feed : feed[i] \in Post BY <1>1
<1> QED BY <1>1, <1>2, <1>3 DEF LiveRows

\* A step inside a unit records the head before it publishes a reply.
LEMMA HeadsTouches ==
    ASSUME TypeOK, OneUnit, SoleRun, HeadsKept, CopyHolds, NEW p \in Runs, Touches(p)
    PROVE  HeadsKept'
<1>1. /\ \A x \in Runs : x = p
      /\ left'[p] \subseteq left[p] /\ left[p] \subseteq Rows
      /\ \A r \in Rows \ left[p] : queue'[r] = queue[r]
  BY DEF SoleRun, Touches, TypeOK, IsNext
<1>2. \A r \in Rows : Parent[r] \in Rows /\ SeqNo[r] \in Nat /\ SeqNo[Parent[r]] = 0
  BY RowsAssumption
<1>3. ASSUME NEW r \in LiveRows, r \in Rows, ~IsHead(r)
      PROVE  queue'[Parent[r]].status = "posted" /\ Parent[r] \notin left'[p]
  BY <1>1, <1>2, <1>3 DEF HeadsKept
<1>4. ASSUME NEW r \in Rows, pc[p] = "publish", IsNext(r, p), ~IsHead(r)
      PROVE  queue'[Parent[r]].status = "posted" /\ Parent[r] \notin left'[p]
  <2>1. Parent[r] \notin left[p] BY <1>2, <1>4 DEF IsNext, IsHead
  <2>2. queue[Parent[r]].status = "posted" BY <1>4, <2>1 DEF HeadsKept, Publishing, IsNext
  <2> QED BY <1>1, <1>2, <2>1, <2>2
<1>5. LiveRows \subseteq Rows BY FeedRows
<1>6. ASSUME NEW r \in LiveRows', ~IsHead(r)
      PROVE  queue'[Parent[r]].status = "posted" /\ Parent[r] \notin left'[p]
  BY <1>3, <1>4, <1>5, <1>6, LiveRowsGrow
<1>7. ASSUME Publishing(p)', NEW r \in left'[p]
      PROVE  Parent[r] \in left'[p] \/ queue'[Parent[r]].status = "posted"
  <2>1. Publishing(p) /\ r \in left[p] /\ Parent[r] \in Rows
    BY <1>1, <1>2, <1>7 DEF Touches, Publishing
  <2>2. CASE Parent[r] \notin left[p] BY <1>1, <2>1, <2>2 DEF HeadsKept
  <2>3. CASE Parent[r] \in left[p] /\ left'[p] # left[p]
    <3>1. PICK q \in Rows : /\ IsNext(q, p) /\ left'[p] = left[p] \ {q}
                            /\ queue'[q] = PostedRow(snap[p][q], media[p], began[p])
      BY <1>7, <2>3 DEF Touches, Publishing
    <3>2. queue'[q].status = "posted" BY <3>1, ResultRows DEF Touches
    <3> QED BY <2>3, <3>1, <3>2
  <2> QED BY <2>2, <2>3
<1> QED BY <1>1, <1>6, <1>7 DEF HeadsKept, IsHead

\* Every step of the system keeps the heads of live replies posted.
LEMMA HeadsStep ==
    ASSUME SoleRun, "mark" \notin Faults
    PROVE  TypeOK /\ OneUnit /\ CopyHolds /\ ConsentCovers /\ HeadsKept /\ [Next]_vars
           => HeadsKept'
<1> SUFFICES ASSUME TypeOK, OneUnit, CopyHolds, ConsentCovers, HeadsKept, [Next]_vars
             PROVE  HeadsKept'
  OBVIOUS
<1>1. ASSUME NEW p \in Runs, feed' = feed, queue' = queue, left'[p] = {} PROVE HeadsKept'
  BY <1>1 DEF HeadsKept, LiveRows, IsHead, SoleRun
<1>2. ASSUME NEW p \in Runs, NextUnit(p) PROVE HeadsKept'
  <2>1. PICK h \in todo[p] : left' = [left EXCEPT ![p] = Chain(snap[p], h)]
    BY <1>2 DEF NextUnit
  <2>2. /\ \A x \in Runs : x = p
        /\ queue' = queue /\ feed' = feed /\ pc[p] = "loop"
        /\ h \in Rows /\ left'[p] = Chain(snap[p], h)
    BY <1>2, <2>1 DEF SoleRun, NextUnit, human, TypeOK
  <2>3. IsHead(h) /\ Parent[h] = h /\ snap[p][h].status = "approved" /\ SeqNo[h] = 0
    BY <2>2, HeadIsParent DEF ConsentCovers, IsDue, IsHead
  <2>4. h \in left'[p] BY <2>2, <2>3 DEF Chain
  <2>5. \A r \in left'[p] : /\ r \in Rows /\ Parent[r] = h
                            /\ snap[p][r].status = "approved"
    BY <2>2, ChainProperties
  <2>6. \A r \in left'[p] : queue[r].status = "approved"
    BY <2>2, <2>5 DEF CopyHolds
  <2>7. LiveRows' = LiveRows BY <2>2 DEF LiveRows
  <2> QED BY <2>2, <2>4, <2>5, <2>6, <2>7 DEF HeadsKept, IsHead
<1>3. CASE PublisherNext
  <2>1. PICK p \in Runs : Start(p) \/ RunStep(p) \/ Crash(p) BY <1>3 DEF PublisherNext
  <2>2. CASE Start(p) BY <1>1, <2>2 DEF Start, human, ConsentCovers, TypeOK
  <2>3. CASE Crash(p) \/ Finish(p)
    BY <1>1, <2>3 DEF Crash, Finish, Reset, human, TypeOK
  <2> QED BY <1>2, <2>1, <2>2, <2>3, UnitStep, HeadsTouches
<1>4. CASE HumanNext
  <2>1. PICK r \in Rows, t \in Texts, c \in Cells :
           /\ queue[r].status \in {"draft", "approved"} /\ WriteApproved(r, t, c)
    BY <1>4 DEF HumanNext, Approve, Edit
  <2>2. /\ UNCHANGED <<feed, run>> /\ \A q \in Rows \ {r} : queue'[q] = queue[q]
    BY <2>1 DEF WriteApproved, TypeOK
  <2>3. \A q \in Rows : queue[q].status = "posted" => queue'[q].status = "posted"
    BY <2>1, <2>2
  <2>4. /\ LiveRows' = LiveRows /\ LiveRows \subseteq Rows
        /\ pc' = pc /\ left' = left /\ \A p \in Runs : left[p] \subseteq Rows
    BY <2>2, FeedRows DEF LiveRows, TypeOK, run
  <2>5. \A q \in Rows : Parent[q] \in Rows BY RowsAssumption
  <2> QED BY <2>3, <2>4, <2>5 DEF HeadsKept, IsHead, Publishing
<1>5. CASE Tick \/ UNCHANGED vars
  BY <1>5 DEF Tick, vars, human, run, HeadsKept, LiveRows, IsHead, Publishing
<1> QED BY <1>3, <1>4, <1>5 DEF Next

\* When no run is under way, the sheet has the hour of every post of a unit that is
\* not broken: of a head in its own row.
LEMMA RecordedWhenIdle ==
    ASSUME TypeOK, OwnsItsUnits, HeadsKept, PostedIsReal, NoDoublePost, ThreadsInOrder,
           \A p \in Runs : pc[p] = "idle",
           NEW i \in DOMAIN feed, ~Broken(feed[i].row)
    PROVE  \E q \in Rows : /\ IsHead(q) /\ Parent[feed[i].row] = q
                           /\ queue[q].status = "posted"
                           /\ queue[q].posted_at = feed[i].began
<1> DEFINE r == feed[i].row
<1>1. r \in Rows /\ SeqNo[r] \in Nat /\ Parent[r] \in Rows /\ SeqNo[Parent[r]] = 0
      /\ r \in LiveRows /\ DOMAIN feed = 1..Len(feed) /\ Len(feed) \in Nat
  BY RowsAssumption, FeedRows DEF LiveRows
<1>2. queue[Parent[r]].status = "posted"
  <2>1. CASE IsHead(r)
    <3>1. Parent[r] = r BY <1>1, <2>1, HeadIsParent
    <3>2. queue[r].status \in Statuses BY <1>1 DEF TypeOK, Row
    <3>3. queue[r].status # "failed" BY <1>1, <3>1 DEF Broken
    <3>4. queue[r].status # "draft" BY <1>1 DEF OwnsItsUnits
    <3>5. queue[r].status # "approved" BY <1>1 DEF OwnsItsUnits
    <3> QED BY <3>1, <3>2, <3>3, <3>4, <3>5 DEF Statuses
  <2>2. CASE ~IsHead(r) BY <1>1, <2>2 DEF HeadsKept
  <2> QED BY <2>1, <2>2
<1>3. PICK j \in DOMAIN feed : feed[j].row = Parent[r] /\ feed[j].began = feed[i].began
  <2>1. CASE IsHead(r) BY <1>1, <2>1, HeadIsParent
  <2>2. CASE ~IsHead(r)
    <3>1. 0 \in 0..(SeqNo[r] - 1) BY <1>1, <2>2 DEF IsHead
    <3>2. PICK j \in 1..(i - 1) : /\ Parent[feed[j].row] = Parent[r]
                                  /\ SeqNo[feed[j].row] = 0
                                  /\ feed[j].began = feed[i].began
      BY <3>1 DEF ThreadsInOrder
    <3>3. j \in DOMAIN feed BY <1>1, <3>2
    <3>4. feed[j].row \in Rows BY <3>3, FeedRows
    <3>5. feed[j].row = Parent[r] BY <3>2, <3>4, HeadIsParent DEF IsHead
    <3> QED BY <3>2, <3>3, <3>5
  <2> QED BY <2>1, <2>2
<1>4. /\ queue[Parent[r]].posted_post_id \in DOMAIN feed
      /\ feed[queue[Parent[r]].posted_post_id].row = Parent[r]
      /\ feed[queue[Parent[r]].posted_post_id].began = queue[Parent[r]].posted_at
  BY <1>1, <1>2 DEF PostedIsReal
<1>5. queue[Parent[r]].posted_at = feed[i].began
  BY <1>3, <1>4 DEF NoDoublePost
<1> QED BY <1>1, <1>2, <1>5 DEF IsHead

\* What RecordedWhenIdle needs holds along every behaviour of a sole run that does
\* not die.
SheetKnows ==
    /\ TypeOK /\ CopyHolds /\ OwnsItsUnits /\ HeadsKept
    /\ PostedIsReal /\ NoDoublePost /\ ThreadsInOrder

\* The invariants of the modules before, and HeadsKept, together.
LEMMA SheetKnowsAlways ==
    ASSUME SoleRun, "mark" \notin Faults, "crash" \notin Faults
    PROVE  Spec => []SheetKnows
<1>1. Init => HeadsKept
  BY DEF Init, HeadsKept, LiveRows, Publishing
<1> QED BY <1>1, HeadsStep, CopyAlways, OwnsAlways, ConsentAlways, TypeCorrect, RunFacts,
           PostedRowsAreReal, NothingGoesOutTwice, ThreadsGoOutInOrder, PTL
        DEF Spec, SheetKnows

-----------------------------------------------------------------------------
\* The strengthening of MinGap: what is live of units that are not broken is by the
\* run under way or MinHours older than it.
RunApart ==
    \A p \in Runs : pc[p] # "idle" =>
        \A i \in DOMAIN feed : ~Broken(feed[i].row) =>
            feed[i].began = began[p] \/ began[p] - feed[i].began >= MinHours

\* A step adds to the feed only what a run under way publishes.
LEMMA FeedStep ==
    ASSUME TypeOK, [Next]_vars
    PROVE  \/ feed' = feed
           \/ \E p \in Runs : RunStep(p) /\ Touches(p) /\ feed' # feed
<1>1. CASE PublisherNext
  BY <1>1, UnitStep DEF PublisherNext, Start, NextUnit, Finish, Crash
<1>2. CASE HumanNext \/ Tick \/ UNCHANGED vars
  BY <1>2 DEF HumanNext, Approve, Edit, WriteApproved, Tick, vars
<1> QED BY <1>1, <1>2 DEF Next

\* A run that starts is MinHours after everything the sheet knows of.
LEMMA StartIsApart ==
    ASSUME SheetKnows, SoleRun, NEW p \in Runs, Start(p)
    PROVE  RunApart'
<1>1. /\ \A x \in Runs : x = p /\ pc[x] = "idle"
      /\ feed' = feed /\ queue' = queue /\ began'[p] = now /\ ~TooSoon(queue, now)
  BY DEF SheetKnows, SoleRun, Start, GuardsPass, human, TypeOK
<1> SUFFICES ASSUME NEW i \in DOMAIN feed, ~Broken(feed[i].row)
             PROVE  now - feed[i].began >= MinHours
  BY <1>1 DEF RunApart, Broken
<1>2. PICK q \in Rows : queue[q].status = "posted" /\ queue[q].posted_at = feed[i].began
  BY <1>1, RecordedWhenIdle DEF SheetKnows
<1>3. feed[i].began \in Nat /\ now \in Nat /\ MinHours \in Nat
  BY FeedRows, LimitsAssumption DEF SheetKnows, TypeOK
<1>4. feed[i].began \in PostedTimes(queue) BY <1>2, <1>3 DEF PostedTimes, NoTime
<1>5. ~(now - feed[i].began < MinHours) BY <1>1, <1>4 DEF TooSoon
<1> QED BY <1>3, <1>5

\* Every step of the system keeps the run under way apart from the others.
LEMMA ApartStep ==
    ASSUME SoleRun, "mark" \notin Faults
    PROVE  SheetKnows /\ RunApart /\ [Next]_vars => RunApart'
<1> SUFFICES ASSUME SheetKnows, RunApart, [Next]_vars PROVE RunApart'
  OBVIOUS
<1>1. \A h : ~Broken(h)' => ~Broken(h) BY BrokenStays DEF SheetKnows
<1>2. ASSUME feed' = feed, began' = began,
             \A x \in Runs : pc'[x] # "idle" => pc[x] # "idle"
      PROVE  RunApart'
  BY <1>1, <1>2 DEF RunApart
<1>3. ASSUME NEW p \in Runs, Touches(p) PROVE RunApart'
  <2>1. TypeOK /\ began' = began /\ pc[p] # "idle" /\ \A x \in Runs : x = p
    BY <1>3 DEF Touches, SheetKnows, SoleRun
  <2>2. CASE feed' = feed BY <1>2, <2>1, <2>2
  <2>3. CASE feed' # feed
    <3>1. PICK r \in Rows : /\ DOMAIN feed' = DOMAIN feed \cup {Len(feed) + 1}
                            /\ feed'[Len(feed) + 1] = PostOf(p, r)
                            /\ \A i \in DOMAIN feed : feed'[i] = feed[i]
      BY <1>3, <2>1, <2>3, FeedGrows
    <3>2. PostOf(p, r).began = began[p] BY DEF PostOf
    <3> QED BY <1>1, <2>1, <3>1, <3>2 DEF RunApart
  <2> QED BY <2>2, <2>3
<1>4. CASE PublisherNext
  <2>1. PICK p \in Runs : Start(p) \/ RunStep(p) \/ Crash(p) BY <1>4 DEF PublisherNext
  <2>2. CASE NextUnit(p)
    BY <1>2, <2>2 DEF NextUnit
  <2>3. CASE Reset(p)
    BY <2>3 DEF Reset, RunApart, SoleRun, SheetKnows, TypeOK
  <2> QED BY <1>3, <2>1, <2>2, <2>3, UnitStep, StartIsApart DEF SheetKnows, Finish, Crash
<1>5. CASE HumanNext \/ Tick \/ UNCHANGED vars
  BY <1>2, <1>5 DEF HumanNext, Approve, Edit, WriteApproved, Tick, vars, run
<1> QED BY <1>4, <1>5 DEF Next

\* The run under way stays apart along every behaviour of a sole run.
LEMMA ApartAlways ==
    ASSUME SoleRun, "mark" \notin Faults, "crash" \notin Faults
    PROVE  Spec => []RunApart
<1>1. Init => RunApart BY DEF Init, RunApart
<1> QED BY <1>1, ApartStep, SheetKnowsAlways, PTL DEF Spec

\* MinGap, said of the posts on the feed.
PostsApart ==
    \A i, j \in DOMAIN feed :
        ~Broken(feed[i].row) /\ ~Broken(feed[j].row) /\ feed[i].began < feed[j].began
            => feed[j].began - feed[i].began >= MinHours

\* A post goes out MinHours after those of other runs.
LEMMA PostsApartStep ==
    ASSUME SoleRun, "mark" \notin Faults
    PROVE  SheetKnows /\ RunApart /\ PostsApart /\ [Next]_vars => PostsApart'
<1> SUFFICES ASSUME SheetKnows, RunApart, PostsApart, [Next]_vars,
                    NEW i \in DOMAIN feed', NEW j \in DOMAIN feed',
                    ~Broken(feed[i].row)', ~Broken(feed[j].row)',
                    feed'[i].began < feed'[j].began
             PROVE  feed'[j].began - feed'[i].began >= MinHours
  BY DEF PostsApart
<1>1. ~Broken(feed'[i].row) /\ ~Broken(feed'[j].row)
  <2>1. \A h : ~Broken(h)' => ~Broken(h) BY BrokenStays DEF SheetKnows
  <2> QED BY <2>1 DEF Broken
<1>2. CASE feed' = feed BY <1>1, <1>2 DEF PostsApart
<1>3. CASE feed' # feed
  <2>1. PICK p \in Runs : Touches(p) BY <1>3, FeedStep DEF SheetKnows
  <2>2. PICK r \in Rows : /\ DOMAIN feed' = DOMAIN feed \cup {Len(feed) + 1}
                          /\ feed'[Len(feed) + 1] = PostOf(p, r)
                          /\ \A k \in DOMAIN feed : feed'[k] = feed[k]
    BY <1>3, <2>1, FeedGrows DEF SheetKnows
  <2>3. /\ PostOf(p, r).began = began[p] /\ pc[p] # "idle"
        /\ began[p] \in Nat /\ MinHours \in Nat
        /\ \A k \in DOMAIN feed : feed[k].began \in Nat
    BY <2>1, FeedRows, LimitsAssumption DEF PostOf, Touches, SheetKnows, TypeOK
  <2>4. CASE i \in DOMAIN feed /\ j \in DOMAIN feed
    BY <1>1, <2>2, <2>4 DEF PostsApart
  <2>5. CASE i \in DOMAIN feed /\ j = Len(feed) + 1
    BY <1>1, <2>2, <2>3, <2>5 DEF RunApart
  <2>6. CASE i = Len(feed) + 1
    BY <1>1, <2>2, <2>3, <2>6 DEF RunApart
  <2> QED BY <2>2, <2>4, <2>5, <2>6
<1> QED BY <1>2, <1>3

\* MIN_HOURS_BETWEEN_POSTS is kept by a sole run that does not die and whose failed
\* marks are written: what is live of two units that are not broken is by one run or
\* by runs that began MinHours apart, for every limit, however calls fail, with lost
\* acknowledgements and edits at any moment.
THEOREM UnitsAreApart ==
    ASSUME SoleRun, "mark" \notin Faults, "crash" \notin Faults
    PROVE  Spec => []MinGap
<1>1. Init => PostsApart BY DEF Init, PostsApart
<1>2. PostsApart => MinGap BY DEF PostsApart, MinGap, WentOut
<1> QED BY <1>1, <1>2, PostsApartStep, ApartAlways, SheetKnowsAlways, PTL DEF Spec

-----------------------------------------------------------------------------
\* The units that are not broken and went out on day d, as DailyCap counts them.
OutOn(d) ==
    {h \in Rows : IsHead(h) /\ ~Broken(h) /\ \E t \in WentOut(h) : Day(t) = d}

\* The strengthening of DailyCap.  A run only starts below the cap, and does not look
\* again: the units it puts out itself come on top of fewer than MaxPostsPerDay, so a
\* run that may put out several can pass the cap by all but one of them.
DayCount ==
    \A d :
        /\ Cardinality(OutOn(d)) <= MaxPostsPerDay + MaxPostsPerRun - 1
        /\ \A p \in Runs : pc[p] # "idle" /\ Day(began[p]) = d
              => Cardinality(OutOn(d) \ sent[p]) < MaxPostsPerDay

\* A run remembers what it puts on the feed.
LEMMA SentStep ==
    ASSUME TypeOK, NEW p \in Runs, RunStep(p), Touches(p)
    PROVE  \/ feed' = feed /\ sent' = sent
           \/ \E r \in Rows : /\ feed' = Append(feed, PostOf(p, r))
                              /\ sent' = [sent EXCEPT ![p] = @ \cup {r}]
<1>1. CASE PublishPost(p) \/ PublishUnacknowledged(p)
  BY <1>1 DEF PublishPost, PublishUnacknowledged, GoLive
<1>2. CASE NextUnit(p) \/ Finish(p) BY <1>2 DEF Touches, NextUnit, Finish
<1> QED BY <1>1, <1>2 DEF RunStep, Prepare, PrepareFails, PublishRefused, Record,
           RecordFails, RecordUnacknowledged, MarkFailed, MarkLost, Marked, GoTo

\* A run that starts does so below the cap of the day, by what the sheet knows.
LEMMA StartBelowCap ==
    ASSUME SheetKnows, SoleRun, NEW p \in Runs, Start(p)
    PROVE  Cardinality(OutOn(Day(now))) < MaxPostsPerDay
<1>1. (\A x \in Runs : pc[x] = "idle") /\ ~CapReached(queue, now)
  BY DEF SoleRun, Start, GuardsPass
<1>2. OutOn(Day(now)) \subseteq PostedOn(queue, Day(now))
  <2> SUFFICES ASSUME NEW h \in OutOn(Day(now)) PROVE h \in PostedOn(queue, Day(now))
    OBVIOUS
  <2>1. PICK i \in DOMAIN feed : feed[i].row = h /\ Day(feed[i].began) = Day(now)
    BY DEF OutOn, WentOut
  <2>2. h \in Rows /\ IsHead(h) /\ Parent[h] = h /\ ~Broken(feed[i].row)
    BY <2>1, HeadIsParent DEF OutOn
  <2>3. queue[h].status = "posted" /\ queue[h].posted_at = feed[i].began
    BY <1>1, <2>1, <2>2, RecordedWhenIdle DEF SheetKnows
  <2>4. queue[h].posted_at # NoTime BY <2>3, FeedRows DEF SheetKnows, NoTime
  <2> QED BY <2>1, <2>2, <2>3, <2>4 DEF PostedOn
<1>3. /\ PostedOn(queue, Day(now)) \in SUBSET Rows /\ OutOn(Day(now)) \in SUBSET Rows
      /\ MaxPostsPerDay \in Nat
  BY LimitsAssumption DEF PostedOn, OutOn
<1>4. Cardinality(OutOn(Day(now))) <= Cardinality(PostedOn(queue, Day(now)))
  BY <1>2, <1>3, RowSets, FS_Subset
<1> QED BY <1>1, <1>3, <1>4, RowSets DEF CapReached

\* What a publication adds to the day of its run, it adds to the run's own units.
LEMMA DayTouches ==
    ASSUME TypeOK, CopyHolds, RunCap', DayCount, SoleRun, MaxPostsPerRun >= 1,
           sent' \in [Runs -> SUBSET Rows], [Next]_vars,
           NEW p \in Runs, RunStep(p), Touches(p)
    PROVE  DayCount'
<1> USE LimitsAssumption
<1>1. /\ \A x \in Runs : x = p /\ began' = began /\ pc[p] # "idle" /\ began[p] \in Nat
      /\ \A h : ~Broken(h)' => ~Broken(h)
      /\ sent \in [Runs -> SUBSET Rows]
  BY BrokenStays DEF Touches, SoleRun, TypeOK
<1>2. ASSUME NEW d PROVE OutOn(d)' \subseteq Rows /\ OutOn(d) \subseteq Rows
  BY DEF OutOn
<1>3. CASE feed' = feed /\ sent' = sent
  <2>1. ASSUME NEW d PROVE OutOn(d)' \subseteq OutOn(d)
    BY <1>1, <1>3 DEF OutOn, WentOut, IsHead
  <2>2. ASSUME NEW d PROVE Cardinality(OutOn(d)') <= Cardinality(OutOn(d))
    BY <1>2, <2>1, RowSets, FS_Subset
  <2>3. ASSUME NEW d
        PROVE  Cardinality(OutOn(d)' \ sent[p]) <= Cardinality(OutOn(d) \ sent[p])
    <3>1. OutOn(d)' \ sent[p] \subseteq OutOn(d) \ sent[p] BY <2>1
    <3> QED BY <1>2, <3>1, RowSets, FS_Subset
  <2>4. ASSUME NEW d
        PROVE  /\ Cardinality(OutOn(d)') \in Nat /\ Cardinality(OutOn(d)) \in Nat
               /\ Cardinality(OutOn(d)' \ sent[p]) \in Nat
               /\ Cardinality(OutOn(d) \ sent[p]) \in Nat
    <3>1. OutOn(d)' \ sent[p] \in SUBSET Rows /\ OutOn(d) \ sent[p] \in SUBSET Rows
      BY <1>2
    <3> QED BY <1>2, <3>1, RowSets
  <2>5. ASSUME NEW d
        PROVE  /\ Cardinality(OutOn(d)') <= MaxPostsPerDay + MaxPostsPerRun - 1
               /\ Day(began[p]) = d => Cardinality(OutOn(d)' \ sent[p]) < MaxPostsPerDay
    <3>1. /\ Cardinality(OutOn(d)) <= MaxPostsPerDay + MaxPostsPerRun - 1
          /\ Day(began[p]) = d => Cardinality(OutOn(d) \ sent[p]) < MaxPostsPerDay
      BY <1>1 DEF DayCount
    <3>2. Cardinality(OutOn(d)') <= Cardinality(OutOn(d)) BY <2>2
    <3>3. Cardinality(OutOn(d)' \ sent[p]) <= Cardinality(OutOn(d) \ sent[p]) BY <2>3
    <3>4. /\ Cardinality(OutOn(d)') \in Nat /\ Cardinality(OutOn(d)) \in Nat
          /\ Cardinality(OutOn(d)' \ sent[p]) \in Nat
          /\ Cardinality(OutOn(d) \ sent[p]) \in Nat
      BY <2>4
    <3>5. MaxPostsPerDay \in Nat /\ MaxPostsPerRun \in Nat OBVIOUS
    <3>6. Cardinality(OutOn(d)') <= MaxPostsPerDay + MaxPostsPerRun - 1
      BY <3>1, <3>2, <3>4, <3>5
    <3>7. Day(began[p]) = d => Cardinality(OutOn(d)' \ sent[p]) < MaxPostsPerDay
      BY <3>1, <3>3, <3>4, <3>5
    <3> QED BY <3>6, <3>7
  <2> QED BY <1>1, <1>3, <2>5 DEF DayCount
<1>4. ASSUME NEW r \in Rows, feed' = Append(feed, PostOf(p, r)),
             sent' = [sent EXCEPT ![p] = @ \cup {r}]
      PROVE  DayCount'
  <2>0. PICK today : today = Day(began[p]) OBVIOUS
  <2> DEFINE mine == {h \in sent'[p] : IsHead(h) /\ ~Broken(h)'}
  <2>1. /\ PostOf(p, r).row = r /\ PostOf(p, r).began = began[p]
        /\ DOMAIN feed' = DOMAIN feed \cup {Len(feed) + 1}
        /\ feed'[Len(feed) + 1] = PostOf(p, r)
        /\ \A i \in DOMAIN feed : feed'[i] = feed[i]
        /\ sent'[p] = sent[p] \cup {r}
    BY <1>1, <1>4 DEF PostOf, TypeOK
  <2>2. ASSUME NEW h \in Rows, NEW t \in WentOut(h)'
        PROVE  t \in WentOut(h) \/ (h = r /\ t = began[p])
    <3>1. PICK i \in DOMAIN feed' : feed'[i].row = h /\ feed'[i].began = t
      BY <2>2 DEF WentOut
    <3> QED BY <2>1, <3>1 DEF WentOut
  <2>3. ASSUME NEW d, NEW h \in OutOn(d)', h \notin OutOn(d)
        PROVE  d = today /\ h = r
    <3>1. PICK t \in WentOut(h)' : Day(t) = d /\ h \in Rows /\ IsHead(h) /\ ~Broken(h)
      BY <1>1, <2>3 DEF OutOn, IsHead, Day
    <3> QED BY <2>0, <2>2, <2>3, <3>1 DEF OutOn
  <2>4. OutOn(today)' \ sent'[p] \subseteq OutOn(today) \ sent[p]
    BY <2>1, <2>3
  <2>5. /\ OutOn(today)' \ sent'[p] \in SUBSET Rows /\ OutOn(today) \ sent[p] \in SUBSET Rows
        /\ mine \in SUBSET Rows
    BY <1>1, <1>2
  <2>6. Cardinality(OutOn(today)' \ sent'[p]) < MaxPostsPerDay
    <3>1. Cardinality(OutOn(today) \ sent[p]) < MaxPostsPerDay
      BY <1>1, <2>0 DEF DayCount
    <3>2. Cardinality(OutOn(today)' \ sent'[p]) <= Cardinality(OutOn(today) \ sent[p])
      BY <2>4, <2>5, RowSets, FS_Subset
    <3> QED BY <2>5, <3>1, <3>2, RowSets
  <2>7. Cardinality(mine) <= MaxPostsPerRun BY DEF RunCap, IsHead
  <2>8. OutOn(today)' \subseteq (OutOn(today)' \ sent'[p]) \cup mine
    BY DEF OutOn, IsHead
  <2>9. Cardinality(OutOn(today)') <= MaxPostsPerDay + MaxPostsPerRun - 1
    <3> DEFINE others == OutOn(today)' \ sent'[p]
    <3> HIDE DEF mine, others
    <3>1. /\ others \in SUBSET Rows /\ mine \in SUBSET Rows /\ OutOn(today)' \in SUBSET Rows
          /\ OutOn(today)' \subseteq others \cup mine
          /\ Cardinality(others) < MaxPostsPerDay
      BY <1>2, <2>5, <2>6, <2>8 DEF others
    <3>2. others \cup mine \in SUBSET Rows /\ others \cap mine \in SUBSET Rows
      BY <3>1
    <3>3. Cardinality(others \cup mine)
             = Cardinality(others) + Cardinality(mine) - Cardinality(others \cap mine)
      BY <3>1, RowSets, FS_Union
    <3>4. Cardinality(OutOn(today)') <= Cardinality(others \cup mine)
      BY <3>1, <3>2, RowSets, FS_Subset
    <3> QED BY <2>7, <3>1, <3>2, <3>3, <3>4, RowSets
  <2>10. ASSUME NEW d, d # today
         PROVE  Cardinality(OutOn(d)') <= MaxPostsPerDay + MaxPostsPerRun - 1
    <3>1. OutOn(d)' \subseteq OutOn(d) BY <2>3, <2>10
    <3>2. Cardinality(OutOn(d)') <= Cardinality(OutOn(d)) BY <1>2, <3>1, RowSets, FS_Subset
    <3> QED BY <1>2, <3>2, RowSets DEF DayCount
  <2> QED BY <1>1, <2>0, <2>6, <2>9, <2>10 DEF DayCount
<1> QED BY <1>3, <1>4, SentStep

\* Every step of the system keeps the count of the day.
LEMMA DayStep ==
    ASSUME SoleRun, "mark" \notin Faults, MaxPostsPerRun >= 1
    PROVE  SheetKnows /\ TypeOK' /\ RunCap' /\ DayCount /\ [Next]_vars => DayCount'
<1> SUFFICES ASSUME SheetKnows, TypeOK', RunCap', DayCount, [Next]_vars PROVE DayCount'
  OBVIOUS
<1> USE LimitsAssumption
<1>1. \A h : ~Broken(h)' => ~Broken(h) BY BrokenStays DEF SheetKnows
<1>2. ASSUME NEW d, feed' = feed
      PROVE  Cardinality(OutOn(d)') <= MaxPostsPerDay + MaxPostsPerRun - 1
  <2>1. OutOn(d)' \subseteq OutOn(d) BY <1>1, <1>2 DEF OutOn, WentOut, IsHead
  <2>2. OutOn(d)' \in SUBSET Rows /\ OutOn(d) \in SUBSET Rows BY DEF OutOn
  <2>3. Cardinality(OutOn(d)') <= Cardinality(OutOn(d)) BY <2>1, <2>2, RowSets, FS_Subset
  <2> QED BY <2>2, <2>3, RowSets DEF DayCount
<1>3. ASSUME feed' = feed, began' = began, sent' = sent,
             \A x \in Runs : pc'[x] # "idle" => pc[x] # "idle"
      PROVE  DayCount'
  <2> SUFFICES ASSUME NEW d, NEW p \in Runs, pc'[p] # "idle", Day(began'[p]) = d
               PROVE  Cardinality(OutOn(d)' \ sent'[p]) < MaxPostsPerDay
    BY <1>2, <1>3 DEF DayCount
  <2>1. Cardinality(OutOn(d) \ sent[p]) < MaxPostsPerDay BY <1>3 DEF DayCount
  <2>2. OutOn(d)' \ sent'[p] \subseteq OutOn(d) \ sent[p]
    BY <1>1, <1>3 DEF OutOn, WentOut, IsHead
  <2>3. OutOn(d)' \ sent'[p] \in SUBSET Rows /\ OutOn(d) \ sent[p] \in SUBSET Rows
    BY DEF OutOn
  <2>4. Cardinality(OutOn(d)' \ sent'[p]) <= Cardinality(OutOn(d) \ sent[p])
    BY <2>2, <2>3, RowSets, FS_Subset
  <2> QED BY <2>1, <2>3, <2>4, RowSets
<1>4. ASSUME NEW p \in Runs, Start(p) PROVE DayCount'
  <2>1. /\ \A x \in Runs : x = p
        /\ feed' = feed /\ queue' = queue /\ began'[p] = now /\ sent' = sent
    BY <1>4 DEF SoleRun, Start, human, SheetKnows, TypeOK
  <2>2. PICK today : today = Day(now) OBVIOUS
  <2>3. Cardinality(OutOn(today)) < MaxPostsPerDay BY <1>4, <2>2, StartBelowCap
  <2>4. OutOn(today)' = OutOn(today) BY <2>1 DEF OutOn, WentOut, Broken, IsHead
  <2>5. OutOn(today) \in SUBSET Rows /\ OutOn(today) \ sent[p] \in SUBSET Rows
    BY DEF OutOn
  <2>6. Cardinality(OutOn(today) \ sent[p]) <= Cardinality(OutOn(today))
    BY <2>5, RowSets, FS_Subset
  <2>7. Cardinality(OutOn(today)' \ sent'[p]) < MaxPostsPerDay
    BY <2>1, <2>3, <2>4, <2>5, <2>6, RowSets
  <2> QED BY <1>2, <2>1, <2>2, <2>7 DEF DayCount
<1>5. CASE PublisherNext
  <2>1. PICK p \in Runs : Start(p) \/ RunStep(p) \/ Crash(p) BY <1>5 DEF PublisherNext
  <2>2. CASE NextUnit(p)
    BY <1>3, <2>2 DEF NextUnit
  <2>3. CASE Finish(p) \/ Crash(p)
    <3>1. feed' = feed /\ \A x \in Runs : pc'[x] = "idle"
      BY <2>3 DEF Finish, Crash, Reset, SoleRun, SheetKnows, TypeOK
    <3> QED BY <1>2, <3>1 DEF DayCount
  <2>4. CASE RunStep(p) /\ Touches(p)
    <3>1. sent' \in [Runs -> SUBSET Rows] BY DEF TypeOK
    <3> QED BY <2>4, <3>1, DayTouches DEF SheetKnows
  <2> QED BY <1>4, <2>1, <2>2, <2>3, <2>4, UnitStep DEF SheetKnows
<1>6. CASE HumanNext \/ Tick \/ UNCHANGED vars
  BY <1>3, <1>6 DEF HumanNext, Approve, Edit, WriteApproved, Tick, vars, run
<1> QED BY <1>5, <1>6 DEF Next

\* What MAX_POSTS_PER_DAY is worth for any MAX_POSTS_PER_RUN: the last run of a day
\* may pass it by all of its units but one.
NearDailyCap ==
    \A d \in 0..Day(now) : Cardinality(OutOn(d)) <= MaxPostsPerDay + MaxPostsPerRun - 1

\* Nothing is on the feed at the start.
LEMMA DayCountInit == ASSUME MaxPostsPerRun >= 1 PROVE Init => DayCount
<1> SUFFICES ASSUME Init, NEW d
             PROVE  /\ Cardinality(OutOn(d)) <= MaxPostsPerDay + MaxPostsPerRun - 1
                    /\ \A p \in Runs : pc[p] = "idle"
  BY DEF DayCount
<1>1. OutOn(d) = {} BY DEF Init, OutOn, WentOut
<1>2. \A p \in Runs : pc[p] = "idle" BY DEF Init
<1> QED BY <1>1, <1>2, FS_EmptySet, LimitsAssumption

\* The daily cap is passed by at most MaxPostsPerRun - 1 units that are not broken when
\* one process publishes at a time, does not die, and its failed marks are written:
\* the guard is evaluated once, before the loop, so a run only looks at it for its
\* first unit.
THEOREM DaysStayNearCap ==
    ASSUME SoleRun, "mark" \notin Faults, "crash" \notin Faults, MaxPostsPerRun >= 1
    PROVE  Spec => []NearDailyCap
<1>1. DayCount => NearDailyCap BY DEF DayCount, NearDailyCap
<1> QED BY <1>1, DayCountInit, DayStep, RunsStayWithinCap, SheetKnowsAlways, TypeCorrect,
           PTL DEF Spec

\* "At most 3 posts per JST calendar day" is kept with MAX_POSTS_PER_RUN at its setting
\* of 1: under the same conditions the last run of a day stays within the cap.
THEOREM DaysStayWithinCap ==
    ASSUME SoleRun, "mark" \notin Faults, "crash" \notin Faults, MaxPostsPerRun = 1
    PROVE  Spec => []DailyCap
<1>1. NearDailyCap => DailyCap
  BY LimitsAssumption DEF NearDailyCap, DailyCap, OutOn
<1>2. MaxPostsPerRun >= 1 OBVIOUS
<1> QED BY <1>1, <1>2, DaysStayNearCap, PTL
=============================================================================
