--------------------------- MODULE PublishOnceProofs ---------------------------
(* What one publisher process at a time guarantees when its failed marks are  *)
(* written and it does not die: no row goes live twice, and PublishOnce.      *)
EXTENDS PublishQueueProofs, SequenceTheorems

\* No two runs are alive at once.
SoleRun == \A p, q \in Runs : p = q

LiveRows == {feed[i].row : i \in DOMAIN feed}

\* Why the sole run never publishes a row twice: the approved rows of units it has
\* not started are approved in the sheet too and not live; so are the rows of its
\* unit, except the one it is about to record; and a live row that is still
\* approved is in the unit the run is busy with.
OwnsItsUnits ==
    /\ \A r \in Rows : r \in LiveRows => queue[r].status # "draft"
    /\ \A r \in Rows : r \in LiveRows /\ queue[r].status = "approved"
          => \E p \in Runs : r \in left[p]
    /\ \A p \in Runs :
          /\ pc[p] \in {"idle", "loop"} => left[p] = {}
          /\ pc[p] # "idle" => \A r \in Rows :
                Parent[r] \in todo[p] /\ snap[p][r].status = "approved"
                   => queue[r].status = "approved" /\ r \notin LiveRows
          /\ \A r \in left[p] : Parent[r] \notin todo[p]
          /\ Publishing(p) => \A r \in left[p] :
                /\ queue[r].status = "approved"
                /\ r \in LiveRows => pc[p] = "record" /\ IsNext(r, p)

\* A step inside a unit when marks are not lost: a row leaves the unit only with
\* its final status, and only an unacknowledged record changes one that stays.
LEMMA CarefulStep ==
    ASSUME TypeOK, "mark" \notin Faults, NEW p \in Runs, RunStep(p),
           ~NextUnit(p), ~Finish(p)
    PROVE  /\ Touches(p)
           /\ \A r \in left[p] \ left'[p] : queue'[r].status \in Terminal
           /\ pc'[p] = "loop" => left'[p] = {}
           /\ pc'[p] # "failing" \/ "record_ack" \notin Faults
                 => \A r \in left'[p] : queue'[r] = queue[r]
<1> USE DEF TypeOK
<1>1. Touches(p) /\ pc[p] # "idle" BY UnitStep DEF Touches
<1>2. CASE Prepare(p) \/ PrepareFails(p) \/ PublishRefused(p) \/ RecordFails(p)
  BY <1>1, <1>2 DEF Prepare, PrepareFails, PublishRefused, RecordFails, GoTo, human
<1>3. CASE PublishPost(p) \/ PublishUnacknowledged(p)
  BY <1>1, <1>3 DEF PublishPost, PublishUnacknowledged, human
<1>4. CASE Record(p)
  BY <1>1, <1>4, ResultRows DEF Record, WritePosted, Terminal
<1>5. CASE RecordUnacknowledged(p)
  BY <1>1, <1>5 DEF RecordUnacknowledged, GoTo
<1>6. CASE MarkFailed(p)
  BY <1>1, <1>6, ResultRows DEF MarkFailed, Marked, Terminal
<1> QED BY <1>2, <1>3, <1>4, <1>5, <1>6 DEF RunStep, MarkLost

\* What a publication adds to the live rows.
LEMMA LiveRowsGrow ==
    ASSUME TypeOK, NEW p \in Runs, Touches(p)
    PROVE  \/ LiveRows' = LiveRows
           \/ \E r \in Rows : /\ pc[p] = "publish" /\ IsNext(r, p) /\ feed' # feed
                              /\ LiveRows' = LiveRows \cup {r}
<1>1. CASE feed' = feed BY <1>1 DEF LiveRows
<1>2. CASE feed' # feed
  <2>1. PICK r \in Rows : /\ pc[p] = "publish" /\ IsNext(r, p)
                          /\ DOMAIN feed' = DOMAIN feed \cup {Len(feed) + 1}
                          /\ feed'[Len(feed) + 1] = PostOf(p, r)
    BY <1>2, FeedGrows
  <2>2. PostOf(p, r).row = r BY DEF PostOf
  <2>3. LiveRows' = LiveRows \cup {r} BY <2>1, <2>2, FeedGrows DEF LiveRows
  <2> QED BY <1>2, <2>1, <2>3
<1> QED BY <1>1, <1>2

\* A step inside a unit keeps the sole run the owner of its rows: what it has left is
\* not live yet, or is the row it is recording or giving up.
LEMMA OwnsTouches ==
    ASSUME TypeOK, SoleRun, "mark" \notin Faults, OneUnit, OwnsItsUnits,
           NEW p \in Runs, RunStep(p), ~NextUnit(p), ~Finish(p)
    PROVE  OwnsItsUnits'
<1>1. /\ Touches(p) /\ \A x \in Runs : x = p
      /\ \A r \in left[p] \ left'[p] : queue'[r].status \in Terminal
      /\ pc'[p] = "loop" => left'[p] = {}
      /\ pc'[p] # "failing" => \A r \in left'[p] : queue'[r] = queue[r]
  BY CarefulStep DEF SoleRun
<1>2. /\ snap' = snap /\ todo' = todo /\ left'[p] \subseteq left[p] /\ left[p] \subseteq Rows
      /\ pc[p] # "idle" /\ pc'[p] # "idle"
      /\ \A r \in Rows \ left[p] : queue'[r] = queue[r]
  BY <1>1 DEF Touches, TypeOK, IsNext
<1>3. \A r \in LiveRows' : r \in LiveRows \/ (r \in left[p] /\ Publishing(p))
  BY LiveRowsGrow, <1>1 DEF IsNext, Publishing
<1>4. \A r \in Rows : queue'[r] = queue[r] \/ queue'[r].status \in Terminal
  BY <1>1, <1>2, ResultRows DEF Touches, Terminal
<1>5. \A r \in Rows : r \in LiveRows' => queue'[r].status # "draft"
  BY <1>3, <1>4 DEF OwnsItsUnits, Terminal
<1>6. \A r \in Rows : r \in LiveRows' /\ queue'[r].status = "approved"
         => \E x \in Runs : r \in left'[x]
  <2> SUFFICES ASSUME NEW r \in Rows, r \in LiveRows', queue'[r].status = "approved"
               PROVE  r \in left'[p]
    OBVIOUS
  <2>1. r \in left[p]
    BY <1>1, <1>3, <1>4 DEF OwnsItsUnits, Terminal
  <2> QED BY <2>1, <1>1 DEF Terminal
<1>7. \A r \in Rows : Parent[r] \in todo'[p] /\ snap'[p][r].status = "approved"
         => queue'[r].status = "approved" /\ r \notin LiveRows'
  BY <1>2, <1>3 DEF OwnsItsUnits
<1>8. \A r \in left'[p] : Parent[r] \notin todo'[p] BY <1>2 DEF OwnsItsUnits
<1>9. ASSUME Publishing(p)', NEW r \in left'[p]
      PROVE  /\ queue'[r].status = "approved"
             /\ r \in LiveRows' => pc'[p] = "record" /\ IsNext(r, p)'
  <2>1. Publishing(p) BY <1>1, <1>9 DEF Touches, Publishing
  <2>2. queue'[r].status = "approved" /\ r \in Rows
    BY <1>1, <1>2, <1>9, <2>1 DEF OwnsItsUnits, Publishing
  <2>3. CASE r \in LiveRows
    <3>1. pc[p] = "record" /\ IsNext(r, p) BY <1>2, <2>1, <2>3, <1>9 DEF OwnsItsUnits
    <3>2. CASE left'[p] = left[p]
      <4>1. PICK q \in Rows : IsNext(q, p) /\ left'[p] = left[p] \ {q}
        BY <1>1, <1>9, <3>1 DEF Touches, Publishing
      <4> QED BY <3>2, <4>1 DEF IsNext
    <3>3. CASE left'[p] # left[p]
      BY <1>1, <1>9, <3>1, <3>3, NextIsUnique DEF Touches, Publishing
    <3> QED BY <3>2, <3>3
  <2>4. CASE r \in LiveRows' /\ r \notin LiveRows
    <3>1. pc[p] = "publish" /\ IsNext(r, p) /\ feed' # feed
      BY <1>1, <2>4, LiveRowsGrow
    <3>2. pc'[p] = "record" /\ left'[p] = left[p]
      BY <1>1, <1>9, <3>1 DEF Touches, Publishing
    <3> QED BY <2>2, <3>1, <3>2 DEF IsNext
  <2> QED BY <2>2, <2>3, <2>4
<1> QED BY <1>1, <1>2, <1>5, <1>6, <1>7, <1>8, <1>9 DEF OwnsItsUnits

\* Every step of the system keeps the sole run the owner of its rows.
LEMMA OwnsStep ==
    ASSUME SoleRun, "mark" \notin Faults, "crash" \notin Faults
    PROVE  TypeOK /\ OneUnit /\ OwnsItsUnits /\ [Next]_vars => OwnsItsUnits'
<1> SUFFICES ASSUME TypeOK, OneUnit, OwnsItsUnits, [Next]_vars PROVE OwnsItsUnits'
  OBVIOUS
<1>1. UNCHANGED <<queue, feed, run>> => OwnsItsUnits'
  BY DEF OwnsItsUnits, LiveRows, Publishing, IsNext, run
<1>2. ASSUME NEW p \in Runs, Start(p) PROVE OwnsItsUnits'
  <2>1. /\ \A x \in Runs : x = p
        /\ left[p] = {} /\ UNCHANGED <<queue, feed, left>>
        /\ pc'[p] = "loop" /\ snap'[p] = queue /\ todo'[p] = DueHeads(queue, now)
    BY <1>2 DEF SoleRun, Start, human, OwnsItsUnits, TypeOK
  <2>2. \A r \in Rows : r \in LiveRows => queue[r].status # "approved"
    BY <2>1 DEF OwnsItsUnits
  <2> QED BY <2>1, <2>2 DEF OwnsItsUnits, LiveRows, Publishing
<1>3. ASSUME NEW p \in Runs, NextUnit(p) PROVE OwnsItsUnits'
  <2>1. PICK h \in todo[p] : /\ todo' = [todo EXCEPT ![p] = @ \ {h}]
                             /\ left' = [left EXCEPT ![p] = Chain(snap[p], h)]
    BY <1>3 DEF NextUnit
  <2>2. /\ \A x \in Runs : x = p
        /\ left[p] = {} /\ UNCHANGED <<queue, feed, snap>>
        /\ pc[p] = "loop" /\ pc'[p] = "prepare"
        /\ h \in Rows /\ todo'[p] = todo[p] \ {h} /\ left'[p] = Chain(snap[p], h)
    BY <1>3, <2>1 DEF SoleRun, NextUnit, human, OwnsItsUnits, TypeOK
  <2>3. \A r \in left'[p] : r \in Rows /\ Parent[r] = h /\ snap[p][r].status = "approved"
    BY <2>2, ChainProperties
  <2>4. \A r \in left'[p] : queue[r].status = "approved" /\ r \notin LiveRows
    BY <2>2, <2>3 DEF OwnsItsUnits
  <2>5. LiveRows' = LiveRows BY <2>2 DEF LiveRows
  <2>6. \A r \in Rows : r \in LiveRows => queue[r].status # "approved"
    BY <2>2 DEF OwnsItsUnits
  <2> QED BY <2>2, <2>3, <2>4, <2>5, <2>6 DEF OwnsItsUnits
<1>4. ASSUME NEW p \in Runs, Finish(p) PROVE OwnsItsUnits'
  <2>1. /\ \A x \in Runs : x = p
        /\ left[p] = {} /\ UNCHANGED <<queue, feed>>
        /\ left'[p] = {} /\ pc'[p] = "idle"
    BY <1>4 DEF SoleRun, Finish, Reset, human, OwnsItsUnits, TypeOK
  <2> QED BY <2>1 DEF OwnsItsUnits, LiveRows, Publishing
<1>5. CASE PublisherNext
  BY <1>5, <1>2, <1>3, <1>4, OwnsTouches DEF PublisherNext, Crash
<1>6. CASE HumanNext
  <2>1. PICK r \in Rows, t \in Texts, c \in Cells :
           /\ queue[r].status \in {"draft", "approved"} /\ WriteApproved(r, t, c)
    BY <1>6 DEF HumanNext, Approve, Edit
  <2>2. /\ UNCHANGED <<feed, run>> /\ queue'[r].status = "approved"
        /\ \A q \in Rows \ {r} : queue'[q] = queue[q]
    BY <2>1 DEF WriteApproved, TypeOK, Row
  <2>3. r \in LiveRows => queue[r].status = "approved"
    BY <2>1 DEF OwnsItsUnits
  <2>4. LiveRows' = LiveRows BY <2>2 DEF LiveRows
  <2>5. /\ pc' = pc /\ left' = left /\ todo' = todo /\ snap' = snap
    BY <2>2 DEF run
  <2>6. \A q \in Rows : /\ queue'[q].status = "approved" => q = r \/ queue[q].status = "approved"
                        /\ queue[q].status = "approved" => queue'[q].status = "approved"
                        /\ queue'[q].status = "draft" => queue[q].status = "draft"
    BY <2>2
  <2>7. \A p \in Runs : left[p] \subseteq Rows BY DEF TypeOK
  <2> QED BY <2>3, <2>4, <2>5, <2>6, <2>7 DEF OwnsItsUnits, Publishing, IsNext
<1>7. CASE Tick \/ UNCHANGED vars BY <1>1, <1>7 DEF Tick, vars, human
<1> QED BY <1>5, <1>6, <1>7 DEF Next

\* The ownership invariant holds along every behaviour with one careful run.
LEMMA OwnsAlways ==
    ASSUME SoleRun, "mark" \notin Faults, "crash" \notin Faults
    PROVE  Spec => []OwnsItsUnits
<1>1. Init => OwnsItsUnits BY DEF Init, OwnsItsUnits, LiveRows, Publishing
<1> QED BY <1>1, OwnsStep, TypeCorrect, RunFacts, PTL DEF Spec

\* A step that publishes a row publishes one that is not live.
LEMMA OnceStep == TypeOK /\ OwnsItsUnits /\ NoDoublePost /\ [Next]_vars => NoDoublePost'
<1> SUFFICES ASSUME TypeOK, OwnsItsUnits, NoDoublePost, [Next]_vars PROVE NoDoublePost'
  OBVIOUS
<1>1. feed' = feed => NoDoublePost' BY DEF NoDoublePost
<1>2. ASSUME NEW p \in Runs, Touches(p), feed' # feed PROVE NoDoublePost'
  <2>1. PICK r \in Rows : /\ pc[p] = "publish" /\ IsNext(r, p)
                          /\ DOMAIN feed' = DOMAIN feed \cup {Len(feed) + 1}
                          /\ feed'[Len(feed) + 1] = PostOf(p, r)
    BY <1>2, FeedGrows
  <2>2. r \notin LiveRows BY <2>1 DEF OwnsItsUnits, Publishing, IsNext
  <2>3. \A i \in DOMAIN feed : feed'[i] = feed[i] /\ feed[i].row # r
    BY <1>2, <2>2, FeedGrows DEF LiveRows
  <2>4. PostOf(p, r).row = r BY DEF PostOf
  <2> QED BY <2>1, <2>3, <2>4 DEF NoDoublePost
<1>3. CASE PublisherNext
  BY <1>3, <1>1, <1>2, UnitStep DEF PublisherNext, Start, NextUnit, Finish, Crash
<1>4. CASE HumanNext \/ Tick \/ UNCHANGED vars
  BY <1>4, <1>1 DEF HumanNext, Approve, Edit, WriteApproved, Tick, vars
<1> QED BY <1>3, <1>4 DEF Next

\* One publisher process at a time, whose failed marks are written and which does not
\* die, never publishes a row twice: for every sheet, however calls fail, and with
\* edits at any moment.
THEOREM NothingGoesOutTwice ==
    ASSUME SoleRun, "mark" \notin Faults, "crash" \notin Faults
    PROVE  Spec => []NoDoublePost
<1>1. Init => NoDoublePost BY DEF Init, NoDoublePost
<1> QED BY <1>1, OnceStep, OwnsAlways, TypeCorrect, PTL DEF Spec

-----------------------------------------------------------------------------
\* When record acknowledgements are not lost either, the rows a run holds stay
\* approved until it gives them their final status, and what comes before a row
\* of its unit is posted.
HoldsApproved == \A p \in Runs : \A r \in left[p] : queue[r].status = "approved"

LowerPosted ==
    \A p \in Runs : Publishing(p) => \A r \in left[p] : \A n \in 0..(SeqNo[r] - 1) :
        \/ \E q \in left[p] : SeqNo[q] = n
        \/ \E q \in Rows : /\ Parent[q] = Parent[r] /\ SeqNo[q] = n
                           /\ queue[q].status = "posted"

\* Rows a run has left stay approved in the sheet: only the run changes their status.
LEMMA HoldsApprovedStep ==
    ASSUME SoleRun, "mark" \notin Faults, "record_ack" \notin Faults
    PROVE  /\ TypeOK /\ TypeOK' /\ OwnsItsUnits /\ OwnsItsUnits' /\ HoldsApproved
           /\ [Next]_vars
           => HoldsApproved'
<1> SUFFICES ASSUME TypeOK, TypeOK', OwnsItsUnits, OwnsItsUnits', HoldsApproved,
                    [Next]_vars,
                    NEW p \in Runs, NEW r \in left'[p]
             PROVE  queue'[r].status = "approved"
  BY DEF HoldsApproved
<1>1. CASE pc'[p] # "failing"
  BY <1>1 DEF OwnsItsUnits, Publishing, TypeOK, Stages
<1>2. CASE pc'[p] = "failing" /\ PublisherNext
  <2>1. PICK x \in Runs : Start(x) \/ RunStep(x) \/ Crash(x) BY <1>2 DEF PublisherNext
  <2>2. x = p BY DEF SoleRun
  <2>3. RunStep(p) /\ ~NextUnit(p) /\ ~Finish(p)
    BY <1>2, <2>1, <2>2 DEF Start, Crash, NextUnit, Finish, Reset, TypeOK
  <2>4. r \in left[p] /\ queue'[r] = queue[r]
    BY <2>3, CarefulStep DEF Touches
  <2> QED BY <2>4 DEF HoldsApproved
<1>3. CASE HumanNext
  <2>1. PICK q \in Rows, t \in Texts, c \in Cells : WriteApproved(q, t, c)
    BY <1>3 DEF HumanNext, Approve, Edit
  <2>2. /\ left' = left /\ queue'[q].status = "approved"
        /\ \A y \in Rows \ {q} : queue'[y] = queue[y]
    BY <2>1 DEF WriteApproved, TypeOK, Row, run
  <2>3. r \in left[p] /\ r \in Rows BY <2>2 DEF TypeOK
  <2> QED BY <2>2, <2>3 DEF HoldsApproved
<1>4. CASE Tick \/ UNCHANGED vars
  BY <1>4 DEF Tick, vars, human, run, HoldsApproved
<1> QED BY <1>1, <1>2, <1>3, <1>4 DEF Next

\* No publisher step and no human step changes a final row.
LEMMA FinalRowsStep ==
    ASSUME TypeOK, HoldsApproved, [Next]_vars, NEW r \in Rows, queue[r].status \in Terminal
    PROVE  queue'[r] = queue[r]
<1>1. CASE PublisherNext
  <2>1. PICK p \in Runs : Start(p) \/ RunStep(p) \/ Crash(p) BY <1>1 DEF PublisherNext
  <2>2. CASE Touches(p)
    BY <2>2 DEF Touches, IsNext, HoldsApproved, Terminal
  <2> QED BY <2>1, <2>2, UnitStep DEF Start, Crash, NextUnit, Finish, human
<1>2. CASE HumanNext
  BY <1>2 DEF HumanNext, Approve, Edit, WriteApproved, Terminal, TypeOK
<1>3. CASE Tick \/ UNCHANGED vars BY <1>3 DEF Tick, vars, human
<1> QED BY <1>1, <1>2, <1>3 DEF Next

\* The rows before the one a run is at are posted in the sheet.
LEMMA LowerPostedStep ==
    ASSUME SoleRun, "mark" \notin Faults
    PROVE  /\ TypeOK /\ OneUnit /\ HoldsApproved /\ LowerPosted /\ [Next]_vars
           => LowerPosted'
<1> SUFFICES ASSUME TypeOK, OneUnit, HoldsApproved, LowerPosted, [Next]_vars
             PROVE  LowerPosted'
  OBVIOUS
<1>1. ASSUME NEW q \in Rows, queue[q].status = "posted"
      PROVE  queue'[q].status = "posted"
  BY <1>1, FinalRowsStep DEF Terminal
<1>2. left' = left /\ pc' = pc => LowerPosted'
  BY <1>1 DEF LowerPosted, Publishing
<1>3. ASSUME NEW p \in Runs, pc'[p] \in {"idle", "loop"} PROVE LowerPosted'
  BY <1>3 DEF LowerPosted, Publishing, SoleRun
<1>4. ASSUME NEW p \in Runs, NextUnit(p) PROVE LowerPosted'
  <2>1. PICK h \in todo[p] : left' = [left EXCEPT ![p] = Chain(snap[p], h)]
    BY <1>4 DEF NextUnit
  <2>2. /\ h \in Rows /\ left'[p] = Chain(snap[p], h)
        /\ \A x \in Runs : x = p
    BY <2>1 DEF TypeOK, SoleRun
  <2>3. ASSUME NEW r \in left'[p], NEW n \in 0..(SeqNo[r] - 1)
        PROVE  \E q \in left'[p] : SeqNo[q] = n
    <3>1. r \in Rows /\ SeqNo[r] \in Nat BY <2>2, ChainProperties, RowsAssumption
    <3>2. n \in 0..SeqNo[r] BY <3>1
    <3> QED BY <2>2, <3>2, ChainProperties
  <2> QED BY <2>2, <2>3 DEF LowerPosted
<1>5. ASSUME NEW p \in Runs, Touches(p) PROVE LowerPosted'
  <2> SUFFICES ASSUME Publishing(p)', NEW r \in left'[p], NEW n \in 0..(SeqNo[r] - 1)
               PROVE  \/ \E q \in left'[p] : SeqNo[q] = n
                      \/ \E q \in Rows : /\ Parent[q] = Parent[r] /\ SeqNo[q] = n
                                         /\ queue'[q].status = "posted"
    BY DEF LowerPosted, SoleRun
  <2>1. Publishing(p) /\ r \in left[p] BY <1>5 DEF Touches, Publishing
  <2>2. CASE left'[p] = left[p] BY <1>1, <2>1, <2>2 DEF LowerPosted
  <2>3. CASE left'[p] # left[p]
    <3>1. PICK x \in Rows : /\ IsNext(x, p) /\ left'[p] = left[p] \ {x}
                            /\ queue'[x] = PostedRow(snap[p][x], media[p], began[p])
      BY <1>5, <2>3 DEF Touches, Publishing
    <3>2. Parent[x] = Parent[r] BY <2>1, <3>1 DEF OneUnit, IsNext
    <3>3. queue'[x].status = "posted" BY <1>5, <3>1, ResultRows DEF Touches
    <3> QED BY <1>1, <2>1, <3>1, <3>2, <3>3 DEF LowerPosted
  <2> QED BY <2>2, <2>3
<1>6. CASE PublisherNext
  BY <1>6, <1>3, <1>4, <1>5, UnitStep DEF PublisherNext, Start, Finish, Crash, Reset, TypeOK
<1>7. CASE HumanNext \/ Tick \/ UNCHANGED vars
  BY <1>7, <1>2 DEF HumanNext, Approve, Edit, WriteApproved, Tick, vars, run
<1> QED BY <1>6, <1>7 DEF Next

\* The invariants of a sole run together, for the two theorems below.
LEMMA SoleRunFacts ==
    ASSUME SoleRun, "mark" \notin Faults, "crash" \notin Faults, "record_ack" \notin Faults
    PROVE  Spec => [](HoldsApproved /\ LowerPosted)
<1>1. Init => HoldsApproved /\ LowerPosted
  BY DEF Init, HoldsApproved, LowerPosted, Publishing
<1> QED BY <1>1, HoldsApprovedStep, LowerPostedStep, OwnsAlways, TypeCorrect, RunFacts, PTL
        DEF Spec

\* Under the same conditions, when acknowledgements of row updates are not lost,
\* nothing changes a row that is posted or failed.
THEOREM FinalRowsStay ==
    ASSUME SoleRun, "mark" \notin Faults, "crash" \notin Faults, "record_ack" \notin Faults
    PROVE  Spec => TerminalRows
<1>1. TypeOK /\ HoldsApproved /\ [Next]_vars
         => [\A r \in Rows : queue[r].status \in Terminal => queue'[r] = queue[r]]_vars
  BY FinalRowsStep
<1> QED BY <1>1, SoleRunFacts, TypeCorrect, PTL DEF Spec, TerminalRows

-----------------------------------------------------------------------------
\* The refinement mapping, and what a step can make of it.
status == [r \in Rows |-> queue[r].status]
live == [i \in DOMAIN feed |-> feed[i].row]

\* What the mapping makes of an assignment to one row of the sheet.
LEMMA MappedStep ==
    ASSUME NEW r \in Rows, NEW st
    PROVE  (/\ queue'[r].status = st
            /\ \A q \in Rows \ {r} : queue'[q].status = queue[q].status)
           => status' = [status EXCEPT ![r] = st]
BY DEF status

\* What the mapping makes of a publication.
LEMMA MappedFeed ==
    ASSUME TypeOK, NEW p \in Runs, NEW r \in Rows, feed' = Append(feed, PostOf(p, r))
    PROVE  live' = Append(live, r)
<1>1. /\ feed \in Seq(Post) /\ Len(feed) \in Nat /\ DOMAIN feed = 1..Len(feed)
      /\ \A i \in 1..Len(feed) : feed[i].row \in Rows
  <2>1. feed \in Seq(Post) BY DEF TypeOK
  <2>2. \A e \in Post : e.row \in Rows BY DEF Post
  <2> QED BY <2>1, <2>2
<1>2. live \in Seq(Rows) /\ Len(live) = Len(feed)
  BY <1>1 DEF live
<1>3. /\ DOMAIN feed' = 1..(Len(feed) + 1)
      /\ \A i \in 1..Len(feed) : feed'[i] = feed[i]
      /\ feed'[Len(feed) + 1] = PostOf(p, r)
  BY <1>1
<1>4. PostOf(p, r).row = r BY DEF PostOf
<1>5. /\ DOMAIN live' = 1..(Len(feed) + 1)
      /\ \A i \in 1..Len(feed) : live'[i] = live[i]
      /\ live'[Len(feed) + 1] = r
  BY <1>1, <1>3, <1>4 DEF live
<1>6. live' \in Seq(Rows) /\ Len(live') = Len(feed) + 1
  BY <1>1, <1>3, <1>4 DEF live
<1>7. /\ Append(live, r) \in Seq(Rows) /\ Len(Append(live, r)) = Len(feed) + 1
      /\ \A i \in 1..(Len(feed) + 1) : Append(live, r)[i] = live'[i]
  BY <1>1, <1>2, <1>5
<1> QED BY <1>1, <1>6, <1>7, SeqEqual

\* Inside a unit, a step publishes the next row, gives it its final status, or
\* changes nothing that PublishOnce sees.
LEMMA UnitRefines ==
    ASSUME TypeOK, OneUnit, MediaKnown, OwnsItsUnits, HoldsApproved, LowerPosted,
           SoleRun, "record_ack" \notin Faults, NEW p \in Runs, RunStep(p)
    PROVE  Once!Next \/ UNCHANGED <<status, live>>
<1>1. UNCHANGED <<queue, feed>> => UNCHANGED <<status, live>>
  BY DEF status, live
<1>2. ASSUME NEW r \in Rows, pc[p] = "publish", IsNext(r, p),
             feed' = Append(feed, PostOf(p, r)), UNCHANGED queue
      PROVE  Once!Publish(r)
  <2>1. queue[r].status = "approved" /\ r \notin LiveRows
    BY <1>2 DEF OwnsItsUnits, Publishing, IsNext
  <2>2. r \notin Once!Live BY <2>1 DEF LiveRows, Once!Live
  <2>3. ASSUME NEW q \in Rows, Parent[q] = Parent[r], SeqNo[q] < SeqNo[r]
        PROVE  queue[q].status = "posted"
    <3>1. SeqNo[q] \in 0..(SeqNo[r] - 1) BY <2>3, RowsAssumption
    <3>2. ~\E x \in left[p] : SeqNo[x] = SeqNo[q] BY <1>2, <2>3, RowsAssumption DEF IsNext, TypeOK
    <3>3. PICK x \in Rows : /\ Parent[x] = Parent[r] /\ SeqNo[x] = SeqNo[q]
                            /\ queue[x].status = "posted"
      BY <1>2, <3>1, <3>2 DEF LowerPosted, Publishing, IsNext
    <3> QED BY <2>3, <3>3, RowsAssumption
  <2>4. live' = Append(live, r) BY <1>2, MappedFeed
  <2> QED BY <1>2, <2>1, <2>2, <2>3, <2>4 DEF Once!Publish, status, live
<1>3. ASSUME NEW r \in Rows, NEW row, IsNext(r, p),
             queue' = [queue EXCEPT ![r] = row], UNCHANGED feed
      PROVE  /\ row.status = "failed" => Once!Fail(r)
             /\ row.status = "posted" /\ r \in LiveRows => Once!Post(r)
  <2>1. status[r] = "approved" BY <1>3 DEF HoldsApproved, IsNext, status
  <2>2. queue'[r] = row /\ \A q \in Rows \ {r} : queue'[q] = queue[q]
    BY <1>3 DEF TypeOK
  <2>3. status' = [status EXCEPT ![r] = row.status] BY <2>2, MappedStep
  <2>4. live' = live BY <1>3 DEF live
  <2>5. r \in LiveRows => r \in Once!Live BY DEF LiveRows, Once!Live
  <2> QED BY <2>1, <2>3, <2>4, <2>5 DEF Once!Fail, Once!Post, status, live
<1>4. CASE PublishPost(p) \/ PublishUnacknowledged(p)
  BY <1>2, <1>4 DEF PublishPost, PublishUnacknowledged, GoLive, human, Once!Next
<1>5. CASE Record(p)
  <2>1. PICK r \in Rows : /\ pc[p] = "record" /\ IsNext(r, p) /\ UNCHANGED feed
                          /\ queue' = [queue EXCEPT ![r] =
                                          PostedRow(snap[p][r], media[p], began[p])]
    BY <1>5 DEF Record, WritePosted
  <2>2. r \in LiveRows BY <2>1 DEF MediaKnown, LiveRows
  <2> QED BY <1>3, <2>1, <2>2, ResultRows DEF Once!Next
<1>6. CASE MarkFailed(p)
  <2>1. PICK r \in Rows : /\ pc[p] = "failing" /\ IsNext(r, p) /\ UNCHANGED feed
                          /\ queue' = [queue EXCEPT ![r] = FailedRow(snap[p][r])]
    BY <1>6 DEF MarkFailed, Marked
  <2> QED BY <1>3, <2>1, ResultRows DEF Once!Next
<1>7. CASE \/ NextUnit(p) \/ Finish(p) \/ Prepare(p) \/ PrepareFails(p)
           \/ PublishRefused(p) \/ RecordFails(p) \/ MarkLost(p)
  <2>1. UNCHANGED <<queue, feed>>
    BY <1>7 DEF NextUnit, Finish, Prepare, PrepareFails, PublishRefused, RecordFails,
                MarkLost, Marked, human
  <2> QED BY <1>1, <2>1
<1> QED BY <1>4, <1>5, <1>6, <1>7 DEF RunStep, RecordUnacknowledged

\* One publisher process at a time implements PublishOnce when its failed marks are
\* written, acknowledgements of row updates are not lost and it does not die.
THEOREM PublisherImplementsOnce ==
    ASSUME SoleRun, "mark" \notin Faults, "crash" \notin Faults, "record_ack" \notin Faults
    PROVE  Spec => ImplementsPublishOnce
<1>1. Init => Once!Init
  BY DEF Init, Once!Init
<1>2. /\ TypeOK /\ OneUnit /\ MediaKnown /\ OwnsItsUnits /\ HoldsApproved /\ LowerPosted
      /\ [Next]_vars
      => [Once!Next]_<<status, live>>
  <2> SUFFICES ASSUME TypeOK, OneUnit, MediaKnown, OwnsItsUnits, HoldsApproved,
                      LowerPosted, [Next]_vars
               PROVE  Once!Next \/ UNCHANGED <<status, live>>
    OBVIOUS
  <2>1. UNCHANGED <<queue, feed>> => UNCHANGED <<status, live>> BY DEF status, live
  <2>2. CASE PublisherNext
    BY <2>2, <2>1, UnitRefines DEF PublisherNext, Start, Crash, human
  <2>3. CASE HumanNext
    <3>1. PICK r \in Rows, t \in Texts, c \in Cells : Approve(r, t, c) \/ Edit(r, t, c)
      BY <2>3 DEF HumanNext
    <3>2. /\ queue'[r].status = "approved" /\ live' = live
          /\ \A q \in Rows \ {r} : queue'[q].status = queue[q].status
      BY <3>1 DEF Approve, Edit, WriteApproved, TypeOK, Row, live
    <3>3. status' = [status EXCEPT ![r] = "approved"] BY <3>2, MappedStep
    <3>4. CASE Approve(r, t, c)
      BY <3>2, <3>3, <3>4 DEF Approve, Once!Next, Once!Approve, status, live
    <3>5. CASE Edit(r, t, c)
      BY <3>2, <3>3, <3>5 DEF Edit, status
    <3> QED BY <3>1, <3>4, <3>5
  <2>4. CASE Tick \/ UNCHANGED vars BY <2>1, <2>4 DEF Tick, vars, human
  <2> QED BY <2>2, <2>3, <2>4 DEF Next
<1> QED
  BY <1>1, <1>2, SoleRunFacts, OwnsAlways, RunFacts, TypeCorrect, PTL
     DEF Spec, ImplementsPublishOnce, Once!Spec, status, live
=============================================================================
