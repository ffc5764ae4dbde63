-------------------------- MODULE QueueSystemProofs --------------------------
(* The publisher and the dashboard on one sheet.  A publisher's step is a     *)
(* step of PublishQueue, so what its proofs say of a step is used again here; *)
(* what is new are the steps of the sessions, in place of the one-step human. *)
EXTENDS QueueSystem, PublishCapsProofs

\* What a step of session s does: it opens a card, reads the next row of it, writes
\* that row back, or ends; the publisher's state and the other sessions stay.
SessionTouches(s) ==
    /\ UNCHANGED <<feed, now, run>>
    /\ \A x \in Sessions \ {s} :
          /\ dpc'[x] = dpc[x] /\ op'[x] = op[x] /\ items'[x] = items[x]
          /\ copy'[x] = copy[x]
    /\ \/ /\ UNCHANGED <<queue, consent>> /\ dpc'[s] = "items"
          /\ \E h \in Rows : items'[s] = D!Card(h)
       \/ /\ UNCHANGED <<queue, consent, op, items>> /\ dpc'[s] = "write"
          /\ \E r \in items[s] : D!FirstOf(items[s], r) /\ copy'[s] = queue[r]
       \/ /\ UNCHANGED <<queue, consent>> /\ dpc'[s] = "idle" /\ items'[s] = {}
       \/ /\ dpc[s] = "write" /\ dpc'[s] \in {"idle", "items"}
          /\ \E r \in items[s], t \in Texts, c \in Cells, k \in Comments :
                /\ D!FirstOf(items[s], r)
                /\ items'[s] \subseteq items[s] \ {r}
                /\ queue' = [queue EXCEPT ![r] = D!Merged(s, r, t, c, k)]
                /\ consent' = IF op[s] = "approve"
                              THEN consent \cup {<<r, D!Merged(s, r, t, c, k).text,
                                                      D!Merged(s, r, t, c, k).scheduled_at>>}
                              ELSE consent

\* Every step of a session does one of these.
LEMMA SessionStep ==
    ASSUME SystemTypeOK, Human
    PROVE  \E s \in Sessions : SessionTouches(s)
<1> USE DEF SystemTypeOK, Human
<1>1. ASSUME NEW s \in Sessions, NEW h \in Rows, NEW o \in {"approve", "save", "feedback"},
             D!Open(s, h, o)
      PROVE  SessionTouches(s)
  BY <1>1 DEF D!Open, SessionTouches
<1>2. ASSUME NEW s \in Sessions, D!ReadRow(s) PROVE SessionTouches(s)
  BY <1>2 DEF D!ReadRow, SessionTouches
<1>3. ASSUME NEW s \in Sessions, D!GiveUp(s) PROVE SessionTouches(s)
  BY <1>3 DEF D!GiveUp, D!Close, SessionTouches
<1>4. ASSUME NEW s \in Sessions, NEW t \in Texts, NEW c \in Cells, NEW k \in Comments,
             D!WriteRow(s, t, c, k)
      PROVE  SessionTouches(s)
  <2>1. PICK r \in items[s] :
           /\ D!FirstOf(items[s], r)
           /\ queue' = [queue EXCEPT ![r] = D!Merged(s, r, t, c, k)]
           /\ consent' = IF op[s] = "approve"
                         THEN consent \cup {<<r, D!Merged(s, r, t, c, k).text,
                                                 D!Merged(s, r, t, c, k).scheduled_at>>}
                         ELSE consent
           /\ \/ items[s] = {r} /\ D!Close(s)
              \/ /\ items[s] # {r}
                 /\ items' = [items EXCEPT ![s] = @ \ {r}]
                 /\ dpc' = [dpc EXCEPT ![s] = "items"]
                 /\ copy' = [copy EXCEPT ![s] = <<>>]
                 /\ UNCHANGED <<op, lead>>
    BY <1>4 DEF D!WriteRow
  <2>2. /\ dpc[s] = "write" /\ dpc'[s] \in {"idle", "items"}
        /\ items'[s] \subseteq items[s] \ {r}
        /\ \A x \in Sessions \ {s} :
              /\ dpc'[x] = dpc[x] /\ op'[x] = op[x] /\ items'[x] = items[x]
              /\ copy'[x] = copy[x]
    BY <1>4, <2>1 DEF D!WriteRow, D!Close
  <2> QED BY <2>1, <2>2 DEF SessionTouches
<1> QED BY <1>1, <1>2, <1>3, <1>4 DEF D!SessionNext

\* A step of the system is a step of the publisher that leaves the sessions alone, or
\* a step of a session.
LEMMA SystemCases ==
    ASSUME SystemTypeOK, [SystemNext]_allVars
    PROVE  \/ [Next]_vars /\ UNCHANGED tabs /\ (PublisherNext \/ Tick \/ UNCHANGED vars)
           \/ \E s \in Sessions : SessionTouches(s)
BY SessionStep DEF SystemNext, Publisher, Next, allVars

-----------------------------------------------------------------------------
\* What a session merges is a row of the sheet, with the text and the time it was
\* given or the ones of its copy.
LEMMA MergedRow ==
    ASSUME SystemTypeOK, NEW s \in Sessions, dpc[s] = "write", NEW r \in items[s],
           NEW t \in Texts, NEW c \in Cells, NEW k \in Comments
    PROVE  LET new == D!Merged(s, r, t, c, k)
           IN /\ new \in Row
              /\ new.posted_post_id = copy[s].posted_post_id
              /\ new.posted_at = copy[s].posted_at
              /\ op[s] = "feedback" =>
                    /\ new.status = copy[s].status /\ new.text = copy[s].text
                    /\ new.scheduled_at = copy[s].scheduled_at
              /\ op[s] # "feedback" =>
                    /\ new.status = (IF op[s] = "approve" THEN "approved" ELSE "draft")
                    /\ new.feedback = copy[s].feedback
<1>1. copy[s] \in Row BY DEF SystemTypeOK
<1>2. D!Normalized(c) \in Cells BY RespellAssumption DEF D!Normalized
<1>3. D!NewTime(s, r, c) \in Cells BY <1>1, <1>2 DEF D!NewTime, Row
<1>4. \A row \in Row : D!WithFeedback(row, k) \in Row
  BY DEF D!WithFeedback, Row
<1>5. \A row \in Row, status0 \in Statuses, cell \in Cells :
         D!WithEdits(row, status0, t, cell) \in Row
  BY DEF D!WithEdits, Row
<1>6. D!NewStatus(s) \in Statuses BY DEF D!NewStatus, Statuses
<1>7. CASE op[s] = "feedback"
  BY <1>1, <1>4, <1>7 DEF D!Merged, D!WithFeedback, Row
<1>8. CASE op[s] # "feedback"
  <2>1. D!Merged(s, r, t, c, k) = D!WithEdits(copy[s], D!NewStatus(s), t, D!NewTime(s, r, c))
    BY <1>8 DEF D!Merged
  <2> QED BY <1>1, <1>3, <1>5, <1>6, <1>8, <2>1 DEF D!WithEdits, D!NewStatus, Row
<1> QED BY <1>7, <1>8

\* A step of a session keeps the types of the publisher's variables.
LEMMA SessionKeepsTypes ==
    ASSUME SystemTypeOK, NEW s \in Sessions, SessionTouches(s)
    PROVE  TypeOK'
<1>1. queue' \in [Rows -> Row] /\ consent' \subseteq Rows \X Texts \X Cells
  <2>1. CASE UNCHANGED <<queue, consent>> BY <2>1 DEF SystemTypeOK, TypeOK
  <2>2. CASE ~UNCHANGED <<queue, consent>>
    <3>1. PICK r \in items[s], t \in Texts, c \in Cells, k \in Comments :
             /\ dpc[s] = "write"
             /\ queue' = [queue EXCEPT ![r] = D!Merged(s, r, t, c, k)]
             /\ consent' = IF op[s] = "approve"
                           THEN consent \cup {<<r, D!Merged(s, r, t, c, k).text,
                                                   D!Merged(s, r, t, c, k).scheduled_at>>}
                           ELSE consent
      BY <2>2 DEF SessionTouches
    <3>2. D!Merged(s, r, t, c, k) \in Row /\ r \in Rows
      BY <3>1, MergedRow DEF SystemTypeOK
    <3>3. /\ D!Merged(s, r, t, c, k).text \in Texts
          /\ D!Merged(s, r, t, c, k).scheduled_at \in Cells
      BY <3>2 DEF Row
    <3> QED BY <3>1, <3>2, <3>3 DEF SystemTypeOK, TypeOK
  <2> QED BY <2>1, <2>2
<1> QED BY <1>1 DEF SessionTouches, SystemTypeOK, TypeOK, run

\* Every step of the system keeps every type.
LEMMA SystemTypeStep == SystemTypeOK /\ [SystemNext]_allVars => SystemTypeOK'
<1> SUFFICES ASSUME SystemTypeOK, [SystemNext]_allVars PROVE SystemTypeOK'
  OBVIOUS
<1> USE DEF SystemTypeOK
<1>1. TypeOK'
  BY SystemCases, SessionKeepsTypes, TypeStep
<1>2. CASE UNCHANGED tabs BY <1>1, <1>2 DEF tabs
<1>3. ASSUME NEW s \in Sessions, NEW h \in Rows, NEW o \in {"approve", "save", "feedback"},
             D!Open(s, h, o)
      PROVE  SystemTypeOK'
  BY <1>1, <1>3 DEF D!Open, D!Card
<1>4. ASSUME NEW s \in Sessions, D!ReadRow(s) PROVE SystemTypeOK'
  <2>1. PICK r \in items[s] : copy' = [copy EXCEPT ![s] = queue[r]]
    BY <1>4 DEF D!ReadRow
  <2>2. queue[r] \in Row BY DEF TypeOK
  <2> QED BY <1>1, <1>4, <2>1, <2>2 DEF D!ReadRow
<1>5. ASSUME NEW s \in Sessions, D!Close(s) PROVE SystemTypeOK'
  BY <1>1, <1>5 DEF D!Close
<1>6. ASSUME NEW s \in Sessions, NEW t \in Texts, NEW c \in Cells, NEW k \in Comments,
             D!WriteRow(s, t, c, k)
      PROVE  SystemTypeOK'
  <2>1. CASE D!Close(s) BY <1>5, <2>1
  <2>2. CASE \E r \in items[s] :
                /\ items' = [items EXCEPT ![s] = @ \ {r}]
                /\ dpc' = [dpc EXCEPT ![s] = "items"]
                /\ copy' = [copy EXCEPT ![s] = <<>>]
                /\ UNCHANGED <<op, lead>>
    BY <1>1, <2>2
  <2> QED BY <1>6, <2>1, <2>2 DEF D!WriteRow
<1>7. CASE Human
  BY <1>3, <1>4, <1>5, <1>6, <1>7 DEF Human, D!SessionNext, D!GiveUp
<1> QED BY <1>2, <1>7 DEF SystemNext, Publisher, allVars

\* The types of the sheet, the runs and the sessions hold along every behaviour of the
\* system, for any number of runs and sessions and any faults.
THEOREM SystemTypeCorrect == SystemSpec => []SystemTypeOK
<1>1. SystemInit => SystemTypeOK
  <2>1. Init => TypeOK
    BY RowsAssumption, CellsAssumption
       DEF Init, TypeOK, Row, Statuses, Post, Stages, NoMedia, NoTime
  <2> QED BY <2>1 DEF SystemInit, D!SessionInit, SystemTypeOK
<1> QED BY <1>1, SystemTypeStep, PTL DEF SystemSpec

-----------------------------------------------------------------------------
\* A session is busy with the rows of one card, and a copy that is approved is
\* covered by consent: what it writes back of it is too.
CopyCovered ==
    \A s \in Sessions :
        /\ \A r, q \in items[s] : Parent[r] = Parent[q]
        /\ dpc[s] = "write" => \A r \in items[s] :
              D!FirstOf(items[s], r) /\ copy[s].status = "approved"
                 => <<r, copy[s].text, copy[s].scheduled_at>> \in consent

\* The first row of a card is one row.
LEMMA FirstIsUnique ==
    ASSUME NEW S \in SUBSET Rows, \A r, q \in S : Parent[r] = Parent[q],
           NEW r \in S, NEW q \in S, D!FirstOf(S, r), D!FirstOf(S, q)
    PROVE  r = q
<1>1. SeqNo[r] <= SeqNo[q] /\ SeqNo[q] <= SeqNo[r] /\ SeqNo[r] \in Nat /\ SeqNo[q] \in Nat
  BY RowsAssumption DEF D!FirstOf
<1> QED BY <1>1, RowsAssumption

\* Every step of the system keeps copies covered.
LEMMA CopyCoveredStep ==
    SystemTypeOK /\ ConsentCovers /\ CopyCovered /\ [SystemNext]_allVars => CopyCovered'
<1> SUFFICES ASSUME SystemTypeOK, ConsentCovers, CopyCovered, [SystemNext]_allVars
             PROVE  CopyCovered'
  OBVIOUS
<1>1. CASE UNCHANGED tabs /\ UNCHANGED consent
  BY <1>1 DEF tabs, CopyCovered, D!FirstOf
<1>2. ASSUME NEW s \in Sessions, SessionTouches(s) PROVE CopyCovered'
  <2>1. consent \subseteq consent' BY <1>2 DEF SessionTouches
  <2>2. ASSUME NEW x \in Sessions, x # s
        PROVE  /\ \A r, q \in items'[x] : Parent[r] = Parent[q]
               /\ dpc'[x] = "write" => \A r \in items'[x] :
                     D!FirstOf(items'[x], r) /\ copy'[x].status = "approved"
                        => <<r, copy'[x].text, copy'[x].scheduled_at>> \in consent'
    BY <1>2, <2>1, <2>2 DEF SessionTouches, CopyCovered
  <2>3. \A r, q \in items'[s] : Parent[r] = Parent[q]
    BY <1>2 DEF SessionTouches, CopyCovered, D!Card
  <2>4. ASSUME dpc'[s] = "write", NEW r \in items'[s], D!FirstOf(items'[s], r),
               copy'[s].status = "approved"
        PROVE  <<r, copy'[s].text, copy'[s].scheduled_at>> \in consent'
    <3>1. /\ items' = items /\ UNCHANGED <<queue, consent>>
          /\ \E q \in items[s] : D!FirstOf(items[s], q) /\ copy'[s] = queue[q]
      BY <1>2, <2>4 DEF SessionTouches
    <3>2. items[s] \in SUBSET Rows BY DEF SystemTypeOK
    <3>3. copy'[s] = queue[r] /\ r \in Rows
      BY <2>4, <3>1, <3>2, FirstIsUnique DEF CopyCovered
    <3> QED BY <2>4, <3>1, <3>3 DEF ConsentCovers
  <2> QED BY <2>2, <2>3, <2>4 DEF CopyCovered
<1> QED BY <1>1, <1>2, SystemCases DEF PublisherNext, Start, RunStep, NextUnit, Finish,
           Prepare, PrepareFails, PublishPost, PublishRefused, PublishUnacknowledged,
           Record, RecordFails, RecordUnacknowledged, WritePosted, MarkFailed, MarkLost,
           Marked, Crash, Tick, vars, human

\* What a session writes back approved is covered by consent.
LEMMA SessionConsents ==
    ASSUME SystemTypeOK, ConsentCovers, CopyCovered, NEW s \in Sessions, SessionTouches(s)
    PROVE  ConsentCovers'
<1>1. consent \subseteq consent' /\ UNCHANGED run BY DEF SessionTouches
<1>2. \A r \in Rows : queue'[r].status = "approved"
         => <<r, queue'[r].text, queue'[r].scheduled_at>> \in consent'
  <2>1. CASE UNCHANGED queue BY <1>1, <2>1 DEF ConsentCovers
  <2>2. CASE ~UNCHANGED queue
    <3>1. PICK r \in items[s], t \in Texts, c \in Cells, k \in Comments :
             /\ dpc[s] = "write" /\ D!FirstOf(items[s], r)
             /\ queue' = [queue EXCEPT ![r] = D!Merged(s, r, t, c, k)]
             /\ consent' = IF op[s] = "approve"
                           THEN consent \cup {<<r, D!Merged(s, r, t, c, k).text,
                                                   D!Merged(s, r, t, c, k).scheduled_at>>}
                           ELSE consent
      BY <2>2 DEF SessionTouches
    <3> DEFINE new == D!Merged(s, r, t, c, k)
    <3>2. r \in Rows /\ queue'[r] = new /\ \A q \in Rows \ {r} : queue'[q] = queue[q]
      BY <3>1 DEF SystemTypeOK, TypeOK
    <3>3. new.status = "approved" => <<r, new.text, new.scheduled_at>> \in consent'
      <4>1. CASE op[s] = "approve" BY <3>1, <4>1
      <4>2. CASE op[s] = "feedback"
        BY <1>1, <3>1, <4>2, MergedRow DEF CopyCovered
      <4>3. CASE op[s] = "save" BY <3>1, <4>3, MergedRow
      <4> QED BY <4>1, <4>2, <4>3 DEF SystemTypeOK
    <3> QED BY <1>1, <3>2, <3>3 DEF ConsentCovers
  <2> QED BY <2>1, <2>2
<1> QED BY <1>1, <1>2 DEF ConsentCovers, run, IsDue, IsHead

\* Consent covers the sheet, every run's copy of it and every session's copy of a row
\* along every behaviour of the system.
LEMMA SystemConsent ==
    SystemSpec => [](ConsentCovers /\ CopyCovered /\ PublishedAsApproved)
<1>1. SystemInit => ConsentCovers /\ CopyCovered /\ PublishedAsApproved
  BY DEF SystemInit, Init, D!SessionInit, ConsentCovers, CopyCovered, PublishedAsApproved
<1>2. SystemTypeOK /\ ConsentCovers /\ CopyCovered /\ PublishedAsApproved
      /\ [SystemNext]_allVars
      => ConsentCovers' /\ PublishedAsApproved'
  <2> SUFFICES ASSUME SystemTypeOK, ConsentCovers, CopyCovered, PublishedAsApproved,
                      [SystemNext]_allVars
               PROVE  ConsentCovers' /\ PublishedAsApproved'
    OBVIOUS
  <2>1. CASE [Next]_vars BY <2>1, ConsentStep DEF SystemTypeOK
  <2>2. ASSUME NEW s \in Sessions, SessionTouches(s)
        PROVE  ConsentCovers' /\ PublishedAsApproved'
    <3>1. feed' = feed /\ consent \subseteq consent' BY <2>2 DEF SessionTouches
    <3>2. PublishedAsApproved' BY <3>1 DEF PublishedAsApproved, IsHead
    <3> QED BY <2>2, <3>2, SessionConsents
  <2> QED BY <2>1, <2>2, SystemCases
<1> QED BY <1>1, <1>2, CopyCoveredStep, SystemTypeCorrect, PTL DEF SystemSpec

\* "Drafts are NEVER published" over the whole system: what is live reads as a human
\* left it approved in the dashboard, and heads were due, for any number of runs and
\* of sessions, whatever each writes back of a stale copy, and with any faults.
THEOREM SystemPublishesApproved == SystemSpec => []PublishedAsApproved
BY SystemConsent, PTL

-----------------------------------------------------------------------------
\* One browser tab at a time.
SoleSession == \A s, t \in Sessions : s = t

\* What a sole session is busy with are drafts, and its copy of the next row is the
\* row itself.
DraftsHeld ==
    \A s \in Sessions : \A r \in items[s] :
        /\ queue[r].status = "draft"
        /\ dpc[s] = "write" /\ D!FirstOf(items[s], r) => copy[s] = queue[r]

\* What a run has of a row that was not a draft when it started is still true of it,
\* but for the cells of the result.
SnapAgrees ==
    \A p \in Runs : pc[p] # "idle" => \A r \in Rows : snap[p][r].status # "draft" =>
        /\ queue[r].status # "draft" /\ queue[r].text = snap[p][r].text
        /\ queue[r].scheduled_at = snap[p][r].scheduled_at
        /\ queue[r].feedback = snap[p][r].feedback

\* A row keeps the columns a publisher has no business with.
Keeps(r) ==
    /\ queue'[r].text = queue[r].text /\ queue'[r].scheduled_at = queue[r].scheduled_at
    /\ queue'[r].feedback = queue[r].feedback

\* A publisher does not touch drafts, and changes of other rows the result only.
LEMMA PublisherKeeps ==
    ASSUME TypeOK, ConsentCovers, SnapAgrees, PublisherNext \/ Tick \/ UNCHANGED vars,
           NEW r \in Rows
    PROVE  \/ queue'[r] = queue[r]
           \/ /\ queue[r].status # "draft" /\ queue'[r].status \in Terminal /\ Keeps(r)
              /\ \E p \in Runs : r \in left[p] /\ pc[p] \in {"record", "failing"}
<1>1. CASE Tick \/ UNCHANGED vars BY <1>1 DEF Tick, vars, human
<1>2. CASE PublisherNext
  <2>1. PICK p \in Runs : Start(p) \/ RunStep(p) \/ Crash(p) BY <1>2 DEF PublisherNext
  <2>2. CASE Start(p) \/ Crash(p) \/ NextUnit(p) \/ Finish(p)
    BY <2>2 DEF Start, Crash, NextUnit, Finish, human
  <2>3. CASE Touches(p) /\ RunStep(p)
    <3>1. queue' = queue \/ pc[p] \in {"record", "failing"}
      BY <2>3 DEF RunStep, NextUnit, Finish, Prepare, PrepareFails, PublishPost,
             PublishRefused, PublishUnacknowledged, Record, RecordFails,
             RecordUnacknowledged, MarkFailed, MarkLost, human
    <3> SUFFICES ASSUME queue'[r] # queue[r]
                 PROVE  /\ queue[r].status # "draft" /\ queue'[r].status \in Terminal
                        /\ Keeps(r) /\ r \in left[p]
      BY <3>1
    <3>2. /\ r \in left[p] /\ pc[p] # "idle"
          /\ \/ queue'[r] = PostedRow(snap[p][r], media[p], began[p])
             \/ queue'[r] = FailedRow(snap[p][r])
      BY <2>3 DEF Touches, IsNext
    <3>3. snap[p][r] \in Row /\ snap[p][r].status = "approved"
      BY <3>2 DEF TypeOK, ConsentCovers
    <3>4. /\ queue'[r].status \in Terminal
          /\ queue'[r].text = snap[p][r].text
          /\ queue'[r].scheduled_at = snap[p][r].scheduled_at
          /\ queue'[r].feedback = snap[p][r].feedback
      BY <3>2, <3>3 DEF PostedRow, FailedRow, Row, Terminal
    <3> QED BY <3>2, <3>3, <3>4 DEF SnapAgrees, Keeps
  <2> QED BY <2>1, <2>2, <2>3, UnitStep
<1> QED BY <1>1, <1>2

\* A sole session writes drafts only, and makes of one a draft or an approved row.
LEMMA SessionKeeps ==
    ASSUME SystemTypeOK, DraftsHeld, NEW s \in Sessions, SessionTouches(s), NEW r \in Rows
    PROVE  \/ queue'[r] = queue[r]
           \/ /\ queue[r].status = "draft" /\ queue'[r].status \in {"draft", "approved"}
              /\ queue'[r].posted_post_id = queue[r].posted_post_id
              /\ queue'[r].posted_at = queue[r].posted_at
              /\ r \in items[s] /\ dpc[s] = "write" /\ dpc'[s] # "write"
              /\ op[s] = "feedback" => /\ queue'[r].text = queue[r].text
                                       /\ queue'[r].scheduled_at = queue[r].scheduled_at
              /\ op[s] # "feedback" => queue'[r].feedback = queue[r].feedback
<1>1. CASE UNCHANGED queue BY <1>1
<1>2. CASE ~UNCHANGED queue
  <2>1. PICK q \in items[s], t \in Texts, c \in Cells, k \in Comments :
           /\ dpc[s] = "write" /\ dpc'[s] # "write" /\ D!FirstOf(items[s], q)
           /\ queue' = [queue EXCEPT ![q] = D!Merged(s, q, t, c, k)]
    BY <1>2 DEF SessionTouches
  <2>2. copy[s] = queue[q] /\ queue[q].status = "draft" /\ q \in Rows
    BY <2>1 DEF DraftsHeld, SystemTypeOK
  <2>3. /\ queue'[q] = D!Merged(s, q, t, c, k)
        /\ \A x \in Rows \ {q} : queue'[x] = queue[x]
    BY <2>1, <2>2 DEF SystemTypeOK, TypeOK
  <2> QED BY <2>1, <2>2, <2>3, MergedRow
<1> QED BY <1>1, <1>2

\* Every step of the system keeps the drafts a sole session holds drafts.
LEMMA DraftsHeldStep ==
    ASSUME SoleSession
    PROVE  /\ SystemTypeOK /\ ConsentCovers /\ CopyCovered /\ SnapAgrees /\ DraftsHeld
           /\ [SystemNext]_allVars
           => DraftsHeld'
<1> SUFFICES ASSUME SystemTypeOK, ConsentCovers, CopyCovered, SnapAgrees, DraftsHeld,
                    [SystemNext]_allVars
             PROVE  DraftsHeld'
  OBVIOUS
<1>1. CASE UNCHANGED tabs /\ (PublisherNext \/ Tick \/ UNCHANGED vars)
  <2>1. \A r \in Rows : queue[r].status = "draft" => queue'[r] = queue[r]
    BY <1>1, PublisherKeeps DEF SystemTypeOK
  <2>2. \A s \in Sessions : items[s] \subseteq Rows BY DEF SystemTypeOK
  <2> QED BY <1>1, <2>1, <2>2 DEF DraftsHeld, tabs, D!FirstOf
<1>2. ASSUME NEW s \in Sessions, SessionTouches(s) PROVE DraftsHeld'
  <2>1. \A x \in Sessions : x = s BY DEF SoleSession
  <2>2. CASE UNCHANGED queue /\ \E h \in Rows : items'[s] = D!Card(h) /\ dpc'[s] = "items"
    BY <2>1, <2>2 DEF DraftsHeld, D!Card
  <2>3. CASE /\ UNCHANGED <<queue, items>>
             /\ \E r \in items[s] : D!FirstOf(items[s], r) /\ copy'[s] = queue[r]
    <3>1. items[s] \in SUBSET Rows BY DEF SystemTypeOK
    <3>2. \A r \in items[s] : D!FirstOf(items[s], r) => copy'[s] = queue[r]
      BY <2>3, <3>1, FirstIsUnique DEF CopyCovered
    <3> QED BY <2>1, <2>3, <3>2 DEF DraftsHeld, D!FirstOf
  <2>4. CASE items'[s] = {} BY <2>1, <2>4 DEF DraftsHeld
  <2>5. CASE \E r \in items[s] :
                /\ dpc'[s] \in {"idle", "items"} /\ items'[s] \subseteq items[s] \ {r}
                /\ \A q \in Rows \ {r} : queue'[q] = queue[q]
    <3>1. items[s] \in SUBSET Rows BY DEF SystemTypeOK
    <3> QED BY <2>1, <2>5, <3>1 DEF DraftsHeld
  <2>6. \A r \in Rows : \A row : queue' = [queue EXCEPT ![r] = row]
           => \A q \in Rows \ {r} : queue'[q] = queue[q]
    BY DEF SystemTypeOK, TypeOK
  <2>7. items[s] \in SUBSET Rows BY DEF SystemTypeOK
  <2> QED BY <1>2, <2>2, <2>3, <2>4, <2>5, <2>6, <2>7 DEF SessionTouches
<1> QED BY <1>1, <1>2, SystemCases

\* Every step of the system keeps what the runs have of rows that are no drafts true.
LEMMA SnapAgreesStep ==
    ASSUME SoleSession
    PROVE  /\ SystemTypeOK /\ ConsentCovers /\ SnapAgrees /\ DraftsHeld
           /\ [SystemNext]_allVars
           => SnapAgrees'
<1> SUFFICES ASSUME SystemTypeOK, ConsentCovers, SnapAgrees, DraftsHeld,
                    [SystemNext]_allVars,
                    NEW p \in Runs, pc'[p] # "idle", NEW r \in Rows,
                    snap'[p][r].status # "draft"
             PROVE  /\ queue'[r].status # "draft" /\ queue'[r].text = snap'[p][r].text
                    /\ queue'[r].scheduled_at = snap'[p][r].scheduled_at
                    /\ queue'[r].feedback = snap'[p][r].feedback
  BY DEF SnapAgrees
<1>1. CASE Start(p)
  BY <1>1 DEF Start, human, SystemTypeOK, TypeOK
<1>2. ASSUME pc[p] # "idle", snap'[p] = snap[p],
             queue'[r] = queue[r] \/ (Keeps(r) /\ queue'[r].status # "draft")
                                  \/ queue[r].status = "draft"
      PROVE  /\ queue'[r].status # "draft" /\ queue'[r].text = snap'[p][r].text
             /\ queue'[r].scheduled_at = snap'[p][r].scheduled_at
             /\ queue'[r].feedback = snap'[p][r].feedback
  BY <1>2 DEF SnapAgrees, Keeps
<1>3. CASE PublisherNext /\ ~Start(p)
  <2>1. PICK x \in Runs : Start(x) \/ RunStep(x) \/ Crash(x) BY <1>3 DEF PublisherNext
  <2>2. pc[p] # "idle" /\ snap'[p] = snap[p]
    <3>1. CASE Start(x) BY <1>3, <3>1 DEF Start, SystemTypeOK, TypeOK
    <3>2. CASE Touches(x) BY <3>2 DEF Touches
    <3>3. CASE NextUnit(x) BY <3>3 DEF NextUnit, SystemTypeOK, TypeOK
    <3>4. CASE Reset(x) BY <3>4 DEF Reset, SystemTypeOK, TypeOK
    <3> QED BY <2>1, <3>1, <3>2, <3>3, <3>4, UnitStep DEF SystemTypeOK, Finish, Crash
  <2> QED BY <1>2, <1>3, <2>2, PublisherKeeps DEF SystemTypeOK, Terminal
<1>4. CASE Tick \/ UNCHANGED vars
  BY <1>2, <1>4 DEF Tick, vars, human, run
<1>5. ASSUME NEW s \in Sessions, SessionTouches(s)
      PROVE  /\ queue'[r].status # "draft" /\ queue'[r].text = snap'[p][r].text
             /\ queue'[r].scheduled_at = snap'[p][r].scheduled_at
             /\ queue'[r].feedback = snap'[p][r].feedback
  <2>1. pc[p] # "idle" /\ snap' = snap BY <1>5 DEF SessionTouches, run
  <2> QED BY <1>2, <1>5, <2>1, SessionKeeps
<1> QED BY <1>1, <1>3, <1>4, <1>5, SystemCases

\* Both hold along every behaviour of the system with one session.
LEMMA SheetShared ==
    ASSUME SoleSession
    PROVE  SystemSpec => [](SnapAgrees /\ DraftsHeld)
<1>1. SystemInit => SnapAgrees /\ DraftsHeld
  BY DEF SystemInit, Init, D!SessionInit, SnapAgrees, DraftsHeld
<1> QED BY <1>1, DraftsHeldStep, SnapAgreesStep, SystemConsent, SystemTypeCorrect, PTL
        DEF SystemSpec

\* "They MERGE with the existing row so unrelated columns are never wiped", of the
\* dashboard and of the publisher, for one session at a time, any number of
\* overlapping runs and any faults: a column changes only in a step that means to
\* change it, although each of them writes whole rows back from a copy.
THEOREM ColumnsAreKept ==
    ASSUME SoleSession
    PROVE  SystemSpec => ColumnsKept
<1> DEFINE Kept(r) ==
      /\ queue'[r].feedback # queue[r].feedback
            => \E s \in Sessions : Writes(s, r, {"feedback"})
      /\ (\/ queue'[r].text # queue[r].text
          \/ queue'[r].scheduled_at # queue[r].scheduled_at)
            => \E s \in Sessions : Writes(s, r, {"approve", "save"})
      /\ (\/ queue'[r].posted_post_id # queue[r].posted_post_id
          \/ queue'[r].posted_at # queue[r].posted_at)
            => \E p \in Runs : r \in left[p] /\ pc[p] \in {"record", "failing"}
<1>1. SystemTypeOK /\ ConsentCovers /\ SnapAgrees /\ DraftsHeld /\ [SystemNext]_allVars
      => [\A r \in Rows : Kept(r)]_allVars
  <2> SUFFICES ASSUME SystemTypeOK, ConsentCovers, SnapAgrees, DraftsHeld,
                      [SystemNext]_allVars, NEW r \in Rows
               PROVE  Kept(r)
    OBVIOUS
  <2>1. CASE PublisherNext \/ Tick \/ UNCHANGED vars
    BY <2>1, PublisherKeeps DEF SystemTypeOK, Keeps
  <2>2. ASSUME NEW s \in Sessions, SessionTouches(s) PROVE Kept(r)
    <3>1. op[s] \in {"approve", "save", "feedback"} BY DEF SystemTypeOK
    <3> QED BY <2>2, <3>1, SessionKeeps DEF Writes
  <2> QED BY <2>1, <2>2, SystemCases
<1> QED BY <1>1, SheetShared, SystemConsent, SystemTypeCorrect, PTL
        DEF SystemSpec, ColumnsKept

-----------------------------------------------------------------------------
\* One publisher process and one browser tab: what PublishOnceProofs proves of the
\* publisher with the one-step human holds with the dashboard's own steps.

\* A session changes drafts only, so it leaves the sole run the owner of its rows.
LEMMA SessionOwns ==
    ASSUME SystemTypeOK, DraftsHeld, OwnsItsUnits, NEW s \in Sessions, SessionTouches(s)
    PROVE  OwnsItsUnits'
<1>1. UNCHANGED <<feed, run>> BY DEF SessionTouches
<1>2. /\ LiveRows' = LiveRows /\ \A p \in Runs : left[p] \subseteq Rows
      /\ pc' = pc /\ left' = left /\ todo' = todo /\ snap' = snap
  BY <1>1 DEF LiveRows, run, SystemTypeOK, TypeOK
<1>3. \A r \in Rows : \/ queue'[r] = queue[r]
                      \/ /\ queue[r].status = "draft"
                         /\ queue'[r].status \in {"draft", "approved"}
  BY SessionKeeps
<1>4. \A r \in Rows : r \in LiveRows => queue'[r] = queue[r]
  BY <1>3 DEF OwnsItsUnits
<1>5. \A r \in Rows : queue[r].status = "approved" => queue'[r].status = "approved"
  BY <1>3
<1> QED BY <1>2, <1>4, <1>5 DEF OwnsItsUnits, Publishing, IsNext

\* The sole run owns its rows along every behaviour of the system.
LEMMA SystemOwns ==
    ASSUME SoleRun, SoleSession, "mark" \notin Faults, "crash" \notin Faults
    PROVE  SystemSpec => [](OneUnit /\ MediaKnown /\ OwnsItsUnits)
<1>1. SystemInit => OneUnit /\ MediaKnown /\ OwnsItsUnits
  BY DEF SystemInit, Init, OneUnit, MediaKnown, OwnsItsUnits, LiveRows, Publishing
<1>2. /\ SystemTypeOK /\ DraftsHeld /\ OneUnit /\ MediaKnown /\ OwnsItsUnits
      /\ [SystemNext]_allVars
      => OneUnit' /\ MediaKnown' /\ OwnsItsUnits'
  <2> SUFFICES ASSUME SystemTypeOK, DraftsHeld, OneUnit, MediaKnown, OwnsItsUnits,
                      [SystemNext]_allVars
               PROVE  OneUnit' /\ MediaKnown' /\ OwnsItsUnits'
    OBVIOUS
  <2>1. CASE [Next]_vars
    BY <2>1, OneUnitStep, MediaKnownStep, OwnsStep DEF SystemTypeOK
  <2>2. ASSUME NEW s \in Sessions, SessionTouches(s)
        PROVE  OneUnit' /\ MediaKnown' /\ OwnsItsUnits'
    <3>1. UNCHANGED <<feed, run>> BY <2>2 DEF SessionTouches
    <3>2. OneUnit' BY <3>1 DEF OneUnit, run
    <3>3. MediaKnown' BY <3>1 DEF MediaKnown, IsNext, run
    <3> QED BY <2>2, <3>2, <3>3, SessionOwns
  <2> QED BY <2>1, <2>2, SystemCases
<1> QED BY <1>1, <1>2, SheetShared, SystemTypeCorrect, PTL DEF SystemSpec

\* With one publisher process at a time, whose failed marks are written and which does
\* not die, and one browser tab, no row goes live twice, although the tab writes whole
\* rows back from a copy.
THEOREM SystemPublishesOnce ==
    ASSUME SoleRun, SoleSession, "mark" \notin Faults, "crash" \notin Faults
    PROVE  SystemSpec => []NoDoublePost
<1>1. SystemInit => NoDoublePost BY DEF SystemInit, Init, NoDoublePost
<1>2. SystemTypeOK /\ OwnsItsUnits /\ NoDoublePost /\ [SystemNext]_allVars
      => NoDoublePost'
  <2> SUFFICES ASSUME SystemTypeOK, OwnsItsUnits, NoDoublePost, [SystemNext]_allVars
               PROVE  NoDoublePost'
    OBVIOUS
  <2>1. CASE [Next]_vars BY <2>1, OnceStep DEF SystemTypeOK
  <2>2. CASE \E s \in Sessions : SessionTouches(s)
    BY <2>2 DEF SessionTouches, NoDoublePost
  <2> QED BY <2>1, <2>2, SystemCases
<1> QED BY <1>1, <1>2, SystemOwns, SystemTypeCorrect, PTL DEF SystemSpec

\* The rows a run holds are approved until it gives them their final status, and what
\* comes before them is posted, along every behaviour of the system.
LEMMA SystemRunFacts ==
    ASSUME SoleRun, SoleSession, "mark" \notin Faults, "crash" \notin Faults,
           "record_ack" \notin Faults
    PROVE  SystemSpec => [](HoldsApproved /\ LowerPosted)
<1>1. SystemInit => HoldsApproved /\ LowerPosted
  BY DEF SystemInit, Init, HoldsApproved, LowerPosted, Publishing
<1>2. /\ SystemTypeOK /\ SystemTypeOK' /\ DraftsHeld /\ OneUnit /\ OwnsItsUnits
      /\ OwnsItsUnits' /\ HoldsApproved /\ LowerPosted /\ [SystemNext]_allVars
      => HoldsApproved' /\ LowerPosted'
  <2> SUFFICES ASSUME SystemTypeOK, SystemTypeOK', DraftsHeld, OneUnit, OwnsItsUnits,
                      OwnsItsUnits', HoldsApproved, LowerPosted, [SystemNext]_allVars
               PROVE  HoldsApproved' /\ LowerPosted'
    OBVIOUS
  <2>1. CASE [Next]_vars
    BY <2>1, HoldsApprovedStep, LowerPostedStep DEF SystemTypeOK
  <2>2. ASSUME NEW s \in Sessions, SessionTouches(s) PROVE HoldsApproved' /\ LowerPosted'
    <3>1. pc' = pc /\ left' = left /\ \A p \in Runs : left[p] \subseteq Rows
      BY <2>2 DEF SessionTouches, run, SystemTypeOK, TypeOK
    <3>2. \A r \in Rows : queue[r].status # "draft" => queue'[r] = queue[r]
      BY <2>2, SessionKeeps
    <3> QED BY <3>1, <3>2 DEF HoldsApproved, LowerPosted, Publishing
  <2> QED BY <2>1, <2>2, SystemCases
<1> QED BY <1>1, <1>2, SystemOwns, SheetShared, SystemTypeCorrect, PTL DEF SystemSpec

\* Under the same conditions, when acknowledgements of row updates are not lost, no run
\* and no session changes a row that is posted or failed.
THEOREM SystemKeepsFinalRows ==
    ASSUME SoleRun, SoleSession, "mark" \notin Faults, "crash" \notin Faults,
           "record_ack" \notin Faults
    PROVE  SystemSpec => FinalForAll
<1>1. SystemTypeOK /\ DraftsHeld /\ HoldsApproved /\ [SystemNext]_allVars
      => [\A r \in Rows : queue[r].status \in Terminal => queue'[r] = queue[r]]_allVars
  <2> SUFFICES ASSUME SystemTypeOK, DraftsHeld, HoldsApproved, [SystemNext]_allVars,
                      NEW r \in Rows, queue[r].status \in Terminal
               PROVE  queue'[r] = queue[r]
    OBVIOUS
  <2>1. CASE [Next]_vars BY <2>1, FinalRowsStep DEF SystemTypeOK
  <2>2. ASSUME NEW s \in Sessions, SessionTouches(s) PROVE queue'[r] = queue[r]
    BY <2>2, SessionKeeps DEF Terminal
  <2> QED BY <2>1, <2>2, SystemCases
<1> QED BY <1>1, SystemRunFacts, SheetShared, SystemTypeCorrect, PTL
        DEF SystemSpec, FinalForAll

\* The publisher and the dashboard together implement PublishOnce under the same
\* conditions: opening, reading and giving up a card change nothing that it sees, and
\* what a tab writes is an approval of one row or leaves it a draft.
THEOREM SystemImplementsOnce ==
    ASSUME SoleRun, SoleSession, "mark" \notin Faults, "crash" \notin Faults,
           "record_ack" \notin Faults
    PROVE  SystemSpec => ImplementsPublishOnce
<1>1. SystemInit => Once!Init
  BY DEF SystemInit, Init, Once!Init
<1>2. /\ SystemTypeOK /\ DraftsHeld /\ OneUnit /\ MediaKnown /\ OwnsItsUnits
      /\ HoldsApproved /\ LowerPosted /\ [SystemNext]_allVars
      => [Once!Next]_<<status, live>>
  <2> SUFFICES ASSUME SystemTypeOK, DraftsHeld, OneUnit, MediaKnown, OwnsItsUnits,
                      HoldsApproved, LowerPosted, [SystemNext]_allVars
               PROVE  Once!Next \/ UNCHANGED <<status, live>>
    OBVIOUS
  <2>1. UNCHANGED <<queue, feed>> => UNCHANGED <<status, live>> BY DEF status, live
  <2>2. CASE PublisherNext
    BY <2>2, <2>1, UnitRefines DEF PublisherNext, Start, Crash, human, SystemTypeOK
  <2>3. CASE Tick \/ UNCHANGED vars BY <2>1, <2>3 DEF Tick, vars, human
  <2>4. ASSUME NEW s \in Sessions, SessionTouches(s)
        PROVE  Once!Next \/ UNCHANGED <<status, live>>
    <3>1. feed' = feed /\ live' = live BY <2>4 DEF SessionTouches, live
    <3>2. CASE queue' = queue BY <2>1, <3>1, <3>2
    <3>3. CASE queue' # queue
      <4>1. PICK r \in items[s] : \E row : queue' = [queue EXCEPT ![r] = row]
        BY <2>4, <3>3 DEF SessionTouches
      <4>2. /\ r \in Rows /\ queue[r].status = "draft"
            /\ \A q \in Rows \ {r} : queue'[q] = queue[q]
        BY <4>1 DEF DraftsHeld, SystemTypeOK, TypeOK
      <4>3. queue'[r].status \in {"draft", "approved"} BY <2>4, <4>2, SessionKeeps
      <4>4. status' = [status EXCEPT ![r] = queue'[r].status] BY <4>2, MappedStep
      <4>5. CASE queue'[r].status = "approved"
        BY <3>1, <4>2, <4>4, <4>5 DEF Once!Next, Once!Approve, status, live
      <4>6. CASE queue'[r].status = "draft"
        BY <3>1, <4>2, <4>4, <4>6 DEF status
      <4> QED BY <4>3, <4>5, <4>6
    <3> QED BY <3>2, <3>3
  <2> QED BY <2>2, <2>3, <2>4, SystemCases
<1> QED
  BY <1>1, <1>2, SystemRunFacts, SystemOwns, SheetShared, SystemTypeCorrect, PTL
     DEF SystemSpec, ImplementsPublishOnce, Once!Spec, status, live

-----------------------------------------------------------------------------
\* The limits of PublishCapsProofs, with the dashboard's own steps.

\* What a sole session leaves alone: everything but the status of drafts, and their
\* cells; a unit is broken after its step when it was before.
LEMMA SessionFrame ==
    ASSUME SystemTypeOK, DraftsHeld, NEW s \in Sessions, SessionTouches(s)
    PROVE  /\ TypeOK' /\ UNCHANGED <<feed, now, run>> /\ LiveRows' = LiveRows
           /\ \A r \in Rows : queue[r].status # "draft" => queue'[r] = queue[r]
           /\ \A r \in Rows : queue[r].status = "draft"
                 => queue'[r].status \in {"draft", "approved"}
           /\ \A h : Broken(h)' <=> Broken(h)
<1>1. UNCHANGED <<feed, now, run>> BY DEF SessionTouches
<1>2. /\ \A r \in Rows : queue[r].status # "draft" => queue'[r] = queue[r]
      /\ \A r \in Rows : queue[r].status = "draft"
            => queue'[r].status \in {"draft", "approved"}
  BY SessionKeeps
<1>3. \A h : Broken(h)' <=> Broken(h) BY <1>2 DEF Broken
<1> QED BY <1>1, <1>2, <1>3, SessionKeepsTypes DEF LiveRows

\* A sole session's step keeps what PublishCapsProofs knows of the sole run.
LEMMA SessionKeepsCaps ==
    ASSUME SystemTypeOK, DraftsHeld, NEW s \in Sessions, SessionTouches(s)
    PROVE  /\ CopyHolds => CopyHolds'
           /\ RunCount => RunCount'
           /\ HeadsKept => HeadsKept'
           /\ PostedIsReal => PostedIsReal'
           /\ UnitInOrder /\ ThreadsInOrder => UnitInOrder' /\ ThreadsInOrder'
           /\ RunApart => RunApart'
           /\ PostsApart => PostsApart'
           /\ DayCount => DayCount'
<1>1. /\ UNCHANGED <<feed, now, run>> /\ LiveRows' = LiveRows /\ LiveRows \subseteq Rows
      /\ \A r \in Rows : queue[r].status # "draft" => queue'[r] = queue[r]
      /\ \A r \in Rows : queue[r].status = "draft"
            => queue'[r].status \in {"draft", "approved"}
      /\ \A h : Broken(h)' <=> Broken(h)
      /\ \A p \in Runs : left[p] \subseteq Rows
  BY SessionFrame, FeedRows DEF SystemTypeOK, TypeOK
<1>2. /\ pc' = pc /\ began' = began /\ snap' = snap /\ todo' = todo /\ left' = left
      /\ parentMedia' = parentMedia /\ posted' = posted /\ sent' = sent /\ feed' = feed
  BY <1>1 DEF run
<1>3. CopyHolds => CopyHolds' BY <1>1, <1>2 DEF CopyHolds, Publishing
<1>4. RunCount => RunCount'
  <2>1. ASSUME NEW p \in Runs PROVE Settled(p)' = Settled(p)
    BY <1>1, <1>2 DEF Settled, IsHead
  <2> QED BY <1>2, <2>1 DEF RunCount
<1>5. HeadsKept => HeadsKept'
  BY <1>1, <1>2, RowsAssumption DEF HeadsKept, IsHead, Publishing
<1>6. PostedIsReal => PostedIsReal' BY <1>1, <1>2 DEF PostedIsReal
<1>7. UnitInOrder /\ ThreadsInOrder => UnitInOrder' /\ ThreadsInOrder'
  BY <1>2 DEF UnitInOrder, Publishing, LowerLive, ParentKnown, ThreadsInOrder, IsHead
<1>8. RunApart => RunApart' BY <1>1, <1>2 DEF RunApart
<1>9. PostsApart => PostsApart'
  <2>1. \A i \in DOMAIN feed : Broken(feed[i].row)' <=> Broken(feed[i].row)
    BY <1>1, <1>2 DEF Broken
  <2> QED BY <1>2, <2>1 DEF PostsApart
<1>10. DayCount => DayCount'
  <2>1. ASSUME NEW d PROVE OutOn(d)' = OutOn(d)
    BY <1>1, <1>2 DEF OutOn, WentOut, IsHead
  <2> QED BY <1>2, <2>1 DEF DayCount
<1> QED BY <1>3, <1>4, <1>5, <1>6, <1>7, <1>8, <1>9, <1>10

\* CopyHolds and RunCount along every behaviour of the system: crashes allowed.
LEMMA SystemCounts ==
    ASSUME SoleRun, SoleSession, "mark" \notin Faults
    PROVE  SystemSpec => [](OneUnit /\ CopyHolds /\ RunCount)
<1>1. SystemInit => OneUnit /\ CopyHolds /\ RunCount
  BY RunCountInit DEF SystemInit, Init, OneUnit, CopyHolds
<1>2. /\ SystemTypeOK /\ SystemTypeOK' /\ DraftsHeld /\ ConsentCovers
      /\ OneUnit /\ CopyHolds /\ RunCount /\ [SystemNext]_allVars
      => OneUnit' /\ CopyHolds' /\ RunCount'
  <2> SUFFICES ASSUME SystemTypeOK, SystemTypeOK', DraftsHeld, ConsentCovers,
                      OneUnit, CopyHolds, RunCount, [SystemNext]_allVars
               PROVE  OneUnit' /\ CopyHolds' /\ RunCount'
    OBVIOUS
  <2>1. TypeOK /\ TypeOK' BY DEF SystemTypeOK
  <2>2. CASE [Next]_vars
    <3>1. OneUnit' /\ CopyHolds' BY <2>1, <2>2, OneUnitStep, CopyStep
    <3> QED BY <2>1, <2>2, <3>1, CountStep
  <2>3. ASSUME NEW s \in Sessions, SessionTouches(s)
        PROVE  OneUnit' /\ CopyHolds' /\ RunCount'
    <3>1. OneUnit' BY <2>3 DEF OneUnit, SessionTouches, run
    <3> QED BY <2>3, <3>1, SessionKeepsCaps
  <2> QED BY <2>2, <2>3, SystemCases
<1> QED BY <1>1, <1>2, SystemConsent, SheetShared, SystemTypeCorrect, PTL DEF SystemSpec

\* "At most 1 post per invocation" is kept by a sole run with the dashboard's own
\* steps: a draft that a tab approves while the run is under way is not in the run's
\* copy, and what the tab writes back is not a row of the run.
THEOREM SystemRunsStayWithinCap ==
    ASSUME SoleRun, SoleSession, "mark" \notin Faults
    PROVE  SystemSpec => []RunCap
BY CountIsCap, SystemCounts, SystemConsent, SystemTypeCorrect, PTL DEF SystemTypeOK

\* What the guards rely on holds along every behaviour of the system.
LEMMA SystemSheetKnows ==
    ASSUME SoleRun, SoleSession, "mark" \notin Faults, "crash" \notin Faults
    PROVE  SystemSpec => []SheetKnows
<1> DEFINE Order == UnitInOrder /\ ThreadsInOrder
<1>1. SystemInit => HeadsKept /\ PostedIsReal /\ Order
  BY DEF SystemInit, Init, HeadsKept, LiveRows, PostedIsReal, UnitInOrder, ThreadsInOrder,
         Publishing
<1>2. /\ SystemTypeOK /\ DraftsHeld /\ ConsentCovers /\ OneUnit /\ MediaKnown
      /\ CopyHolds /\ HeadsKept /\ PostedIsReal /\ Order /\ [SystemNext]_allVars
      => HeadsKept' /\ PostedIsReal' /\ Order'
  <2> SUFFICES ASSUME SystemTypeOK, DraftsHeld, ConsentCovers, OneUnit, MediaKnown,
                      CopyHolds, HeadsKept, PostedIsReal, Order, [SystemNext]_allVars
               PROVE  HeadsKept' /\ PostedIsReal' /\ Order'
    OBVIOUS
  <2>1. CASE [Next]_vars
    BY <2>1, HeadsStep, PostedRealStep, UnitInOrderStep, ThreadsStep DEF SystemTypeOK
  <2>2. CASE \E s \in Sessions : SessionTouches(s) BY <2>2, SessionKeepsCaps
  <2> QED BY <2>1, <2>2, SystemCases
<1>3. SystemTypeOK /\ CopyHolds /\ OwnsItsUnits /\ HeadsKept /\ PostedIsReal
      /\ NoDoublePost /\ Order
      => SheetKnows
  BY DEF SystemTypeOK, SheetKnows
<1> HIDE DEF Order
<1> QED BY <1>1, <1>2, <1>3, SystemCounts, SystemOwns, SystemPublishesOnce, SystemConsent,
           SheetShared, SystemTypeCorrect, PTL DEF SystemSpec

\* "Spread posts a few hours apart" with the dashboard's own steps.
THEOREM SystemUnitsAreApart ==
    ASSUME SoleRun, SoleSession, "mark" \notin Faults, "crash" \notin Faults
    PROVE  SystemSpec => []MinGap
<1>1. SystemInit => RunApart /\ PostsApart
  BY DEF SystemInit, Init, RunApart, PostsApart
<1>2. /\ SystemTypeOK /\ DraftsHeld /\ SheetKnows /\ RunApart /\ PostsApart
      /\ [SystemNext]_allVars
      => RunApart' /\ PostsApart'
  BY SystemCases, SessionKeepsCaps, ApartStep, PostsApartStep
<1>3. PostsApart => MinGap BY DEF PostsApart, MinGap, WentOut
<1> QED BY <1>1, <1>2, <1>3, SystemSheetKnows, SheetShared, SystemTypeCorrect, PTL
        DEF SystemSpec

\* "At most 3 posts per JST calendar day" with the dashboard's own steps, and with
\* MAX_POSTS_PER_RUN at its setting of 1.
THEOREM SystemDaysStayWithinCap ==
    ASSUME SoleRun, SoleSession, "mark" \notin Faults, "crash" \notin Faults,
           MaxPostsPerRun = 1
    PROVE  SystemSpec => []DailyCap
<1> MaxPostsPerRun >= 1 OBVIOUS
<1>1. SystemInit => DayCount BY DayCountInit DEF SystemInit
<1>2. /\ SystemTypeOK /\ SystemTypeOK' /\ DraftsHeld /\ SheetKnows /\ RunCap' /\ DayCount
      /\ [SystemNext]_allVars
      => DayCount'
  BY SystemCases, SessionKeepsCaps, DayStep DEF SystemTypeOK
<1>3. DayCount => NearDailyCap BY DEF DayCount, NearDailyCap
<1>4. NearDailyCap => DailyCap
  BY LimitsAssumption DEF NearDailyCap, DailyCap, OutOn
<1> QED BY <1>1, <1>2, <1>3, <1>4, SystemRunsStayWithinCap, SystemSheetKnows, SheetShared,
           SystemTypeCorrect, PTL DEF SystemSpec
=============================================================================
