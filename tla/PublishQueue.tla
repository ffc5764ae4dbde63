---------------------------- MODULE PublishQueue ----------------------------
(* The hourly publisher (src/jobs/publish_queue.py) over the post_queue sheet *)
(* (src/core/queue.py) and the Threads feed.                                  *)
(*                                                                            *)
(* A run reads the whole sheet once, checks its guards on that copy, and then *)
(* publishes due units one after the other: a unit is a single post or an     *)
(* approved thread (parent and replies).  Every write back to the sheet       *)
(* overwrites a whole row with the run's own, possibly stale, copy of it.     *)
(* Runs may overlap: publish.yml has a cron trigger, a manual trigger and no  *)
(* concurrency group.                                                         *)
(*                                                                            *)
(* Time is counted in hours from 0; a day has DayLen hours.                   *)
EXTENDS Integers, Sequences, FiniteSets

CONSTANTS
    Rows,             \* rows of the sheet, each named by its queue_id
    Parent,           \* [Rows -> Rows]: the row that heads a row's unit (thread_id)
    SeqNo,            \* [Rows -> Nat]: seq, 0 for the head of a unit
    RowNo,            \* [Rows -> Nat]: position in the sheet
    Runs,             \* publisher processes that may be alive at once
    Texts,            \* post texts
    Cells,            \* scheduled_at cells: [at: hour, form: Forms]
    Comments,         \* human feedback cells (tags, rating, feedback)
    Drafts,           \* [Rows -> [text, scheduled_at, feedback]]: the sheet as drafted
    MaxPostsPerRun,   \* MAX_POSTS_PER_RUN
    MaxPostsPerDay,   \* MAX_POSTS_PER_DAY
    MinHours,         \* MIN_HOURS_BETWEEN_POSTS
    DayLen,           \* hours of a day
    WindowStart,      \* POST_WINDOW_START_HOUR
    WindowEnd,        \* POST_WINDOW_END_HOUR
    MaxNow,           \* bound: the clock stops here
    MaxRunTicks,      \* bound: a run is over this many hours after it began
    MaxMedia,         \* bound: length of the feed
    MaxConsents,      \* bound: how many different cells humans approve or edit
    Faults            \* which steps may go wrong, a subset of FaultKinds

\* How a cell spells its time: "iso" is generate_drafts' 2026-06-15T09:00:00+0900,
\* "dash" the dashboard's 2026-06-15 09:00, "bad" what parse_jst cannot read.
Forms == {"iso", "dash", "bad"}

\* What can fail: a container is not created or not FINISHED ("prepare"); the
\* publish call is refused, or done but not acknowledged; the row update that
\* records it is lost, or done but not acknowledged; the best-effort failed mark
\* is lost; the process dies.
FaultKinds == {"prepare", "publish", "publish_ack", "record", "record_ack",
               "mark", "crash"}

ASSUME RowsAssumption ==
    /\ IsFiniteSet(Rows)
    /\ Parent \in [Rows -> Rows]
    /\ SeqNo \in [Rows -> Nat]
    /\ RowNo \in [Rows -> Nat]
    /\ \A r \in Rows : Parent[Parent[r]] = Parent[r] /\ SeqNo[Parent[r]] = 0
    /\ \A r, q \in Rows : (Parent[r] = Parent[q] /\ SeqNo[r] = SeqNo[q]) => r = q
    /\ \A r, q \in Rows : RowNo[r] = RowNo[q] => r = q
ASSUME CellsAssumption ==
    /\ Cells \subseteq [at : Nat, form : Forms]
    /\ Drafts \in [Rows -> [text : Texts, scheduled_at : Cells, feedback : Comments]]
ASSUME LimitsAssumption ==
    /\ MaxPostsPerRun \in Nat /\ MaxPostsPerDay \in Nat /\ MinHours \in Nat
    /\ DayLen \in Nat \ {0} /\ WindowStart \in Nat /\ WindowEnd \in Nat
    /\ MaxNow \in Nat /\ MaxRunTicks \in Nat /\ MaxMedia \in Nat
    /\ MaxConsents \in Nat
ASSUME FaultsAssumption == Faults \subseteq FaultKinds

VARIABLES
    queue,        \* the post_queue sheet: [Rows -> Row]
    feed,         \* what is live on Threads; a media id is an index into it
    now,          \* the current hour
    consent,      \* history: what a human left approved, as <<row, text, cell>>
    pc,           \* per run: where it is
    began,        \* per run: the `now` it was started with
    snap,         \* per run: its copy of the sheet
    todo,         \* per run: heads of the units it has not started
    left,         \* per run: rows of its current unit it has not recorded
    media,        \* per run: media_id of the post it is about to record
    parentMedia,  \* per run: parent_media of its current unit
    posted,       \* per run: units posted
    sent          \* history, per run: rows it has put on the feed

human == <<queue, consent>>
run   == <<pc, began, snap, todo, left, media, parentMedia, posted, sent>>
vars  == <<human, feed, now, run>>

NoMedia == 0
NoTime  == -1
Statuses == {"draft", "approved", "posted", "failed"}
Terminal == {"posted", "failed"}

Row == [status : Statuses, text : Texts, scheduled_at : Cells, feedback : Comments,
        posted_post_id : Nat, posted_at : Int]
Post == [row : Rows, text : Texts, replyTo : Nat, began : Nat]
Stages == {"idle", "loop", "prepare", "publish", "record", "failing"}

-----------------------------------------------------------------------------
\* The rows a run looks at, and the guards it evaluates on them.

Day(t)  == t \div DayLen
Hour(t) == t % DayLen

IsHead(r) == SeqNo[r] = 0

\* Mutant: times are compared by their date only.
IsDueToday(row, t) ==
    row.status = "approved" /\ row.scheduled_at.form # "bad" /\ Day(row.scheduled_at.at) <= Day(t)

\* _is_due: approved, readable scheduled_at, not in the future.
IsDue(row, t) ==
    /\ row.status = "approved"
    /\ row.scheduled_at.form # "bad"
    /\ row.scheduled_at.at <= t

\* The key of select_due's sort: the cell as a string.  The date comes first,
\* then the character after it (a space sorts before "T"), then the hour.
SortKey(cell) ==
    2 * DayLen * Day(cell.at) + (IF cell.form = "iso" THEN DayLen ELSE 0) + Hour(cell.at)

\* sort() is stable, so equal cells keep their order in the sheet.
SortsBefore(sheet, r, q) ==
    LET k == SortKey(sheet[r].scheduled_at)
        l == SortKey(sheet[q].scheduled_at)
    IN k < l \/ (k = l /\ RowNo[r] < RowNo[q])

\* Mutant: parse_jst does not read what the dashboard writes.
DueHeadsIsoOnly(sheet, t) ==
    {r \in Rows : IsHead(r) /\ IsDue(sheet[r], t) /\ sheet[r].scheduled_at.form = "iso"}

\* The units of publish_due: due heads; a reply that is due by itself is ignored.
DueHeads(sheet, t) == {r \in Rows : IsHead(r) /\ IsDue(sheet[r], t)}

\* Mutant: the status of replies is not looked at.
ChainUnchecked(sheet, h) == {r \in Rows : Parent[r] = h}

\* _approved_thread_chain: the contiguous approved prefix of the unit headed by h.
Chain(sheet, h) ==
    {r \in Rows :
        /\ Parent[r] = h
        /\ \A n \in 0..SeqNo[r] :
              \E q \in Rows : /\ Parent[q] = h /\ SeqNo[q] = n
                              /\ sheet[q].status = "approved"}

InWindow(t) == WindowStart <= Hour(t) /\ Hour(t) < WindowEnd

\* _count_posted_today: heads only.
PostedOn(sheet, d) ==
    {r \in Rows : /\ sheet[r].status = "posted" /\ IsHead(r)
                  /\ sheet[r].posted_at # NoTime /\ Day(sheet[r].posted_at) = d}

\* Mutant: off by one at the cap.
CapPassed(sheet, t) == Cardinality(PostedOn(sheet, Day(t))) > MaxPostsPerDay

CapReached(sheet, t) == Cardinality(PostedOn(sheet, Day(t))) >= MaxPostsPerDay

\* _posted_at_times: of heads and replies.
PostedTimes(sheet) ==
    {sheet[r].posted_at : r \in {q \in Rows : sheet[q].status = "posted"}} \ {NoTime}

\* Mutant: only today's posts are looked at.
TooSoonToday(sheet, t) ==
    \E u \in PostedTimes(sheet) : Day(u) = Day(t) /\ t - u < MinHours

\* _last_posted_at and guard 3: the last post is too recent when some post is.
TooSoon(sheet, t) == \E u \in PostedTimes(sheet) : t - u < MinHours

GuardsPass(sheet, t) == InWindow(t) /\ ~CapReached(sheet, t) /\ ~TooSoon(sheet, t)

\* Mutant: off by one in the loop's break condition.
RunHasRoomForOneMore(p) == posted[p] <= MaxPostsPerRun

\* The loop's break condition: only units that were posted count.
RunHasRoom(p) == posted[p] < MaxPostsPerRun

\* Mutant: a failed unit is tried again by the next run.
FailedRowRetried(row) == [row EXCEPT !.posted_post_id = NoMedia]
\* Mutant: a failed unit goes back to review.
FailedRowReviewed(row) == [row EXCEPT !.status = "draft", !.posted_post_id = NoMedia]

\* _update_status: the run's copy of the row, with the result cells replaced.
PostedRow(row, id, t) ==
    [row EXCEPT !.status = "posted", !.posted_post_id = id, !.posted_at = t]
FailedRow(row) == [row EXCEPT !.status = "failed", !.posted_post_id = NoMedia]

-----------------------------------------------------------------------------
Init ==
    /\ queue = [r \in Rows |->
                   [status |-> "draft", text |-> Drafts[r].text,
                    scheduled_at |-> Drafts[r].scheduled_at,
                    feedback |-> Drafts[r].feedback,
                    posted_post_id |-> NoMedia, posted_at |-> NoTime]]
    /\ feed = <<>> /\ now = 0 /\ consent = {}
    /\ pc = [p \in Runs |-> "idle"]
    /\ began = [p \in Runs |-> 0]
    /\ snap = [p \in Runs |-> <<>>]
    /\ todo = [p \in Runs |-> {}]
    /\ left = [p \in Runs |-> {}]
    /\ media = [p \in Runs |-> NoMedia]
    /\ parentMedia = [p \in Runs |-> NoMedia]
    /\ posted = [p \in Runs |-> 0]
    /\ sent = [p \in Runs |-> {}]

\* A run that ends, by returning or by dying, leaves nothing behind but the sheet.
Reset(p) ==
    /\ pc' = [pc EXCEPT ![p] = "idle"]
    /\ began' = [began EXCEPT ![p] = 0]
    /\ snap' = [snap EXCEPT ![p] = <<>>]
    /\ todo' = [todo EXCEPT ![p] = {}]
    /\ left' = [left EXCEPT ![p] = {}]
    /\ media' = [media EXCEPT ![p] = NoMedia]
    /\ parentMedia' = [parentMedia EXCEPT ![p] = NoMedia]
    /\ posted' = [posted EXCEPT ![p] = 0]
    /\ sent' = [sent EXCEPT ![p] = {}]

\* Mutant: the run keeps the copy of the sheet it has.
StartFromCache(p) ==
    /\ pc[p] = "idle"
    /\ GuardsPass(queue, now) /\ DueHeads(queue, now) # {}
    /\ pc' = [pc EXCEPT ![p] = "loop"]
    /\ began' = [began EXCEPT ![p] = now]
    /\ todo' = [todo EXCEPT ![p] = DueHeads(queue, now)]
    /\ UNCHANGED <<human, feed, now, snap, left, media, parentMedia, posted, sent>>

\* publish_due up to its loop: read the sheet once, evaluate the guards, build
\* the units.  A run that a guard stops changes nothing.
Start(p) ==
    /\ pc[p] = "idle"
    /\ GuardsPass(queue, now)
    /\ DueHeads(queue, now) # {}
    /\ pc' = [pc EXCEPT ![p] = "loop"]
    /\ began' = [began EXCEPT ![p] = now]
    /\ snap' = [snap EXCEPT ![p] = queue]
    /\ todo' = [todo EXCEPT ![p] = DueHeads(queue, now)]
    /\ UNCHANGED <<human, feed, now, left, media, parentMedia, posted, sent>>

\* The loop takes the next unit in sheet-string order; jitter() may let the
\* clock move before it is published.
NextUnit(p) ==
    /\ pc[p] = "loop" /\ RunHasRoom(p)
    /\ \E h \in todo[p] :
          /\ \A o \in todo[p] \ {h} : SortsBefore(snap[p], h, o)
          /\ todo' = [todo EXCEPT ![p] = @ \ {h}]
          /\ left' = [left EXCEPT ![p] = Chain(snap[p], h)]
    /\ media' = [media EXCEPT ![p] = NoMedia]
    /\ parentMedia' = [parentMedia EXCEPT ![p] = NoMedia]
    /\ pc' = [pc EXCEPT ![p] = "prepare"]
    /\ UNCHANGED <<human, feed, now, began, snap, posted, sent>>

\* The loop ends, and the run with it.
Finish(p) ==
    /\ pc[p] = "loop" /\ (~RunHasRoom(p) \/ todo[p] = {})
    /\ Reset(p)
    /\ UNCHANGED <<human, feed, now>>

\* Mutant: the rows of a thread are not sorted by seq.
IsNextUnsorted(r, p) == r \in left[p]

\* The row the current unit is at: units go out in seq order.
IsNext(r, p) == r \in left[p] /\ \A q \in left[p] : SeqNo[r] <= SeqNo[q]

GoTo(p, stage) ==
    /\ pc' = [pc EXCEPT ![p] = stage]
    /\ UNCHANGED <<began, snap, todo, left, media, parentMedia, posted, sent>>

\* create_post and wait_until_finished.
Prepare(p) ==
    /\ pc[p] = "prepare" /\ GoTo(p, "publish")
    /\ UNCHANGED <<human, feed, now>>

PrepareFails(p) ==
    /\ "prepare" \in Faults
    /\ pc[p] = "prepare" /\ GoTo(p, "failing")
    /\ UNCHANGED <<human, feed, now>>

\* Mutant: reply_to_id is not passed on.
PostOfFlat(p, r) ==
    [row |-> r, text |-> snap[p][r].text, replyTo |-> NoMedia, began |-> began[p]]

\* What a publish_post puts on the feed: the text the run read when it started.
PostOf(p, r) ==
    [row |-> r, text |-> snap[p][r].text,
     replyTo |-> IF IsHead(r) THEN NoMedia ELSE parentMedia[p],
     began |-> began[p]]

GoLive(p, r) ==
    /\ Len(feed) < MaxMedia
    /\ feed' = Append(feed, PostOf(p, r))
    /\ sent' = [sent EXCEPT ![p] = @ \cup {r}]

PublishPost(p) ==
    /\ pc[p] = "publish"
    /\ \E r \in Rows : IsNext(r, p) /\ GoLive(p, r)
    /\ media' = [media EXCEPT ![p] = Len(feed) + 1]
    /\ pc' = [pc EXCEPT ![p] = "record"]
    /\ UNCHANGED <<human, now, began, snap, todo, left, parentMedia, posted>>

PublishRefused(p) ==
    /\ "publish" \in Faults
    /\ pc[p] = "publish" /\ GoTo(p, "failing")
    /\ UNCHANGED <<human, feed, now>>

\* The post is live, but the answer is lost and publish_post raises.
PublishUnacknowledged(p) ==
    /\ "publish_ack" \in Faults
    /\ pc[p] = "publish"
    /\ \E r \in Rows : IsNext(r, p) /\ GoLive(p, r)
    /\ pc' = [pc EXCEPT ![p] = "failing"]
    /\ UNCHANGED <<human, now, began, snap, todo, left, media, parentMedia, posted>>

\* Mutant: a reply is recorded under the id of its parent.
WritePostedParent(p, r) ==
    /\ queue' = [queue EXCEPT ![r] =
          PostedRow(snap[p][r], IF IsHead(r) THEN media[p] ELSE parentMedia[p], began[p])]
    /\ UNCHANGED consent

\* The row that is recorded: the run's copy with the media id and the run's time.
WritePosted(p, r) ==
    /\ queue' = [queue EXCEPT ![r] = PostedRow(snap[p][r], media[p], began[p])]
    /\ UNCHANGED consent

\* _update_status(posted), then the next row of the unit or the next unit.
Record(p) ==
    /\ pc[p] = "record"
    /\ \E r \in Rows :
          /\ IsNext(r, p)
          /\ WritePosted(p, r)
          /\ left' = [left EXCEPT ![p] = @ \ {r}]
          /\ parentMedia' = [parentMedia EXCEPT ![p] = IF IsHead(r) THEN media[p] ELSE @]
          /\ posted' = [posted EXCEPT ![p] = IF left[p] = {r} THEN @ + 1 ELSE @]
          /\ pc' = [pc EXCEPT ![p] = IF left[p] = {r} THEN "loop" ELSE "prepare"]
    /\ UNCHANGED <<feed, now, began, snap, todo, media, sent>>

RecordFails(p) ==
    /\ "record" \in Faults
    /\ pc[p] = "record" /\ GoTo(p, "failing")
    /\ UNCHANGED <<human, feed, now>>

\* The row is written, but the answer is lost and upsert_row raises.
RecordUnacknowledged(p) ==
    /\ "record_ack" \in Faults
    /\ pc[p] = "record" /\ GoTo(p, "failing")
    /\ \E r \in Rows : IsNext(r, p) /\ WritePosted(p, r)
    /\ UNCHANGED <<feed, now>>

\* mark_failed goes through the rows of the unit this run has not recorded.
Marked(p, r) ==
    /\ left' = [left EXCEPT ![p] = @ \ {r}]
    /\ pc' = [pc EXCEPT ![p] = IF left[p] = {r} THEN "loop" ELSE "failing"]
    /\ UNCHANGED <<feed, now, consent, began, snap, todo, media, parentMedia, posted, sent>>

\* Mutant: the rows of the unit that are posted are marked failed with the others.
MarkFailedAll(p) ==
    /\ pc[p] = "failing"
    /\ \E r \in Rows :
          /\ IsNext(r, p)
          /\ queue' = [q \in Rows |-> IF Parent[q] = Parent[r] THEN FailedRow(snap[p][q])
                                                              ELSE queue[q]]
          /\ Marked(p, r)

\* The next row of the unit gets its failed mark.
MarkFailed(p) ==
    /\ pc[p] = "failing"
    /\ \E r \in Rows :
          /\ IsNext(r, p)
          /\ queue' = [queue EXCEPT ![r] = FailedRow(snap[p][r])]
          /\ Marked(p, r)

\* mark_failed never raises: when its update fails the row stays as it was.
MarkLost(p) ==
    /\ "mark" \in Faults
    /\ pc[p] = "failing"
    /\ \E r \in Rows : IsNext(r, p) /\ Marked(p, r)
    /\ UNCHANGED queue

Crash(p) ==
    /\ "crash" \in Faults
    /\ pc[p] # "idle"
    /\ Reset(p)
    /\ UNCHANGED <<human, feed, now>>

-----------------------------------------------------------------------------
\* The human, through the dashboard's approve_draft ("Save edits AND flip the
\* row to approved") or in the sheet itself.  Cells of a row that is not approved
\* yet are edited by the approval; Dashboard.tla has the dashboard's own steps.
\* Bound MaxConsents is in WriteApproved.
WriteApproved(r, t, c) ==
    /\ queue' = [queue EXCEPT ![r].status = "approved", ![r].text = t, ![r].scheduled_at = c]
    /\ consent' = consent \cup {<<r, t, c>>}
    /\ Cardinality(consent') <= MaxConsents
    /\ UNCHANGED <<feed, now, run>>

Approve(r, t, c) == queue[r].status = "draft" /\ WriteApproved(r, t, c)

Edit(r, t, c) == queue[r].status = "approved" /\ WriteApproved(r, t, c)

\* Bounds MaxNow and MaxRunTicks are here: the clock stops, and it waits for a
\* run that has been going for MaxRunTicks.
Tick ==
    /\ now < MaxNow
    /\ \A p \in Runs : pc[p] # "idle" => now - began[p] < MaxRunTicks
    /\ now' = now + 1
    /\ UNCHANGED <<human, feed, run>>

-----------------------------------------------------------------------------
RunStep(p) ==
    \/ NextUnit(p) \/ Finish(p)
    \/ Prepare(p) \/ PrepareFails(p)
    \/ PublishPost(p) \/ PublishRefused(p) \/ PublishUnacknowledged(p)
    \/ Record(p) \/ RecordFails(p) \/ RecordUnacknowledged(p)
    \/ MarkFailed(p) \/ MarkLost(p)

PublisherNext == \E p \in Runs : Start(p) \/ RunStep(p) \/ Crash(p)
HumanNext == \E r \in Rows, t \in Texts, c \in Cells : Approve(r, t, c) \/ Edit(r, t, c)

Next == PublisherNext \/ HumanNext \/ Tick

Spec == Init /\ [][Next]_vars

\* The cron starts a run every hour, a started run keeps going (no step waits
\* for another actor), and time passes.  Nothing is assumed of the human, of
\* which way a call ends, or of crashes.
FairSpec ==
    /\ Spec
    /\ \A p \in Runs : WF_vars(Start(p)) /\ WF_vars(RunStep(p))
    /\ WF_vars(Tick)

-----------------------------------------------------------------------------
\* Every variable holds a value the code can give it; a run that is under way
\* holds a full copy of the sheet.
TypeOK ==
    /\ queue \in [Rows -> Row]
    /\ feed \in Seq(Post)
    /\ now \in Nat
    /\ consent \subseteq Rows \X Texts \X Cells
    /\ pc \in [Runs -> Stages]
    /\ began \in [Runs -> Nat]
    /\ snap \in [Runs -> [Rows -> Row] \cup {<<>>}]
    /\ \A p \in Runs : pc[p] # "idle" => snap[p] \in [Rows -> Row]
    /\ todo \in [Runs -> SUBSET Rows]
    /\ left \in [Runs -> SUBSET Rows]
    /\ media \in [Runs -> Nat]
    /\ parentMedia \in [Runs -> Nat]
    /\ posted \in [Runs -> Nat]
    /\ sent \in [Runs -> SUBSET Rows]

\* "Drafts are NEVER published" (publish_queue.py:19), and more: whatever is
\* live reads exactly as a human left it approved, and a head went out only
\* after a run that began at or after the time the human gave it.  Edits made
\* while a run is under way, failures and overlapping runs do not matter.
PublishedAsApproved ==
    \A i \in DOMAIN feed : \E k \in consent :
        /\ k[1] = feed[i].row /\ k[2] = feed[i].text
        /\ IsHead(feed[i].row) => /\ k[3].form # "bad"
                                  /\ k[3].at <= feed[i].began

\* "repeated runs cannot double-post" (publish_queue.py:19-21, README.md:204):
\* a row of the queue is live at most once.
NoDoublePost ==
    \A i, j \in DOMAIN feed : feed[i].row = feed[j].row => i = j

\* A row is marked posted only for a post that is live: its posted_post_id is the
\* id of a post of this row, with this text, by the run that its posted_at names
\* (posted_post_id is what run_daily and the dashboard join metrics on).
PostedIsReal ==
    \A r \in Rows : queue[r].status = "posted" =>
        /\ queue[r].posted_post_id \in DOMAIN feed
        /\ LET e == feed[queue[r].posted_post_id]
           IN e.row = r /\ e.text = queue[r].text /\ e.began = queue[r].posted_at

\* publish_thread: every reply hangs under a post of its own parent, and everything
\* before it in the thread is live already, put there by the same run.
ThreadsInOrder ==
    \A i \in DOMAIN feed :
        LET r == feed[i].row
        IN /\ IsHead(r) => feed[i].replyTo = NoMedia
           /\ ~IsHead(r) => /\ feed[i].replyTo \in 1..(i - 1)
                            /\ feed[feed[i].replyTo].row = Parent[r]
           /\ \A n \in 0..(SeqNo[r] - 1) : \E j \in 1..(i - 1) :
                 /\ Parent[feed[j].row] = Parent[r] /\ SeqNo[feed[j].row] = n
                 /\ feed[j].began = feed[i].began

\* A unit is broken when one of its rows was marked failed.
Broken(h) == \E r \in Rows : Parent[r] = h /\ queue[r].status = "failed"

WentOut(h) == {feed[i].began : i \in {j \in DOMAIN feed : feed[j].row = h}}

\* "at most 3 posts per JST calendar day" (settings.py:37), counted in units by
\* the day their run began.  It is kept for units that are not broken; the heads
\* of broken ones come on top.
DailyCap ==
    \A d \in 0..Day(now) :
        Cardinality({h \in Rows : /\ IsHead(h) /\ ~Broken(h)
                                  /\ \E t \in WentOut(h) : Day(t) = d})
            <= MaxPostsPerDay

\* "at most 1 post per invocation (physically prevents bursts)" (settings.py:36),
\* counted in units.  It is kept for units that are not broken: a unit that fails
\* after its head went out does not count (publish_queue.py:446-449), and the run
\* goes on to the next.
RunCap ==
    \A p \in Runs :
        Cardinality({h \in sent[p] : IsHead(h) /\ ~Broken(h)}) <= MaxPostsPerRun

\* MIN_HOURS_BETWEEN_POSTS (settings.py:38): two units that are not broken come
\* from one run or from runs that began MinHours apart.
MinGap ==
    \A h, o \in Rows : ~Broken(h) /\ ~Broken(o) =>
        \A t \in WentOut(h), u \in WentOut(o) : t < u => u - t >= MinHours

\* "These are terminal and must never be reprocessed" (queue.py:36-37): no step
\* of a publisher changes a row that is posted or failed.
TerminalRows ==
    [][\A r \in Rows : queue[r].status \in Terminal => queue'[r] = queue[r]]_vars

\* An approved head whose time has come is not left waiting for ever unless a
\* guard is what holds it: a queue that is stuck is stuck on purpose.
OnlyGuardsDelay ==
    \A r \in Rows :
        <>[](IsHead(r) /\ IsDue(queue[r], now)) => <>[]~GuardsPass(queue, now)

-----------------------------------------------------------------------------
\* The promise of PublishOnce, seen in the sheet and on the feed.
Once == INSTANCE PublishOnce
            WITH status <- [r \in Rows |-> queue[r].status],
                 live <- [i \in DOMAIN feed |-> feed[i].row]

\* One publisher process at a time keeps the promise of PublishOnce, as long as
\* failed marks are written, an acknowledgement of a row update is not lost and
\* the process does not die: a row goes live once, in thread order and only
\* while it is approved, and then ends as posted or failed for good.
ImplementsPublishOnce == Once!Spec
=============================================================================
