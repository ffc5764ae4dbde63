------------------------------- MODULE RunDaily -------------------------------
(* The daily report (src/jobs/run_daily.py, src/core/upsert.py) and the       *)
(* dashboard's feedback on published posts (dashboard/service.py), which      *)
(* write the same rows of the posts sheet: the job owns the views, humans own *)
(* the feedback, and each writes whole rows.                                  *)
(*                                                                            *)
(* The job reads all feedback once and then overwrites row after row with     *)
(* what it read; a session reads one row and writes it back.  Jobs may        *)
(* overlap: daily.yml has a cron and a manual trigger and no concurrency      *)
(* group.  Any call of the job may fail, and a write may be done all the same.*)
(* An upsert of the job is a search for the key and a write, as in            *)
(* SheetsClient: a key that was not found is appended, and an append that is  *)
(* sent again after a lost answer leaves the row twice.                       *)
EXTENDS Integers, Sequences, SequencesExt

CONSTANTS
    Jobs,       \* runs of the job that may be alive at once
    Sessions,   \* dashboard sessions giving feedback
    Posts,      \* published posts, numbered from old to new
    Marks,      \* tags, rating and feedback of a post, as one cell
    NoMark,     \* ... left blank
    MaxViews,   \* bound: Threads counts views from 0 to here
    MaxFans,    \* bound: ... and followers from 0 to here
    MaxDay      \* bound: the calendar stops here

ASSUME DailyAssumption ==
    /\ Posts \subseteq Nat /\ IsFiniteSet(Posts) /\ Posts # {}
    /\ NoMark \in Marks
    /\ MaxViews \in Nat /\ MaxFans \in Nat /\ MaxDay \in Nat

VARIABLES
    day,      \* today
    metrics,  \* the metrics_daily sheet, row by row
    posts,    \* the posts sheet: per post its rows, from the top
    job,      \* [Jobs -> JobState]
    delta,    \* per job: the follower delta of the day, <<>> for none
    tab,      \* [Sessions -> TabState]
    given     \* history: every mark a human ever gave a post

vars == <<day, metrics, posts, job, delta, tab, given>>

Unreadable == -1   \* a followers cell int() cannot read, or a number not fetched
NotSeen == -1      \* views of a post the job has not collected

PostRow == [views : 0..MaxViews, marks : Marks]
Deltas  == {<<>>} \cup {<<d>> : d \in -MaxFans..MaxFans}
DayRow  == [date : Nat, followers : 0..MaxFans \cup {Unreadable}, delta : Deltas]
Phases  == {"idle", "fetch", "delta", "find_day", "daily", "meta", "posts", "post",
            "report", "log"}
JobState == [pc : Phases, today : Nat, sheets : BOOLEAN,
             followers : 0..MaxFans \cup {Unreadable},
             seen : [Posts -> 0..MaxViews \cup {NotSeen}],
             meta : [Posts -> Marks], todo : SUBSET Posts, failures : BOOLEAN,
             found : BOOLEAN,   \* the key to be written is on the sheet
             \* history: posts collected and not recorded; those whose rows others
             \* wrote since the read of the feedback; whether that read failed
             owed : SUBSET Posts, since : SUBSET Posts, blind : BOOLEAN]
\* A session keeps what it read of the row and will not change: the views.
TabState == [pc : {"idle", "write"}, post : Posts, views : 0..MaxViews,
             raced : BOOLEAN]   \* history: the row was written since it was read

Blank == [p \in Posts |-> NoMark]
AnyPost == CHOOSE p \in Posts : TRUE
IdleJob == [pc |-> "idle", today |-> 0, sheets |-> FALSE, followers |-> Unreadable,
            seen |-> [p \in Posts |-> NotSeen], meta |-> Blank,
            todo |-> {}, failures |-> FALSE, found |-> FALSE,
            owed |-> {}, since |-> {}, blind |-> FALSE]
IdleTab == [pc |-> "idle", post |-> AnyPost, views |-> 0, raced |-> FALSE]

\* Some posts are on the sheet and rated, and metrics_daily has at most one row,
\* of the day before, whose followers cell may have been typed over.
Init ==
    /\ day = 1
    /\ \E f \in {Unreadable, 0} :
          metrics \in {<<>>, <<[date |-> 0, followers |-> f, delta |-> <<>>]>>}
    /\ \E S \in SUBSET Posts, m \in Marks :
          posts = [p \in Posts |-> IF p \in S THEN <<[views |-> 0, marks |-> m]>>
                                               ELSE <<>>]
    /\ job = [j \in Jobs |-> IdleJob] /\ delta = [j \in Jobs |-> <<>>]
    /\ tab = [s \in Sessions |-> IdleTab]
    /\ given = [p \in Posts |-> IF posts[p] = <<>> THEN {}
                                 ELSE {posts[p][1].marks} \ {NoMark}]

-----------------------------------------------------------------------------
\* metrics_daily.

NoRow == [date |-> -1, followers |-> Unreadable]
\* Mutant: the row of the day itself is not left out.
BetterWithToday(row, date, best) ==
    /\ row.followers # Unreadable
    /\ row.date <= date /\ row.date >= best.date
\* compute_follower_delta: the row of the latest earlier day with a readable
\* count; the scan keeps the last of equal dates.
Better(row, date, best) ==
    /\ row.followers # Unreadable
    /\ row.date < date /\ row.date >= best.date
LatestBefore(rows, date) ==
    FoldLeft(LAMBDA best, row : IF Better(row, date, best)
                                THEN [date |-> row.date, followers |-> row.followers]
                                ELSE best,
             NoRow, rows)
\* Mutant: "no earlier day" is not told apart.
FollowerDeltaAlways(rows, date, followers) ==
    <<followers - LatestBefore(rows, date).followers>>
FollowerDelta(rows, date, followers) ==
    LET prev == LatestBefore(rows, date)
    IN IF prev.followers = Unreadable THEN <<>> ELSE <<followers - prev.followers>>

\* upsert_row: what may become of the rows when the key was not found, and when it
\* was found in row i.  An append may be done twice.
Added(rows, row) == {Append(rows, row), rows \o <<row, row>>}
Updated(rows, i, row) == [rows EXCEPT ![i] = row]

\* The first row of a date.
DayRows(rows, date) == {i \in DOMAIN rows : rows[i].date = date}
FirstOfDay(rows, date) ==
    CHOOSE i \in DayRows(rows, date) : \A k \in DayRows(rows, date) : i <= k

-----------------------------------------------------------------------------
\* The job.

Become(j, new) == job' = [job EXCEPT ![j] = new]

\* run: today is taken once; without Sheets the job goes on for the mail.
Start(j) ==
    /\ job[j].pc = "idle"
    /\ \E ok \in BOOLEAN :
          Become(j, [IdleJob EXCEPT !.pc = "fetch", !.today = day,
                                    !.sheets = ok, !.failures = ~ok])
    /\ UNCHANGED <<day, metrics, posts, tab, given, delta>>

\* The job keeps what the end of it needs.
Reporting(state) ==
    [IdleJob EXCEPT !.pc = "report", !.today = state.today,
                    !.failures = state.failures, !.owed = state.owed]

\* get_account_insights and _collect_posts.  A missing number or any exception is
\* a failure, and after an exception no post is collected.  Threads may answer
\* with some posts or none: an answer without data, or an entry without an id, is
\* no exception.  Without Sheets or without numbers nothing is written.
Fetch(j) ==
    /\ job[j].pc = "fetch"
    /\ \E f \in 0..MaxFans \cup {Unreadable}, raised \in BOOLEAN,
          seen \in [Posts -> 0..MaxViews \cup {NotSeen}] :
          LET collected == {p \in Posts : seen[p] # NotSeen}
              answered == [job[j] EXCEPT !.pc = "delta", !.followers = f, !.seen = seen,
                                         !.owed = collected, !.failures = @ \/ raised]
          IN /\ raised => collected = {}
             /\ Become(j, IF job[j].sheets /\ f # Unreadable THEN answered
                          ELSE Reporting([answered EXCEPT !.failures = TRUE]))
    /\ UNCHANGED <<day, metrics, posts, tab, given, delta>>

\* upsert_daily reads the sheet for the delta ...
ReadDelta(j) ==
    /\ job[j].pc = "delta"
    /\ \/ /\ Become(j, [job[j] EXCEPT !.pc = "find_day"])
          /\ delta' = [delta EXCEPT ![j] =
                          FollowerDelta(metrics, job[j].today, job[j].followers)]
       \/ /\ Become(j, [job[j] EXCEPT !.pc = "meta", !.followers = Unreadable,
                                       !.failures = TRUE])
          /\ UNCHANGED delta
    /\ UNCHANGED <<day, metrics, posts, tab, given>>

\* upsert_daily is through, and raised or not.
DayDone(j, raised) ==
    /\ Become(j, [job[j] EXCEPT !.pc = "meta", !.followers = Unreadable,
                                !.found = FALSE, !.failures = @ \/ raised])
    /\ delta' = [delta EXCEPT ![j] = <<>>]

\* ... looks for the row of the day ...
FindDay(j) ==
    /\ job[j].pc = "find_day"
    /\ \/ /\ Become(j, [job[j] EXCEPT !.pc = "daily",
                             !.found = DayRows(metrics, job[j].today) # {}])
          /\ UNCHANGED delta
       \/ DayDone(j, TRUE)
    /\ UNCHANGED <<day, metrics, posts, tab, given>>

\* ... and writes it.  When the write raises it may be done or not.
WriteDay(j) ==
    LET row == [date |-> job[j].today, followers |-> job[j].followers,
                delta |-> delta[j]]
        written == IF job[j].found
                   THEN {Updated(metrics, FirstOfDay(metrics, row.date), row)}
                   ELSE Added(metrics, row)
    IN /\ job[j].pc = "daily"
       /\ \E raised \in BOOLEAN :
             /\ metrics' \in written \cup (IF raised THEN {metrics} ELSE {})
             /\ DayDone(j, raised)
       /\ UNCHANGED <<day, posts, tab, given>>

\* Mutant: only rows that have views are looked at.
FeedbackOfViewed == [p \in Posts |-> IF posts[p] # <<>> /\ Last(posts[p]).views > 0
                                     THEN Last(posts[p]).marks ELSE NoMark]
\* Mutant: the feedback of the neighbouring row is taken.
FeedbackShifted ==
    [p \in Posts |-> IF p + 1 \in Posts /\ posts[p + 1] # <<>>
                     THEN Last(posts[p + 1]).marks ELSE NoMark]

\* _existing_post_meta: of several rows of a post the last is kept.
Feedback == [p \in Posts |-> IF posts[p] # <<>> THEN Last(posts[p]).marks ELSE NoMark]

\* A failed read of the feedback counts as no feedback, and is not a failure.
ReadMeta(j) ==
    /\ job[j].pc = "meta"
    /\ \E blind \in BOOLEAN :
          Become(j, [job[j] EXCEPT !.pc = "posts", !.since = {}, !.blind = blind,
                        !.todo = {p \in Posts : job[j].seen[p] # NotSeen},
                        !.meta = IF blind THEN Blank ELSE Feedback])
    /\ UNCHANGED <<day, metrics, posts, tab, given, delta>>

\* History: row p is written; the other actors' copies of it are out of date.
JobsAfterWrite(p) ==
    [i \in Jobs |-> [job[i] EXCEPT !.since = @ \cup ({p} \cap job[i].todo)]]
TabsAfterWrite(p) ==
    [s \in Sessions |-> IF tab[s].pc = "write" /\ tab[s].post = p
                        THEN [tab[s] EXCEPT !.raced = TRUE] ELSE tab[s]]

Newest(S, p) == p \in S /\ \A q \in S : q <= p

\* Post p is done with.
Passed(state, p) ==
    [state EXCEPT !.pc = "posts", !.found = FALSE, !.todo = @ \ {p}, !.since = @ \ {p},
                  !.seen[p] = NotSeen, !.meta[p] = NoMark]
\* Mutant: a write that raises is logged and not reported.
FailedQuietly(state, p) == Passed(state, p)

\* After an upsert of post p that raised: the failure is kept for the report.
Failed(state, p) == [Passed(state, p) EXCEPT !.failures = TRUE]
\* ... and after one that did not.
Recorded(state, p) == [Passed(state, p) EXCEPT !.owed = @ \ {p}]

\* _record_post: upsert_row looks for the row of the next post ...
FindPost(j) ==
    /\ job[j].pc = "posts"
    /\ \E p \in Posts :
          /\ Newest(job[j].todo, p)
          /\ Become(j, [job[j] EXCEPT !.pc = "post", !.found = posts[p] # <<>>])
             \/ Become(j, Failed(job[j], p))
    /\ UNCHANGED <<day, metrics, posts, tab, given, delta>>

\* ... and writes the whole row, with the feedback the job read before: over the
\* first row of the post, or below the others.  A write that raises is a failure,
\* done or not, and the next post is written.
RecordPost(j) ==
    /\ job[j].pc = "post"
    /\ \E p \in Posts :
          LET row == [views |-> job[j].seen[p], marks |-> job[j].meta[p]]
              written == IF job[j].found THEN {Updated(posts[p], 1, row)}
                         ELSE Added(posts[p], row)
          IN /\ Newest(job[j].todo, p)
             /\ \/ /\ \E rows \in written : posts' = [posts EXCEPT ![p] = rows]
                   /\ \E new \in {Recorded(job[j], p), Failed(job[j], p)} :
                         job' = [JobsAfterWrite(p) EXCEPT ![j] = new]
                   /\ tab' = TabsAfterWrite(p)
                \/ /\ Become(j, Failed(job[j], p))
                   /\ UNCHANGED <<posts, tab>>
    /\ UNCHANGED <<day, metrics, given, delta>>

PostsDone(j) ==
    /\ job[j].pc = "posts" /\ job[j].todo = {}
    /\ Become(j, Reporting(job[j]))
    /\ UNCHANGED <<day, metrics, posts, tab, given, delta>>

\* Trend, analysis, Claude and mail: any of them can fail.
Report(j) ==
    /\ job[j].pc = "report"
    /\ \E failed \in BOOLEAN :
          Become(j, [job[j] EXCEPT !.pc = "log", !.failures = @ \/ failed])
    /\ UNCHANGED <<day, metrics, posts, tab, given, delta>>

\* The row of the logs sheet: "ok" when there was no failure.
Log(j) ==
    /\ job[j].pc = "log" /\ Become(j, IdleJob)
    /\ UNCHANGED <<day, metrics, posts, tab, given, delta>>

\* The runner is cancelled.
Crash(j) ==
    /\ job[j].pc # "idle" /\ Become(j, IdleJob)
    /\ delta' = [delta EXCEPT ![j] = <<>>]
    /\ UNCHANGED <<day, metrics, posts, tab, given>>

-----------------------------------------------------------------------------
\* The dashboard's posts tab: save_post_feedback through _merge_upsert.

\* The first row of the post is read; a post not on the sheet is an error.
ReadRow(s, p) ==
    /\ tab[s].pc = "idle" /\ posts[p] # <<>>
    /\ tab' = [tab EXCEPT ![s] = [pc |-> "write", post |-> p,
                                  views |-> posts[p][1].views, raced |-> FALSE]]
    /\ UNCHANGED <<day, metrics, posts, job, given, delta>>

\* The merged row is written, over the first row of the post: the marks of the
\* form, the rest as read.
WriteFeedback(s, m) ==
    LET p == tab[s].post
    IN /\ tab[s].pc = "write"
       /\ posts' = [posts EXCEPT ![p] = Updated(@, 1, [views |-> tab[s].views, marks |-> m])]
       /\ given' = [given EXCEPT ![p] = @ \cup ({m} \ {NoMark})]
       /\ job' = JobsAfterWrite(p)
       /\ tab' = [TabsAfterWrite(p) EXCEPT ![s] = IdleTab]
       /\ UNCHANGED <<day, metrics, delta>>

\* The write raises and is not done.
LoseFeedback(s) ==
    /\ tab[s].pc = "write" /\ tab' = [tab EXCEPT ![s] = IdleTab]
    /\ UNCHANGED <<day, metrics, posts, job, given, delta>>

-----------------------------------------------------------------------------
\* A job takes minutes: it is over before midnight.
Midnight ==
    /\ day < MaxDay /\ \A j \in Jobs : job[j].pc = "idle"
    /\ day' = day + 1
    /\ UNCHANGED <<metrics, posts, job, tab, given, delta>>

JobNext(j) ==
    \/ Start(j) \/ Fetch(j) \/ ReadDelta(j) \/ FindDay(j) \/ WriteDay(j)
    \/ ReadMeta(j) \/ FindPost(j) \/ RecordPost(j) \/ PostsDone(j) \/ Report(j) \/ Log(j) \/ Crash(j)

TabNext(s) ==
    \/ \E p \in Posts : ReadRow(s, p)
    \/ \E m \in Marks : WriteFeedback(s, m)
    \/ LoseFeedback(s)

Next ==
    \/ \E j \in Jobs : JobNext(j)
    \/ \E s \in Sessions : TabNext(s)
    \/ Midnight

Spec == Init /\ [][Next]_vars

-----------------------------------------------------------------------------
\* Every variable keeps its type.
TypeOK ==
    /\ day \in Nat
    /\ metrics \in Seq(DayRow)
    /\ posts \in [Posts -> Seq(PostRow)]
    /\ job \in [Jobs -> JobState] /\ delta \in [Jobs -> Deltas]
    /\ tab \in [Sessions -> TabState]
    /\ given \in [Posts -> SUBSET Marks]

\* The feedback of a row (posts sheet) is blank or was given by a human to that
\* post: the job passes it through (run_daily.py:114-127, 226-238) and never
\* mixes up rows.
FeedbackIsHuman ==
    \A p \in Posts : \A i \in DOMAIN posts[p] : posts[p][i].marks \in given[p] \cup {NoMark}

\* What the dashboard shows of a post is its first row.
Shown(rows) == IF rows = <<>> THEN [views |-> 0, marks |-> NoMark] ELSE rows[1]

\* Job j writes or tries to write post p in this step.
Records(j, p) == job[j].pc \in {"posts", "post"} /\ p \in job[j].todo /\ p \notin job'[j].todo
\* Session s leaves its write of post p in this step.
Saves(s, p) == tab[s].pc = "write" /\ tab[s].post = p /\ tab'[s].pc = "idle"

\* The last row of a post, which the job reads, says other than the first.
Disagree(rows) == rows # <<>> /\ Last(rows).marks # rows[1].marks

\* "Preserve any human-entered rating/feedback/tags" (run_daily.py:220) and
\* "preserving metrics" (service.py:222): a step of the job changes the feedback
\* the dashboard shows only when its read of the feedback failed, or somebody wrote
\* a row of the post after it, or the post is on two rows that disagree, of which the
\* job reads the last (run_daily.py:139) and the others the first; a session changes
\* the views only when somebody wrote a row of the post after the session read it.
LossExplained(p) ==
    /\ \A j \in Jobs : Records(j, p) /\ Shown(posts'[p]).marks # Shown(posts[p]).marks
                          => job[j].blind \/ p \in job[j].since \/ Disagree(posts[p])
    /\ \A s \in Sessions : Saves(s, p) /\ Shown(posts'[p]).views # Shown(posts[p]).views
                              => tab[s].raced
LossesExplained == [][\A p \in Posts : LossExplained(p)]_vars

\* README.md:268, "手入力した tags/rating/feedback は保持されます（上書きされません）" (what
\* humans entered is kept): no step of a job changes the feedback the dashboard shows.
RatingsKept ==
    [][\A p \in Posts, j \in Jobs :
          Records(j, p) => Shown(posts'[p]).marks = Shown(posts[p]).marks]_vars

\* follower_delta (upsert.py:30-61, 69-71): on every row of metrics_daily but those
\* written before the first run it is the change since the latest earlier day whose
\* count can be read, and blank when there is none; also after reruns of a day, with
\* overlapping jobs and with days missing.
DeltaRight ==
    \A i \in DOMAIN metrics : metrics[i].date > 0 =>
        LET earlier == {k \in DOMAIN metrics : /\ metrics[k].date < metrics[i].date
                                               /\ metrics[k].followers # Unreadable}
        IN IF earlier = {} THEN metrics[i].delta = <<>>
           ELSE \E k \in earlier :
                   /\ \A n \in earlier : metrics[n].date <= metrics[k].date
                   /\ metrics[i].delta = <<metrics[i].followers - metrics[k].followers>>

\* A job that logs "ok" (run_daily.py:320-326) has recorded every post it collected,
\* which may be fewer than there are, and the row of its day is on the sheet.
OkMeansRecorded ==
    \A j \in Jobs :
        job[j].pc = "log" /\ ~job[j].failures =>
            /\ job[j].owed = {}
            /\ \E i \in DOMAIN metrics : metrics[i].date = job[j].today
=============================================================================
