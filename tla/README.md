# Formal models of threads-automation

TLA+ models of the program in this repository, checked with TLC on small
instances, with theorems proved by TLAPS for every instance. The models are
translated from the code; each definition names its lines in `PROJECT.json`
(`map`).

The program drafts posts with a language model, lets a human review them in a
Google Sheet or a small dashboard, and publishes the approved ones to Threads
from an hourly job. All state that outlives a process is in the spreadsheet and
on Threads. The actors (three scheduled jobs, dashboard tabs, a human in the
sheet) share nothing else, take no locks, and write whole rows.

## 1. Inventory

| component | code | state | operations | talks to |
|---|---|---|---|---|
| publisher | `src/jobs/publish_queue.py` | per run: its copy of the sheet, units to do, media ids, count of posted units | read sheet, four guards, select and sort due units, publish single / thread, record, mark failed | `post_queue` (read all, upsert row), Threads (create, poll, publish) |
| queue sheet | `src/core/queue.py` | `post_queue` rows: status, text, scheduled_at, result cells, feedback cells | `parse_jst`, `rows_to_dicts` | everybody |
| guards | `config/settings.py` | constants | none | publisher |
| dashboard, review | `dashboard/service.py`, `app.py` | per tab: the card it shows, the row it has read | approve, save, feedback: read row, merge, write row; threads row by row | `post_queue` |
| dashboard, rest | same | none | rate posts, toggle references, add notes and learnings | `posts`, `references`, `notes`, `learnings` |
| Sheets client | `src/clients/sheets_client.py` | connection | retry (at most 4), read, append, update at an offset, upsert = read + (update or append) | Google Sheets |
| Threads client | `src/clients/threads_client.py` | none | create, status, publish, insights, retry (at most 5) | Threads |
| draft generation | `src/jobs/generate_drafts.py`, `src/core/notes.py`, `references.py`, `learnings.py` | per run: notes read, rows built | read notes, call the model, append rows, mark notes used | `notes`, `post_queue` |
| daily report | `src/jobs/run_daily.py`, `src/core/upsert.py`, `analysis.py` | per run: metrics, ratings read | upsert the day's metrics and one row per post, analyse, mail | `metrics_daily`, `posts`, `learnings` |
| tags, model and mail clients, logging, scripts, prompts | the rest of `src/`, `scripts/`, `prompts/` | none | pure text or pure I/O | |

What is hard here, and what makes each component correct:

* **Publisher.** A publication cannot be undone and is not atomic with its record
  on the sheet. Answers are lost, processes are killed, the cron run and a manual
  run overlap (`publish.yml` has no concurrency group), and the copy of the sheet
  is minutes old when rows are written back whole. Correct means: nothing is live
  that a human did not approve in these words; nothing is live twice; what the
  sheet calls posted is live; threads are live in order under their own parent; the
  caps count what they claim to; final rows stay final; nothing due is forgotten.
* **Dashboard.** Every write is read, merge, write back, and threads take one such
  round per row, while the publisher and other tabs do the same. Correct means:
  a column changes only in a step that means to change it, final rows are left
  alone, and a thread is approved as a whole.
* **Sheets client.** Retried appends, and offsets that are stale when used.
  Correct means: one row per key, a write lands on its own key, and success means
  stored.
* **Threads client.** Three requests in a row, each sent again after a lost answer
  that may still be carried out later. Correct means: one call puts at most one
  post on the feed, the id it returns is live, and it ends.
* **Draft generation.** Reads the notes, waits minutes for the model, appends row by
  row, marks the notes by the row numbers it read, while other generations, tabs
  and a human in the sheet do the same. Correct means: a reply never comes without
  what it replies to, every write finds its own row, a note is called used only after
  the whole answer is on the sheet, and is not taken up again then.
* **Daily report.** Reads all ratings, then writes all rows. Correct means: what it
  passes through arrives where it came from, deltas refer to the right day, and
  the log says so when something was not recorded. That no feedback is ever lost
  is what the repository's README says; the code does not achieve it (`ratings`).

The hazards, each at its line, are in `PROJECT.json` (`hazards`), with the
properties that would catch them or a note where none does yet.

## 2. Modules

| module | what it is |
|---|---|
| `PublishOnce` | abstract specification: what the publisher promises about each row, without runs, clocks, failures or copies of the sheet |
| `PublishQueue` | the publisher over the sheet and the feed: runs, guards, units, failures, crashes, a one-step human, the clock; all its properties; the refinement mapping to `PublishOnce` |
| `Dashboard` | the review tab: sessions that list drafts, then read and write one row at a time |
| `QueueSystem` | publisher and dashboard on one sheet: `PublishQueue`'s runs and clock with `Dashboard`'s sessions in place of the one-step human |
| `GenerateDrafts` | the generation over notes and `post_queue`, several at once, with its faults and the writers of notes; no specification of its own |
| `DraftSystem` | `GenerateDrafts` with what becomes of its rows: review, approval in the sheet, publication, each by `queue_id`, also when an id is on two rows |
| `PostCall` | abstract specification: publishing one text, as the publisher sees it |
| `ThreadsPost` | create, poll and publish as requests with retries, lost answers and requests carried out late; the refinement mapping to `PostCall` |
| `KeyedStore` | abstract specification: what the Sheets client promises its callers |
| `SheetsClient` | the Sheets client over one sheet: reads, updates and appends as requests that are retried, of several clients at once; the refinement mapping to `KeyedStore` |
| `RunDaily` | the daily job and the dashboard's feedback on published posts, over `metrics_daily` and `posts` |
| `MCPublishQueue`, `MCQueueSystem`, `MCSheetsClient`, `MCRunDaily`, `MCDraftSystem` | the small sheets, cells and answers TLC uses |
| `PublishQueueProofs` | theorems that hold for any runs and any faults |
| `PublishOnceProofs` | theorems about one publisher at a time, up to the refinement |
| `PublishCapsProofs` | theorems about the caps and the gap, for one publisher at a time |
| `QueueSystemProofs` | theorems about publisher and dashboard together |
| `SheetsClientProofs`, `RunDailyProofs`, `ThreadsPostProofs`, `DraftSystemProofs` | theorems about these four, for any number of clients, jobs, sessions, calls and faults |

The modules meet at the row write. `PublishQueue` and `Dashboard` take the write of a
row that is on the sheet as one step with the outcomes done, not done, or done
without an answer. `SheetsClient` has the requests inside it, and its refinement
says that this view is right for keys that are on the sheet already: the row of
the key, and no other, gets the value of the call, and a normal return means that
it did. Its `doubted` keys are those for which the view is wrong, and `DraftSystem`
is what the program does with such keys on `post_queue`. `RunDaily`, whose keys are new
every day, has an upsert as its two halves, the search and the write, and its appends
may leave a key twice.

In the same way `PublishQueue` takes a call of the Threads client as `Prepare`,
`PrepareFails`, `PublishPost`, `PublishRefused` and `PublishUnacknowledged`, and
`ThreadsPost` has the requests inside. `PostCall` is the contract between the two. It
allows one thing `PublishQueue` does not have: a publication that is carried out
after the call raised (`Late`). `PublishUnacknowledged` has it at the moment of the
error; its lateness makes no difference to the sheet, as nothing reads the feed.

### How PublishQueue corresponds to the code

* `queue` is `post_queue`. A row keeps the columns the writers change: status,
  text, scheduled_at, `posted_post_id`, `posted_at`, and one `feedback` cell for
  tags, rating and feedback. `Parent`, `SeqNo` and `RowNo` stand for thread_id,
  seq and the position in the sheet, which nobody changes. A single post is a
  unit of one row.
* A `scheduled_at` cell is an hour and a spelling (`Forms`): as generate_drafts
  writes it, as the dashboard writes it, or unreadable. The spelling matters
  because `select_due` sorts the text of the cells.
* `feed` is what is live on Threads; a media id is an index into it, 0 is none.
* A run goes through `pc`: `idle`, `loop` (between units), `prepare`
  (create_post and wait_until_finished), `publish`, `record` (`_update_status`
  posted) and `failing` (`mark_failed` over the rest of the unit). `snap` is the
  list of rows it read, `todo` its units, `left` the rows of the current unit it has
  not recorded, `parentMedia` and `media` the local variables of the same sense.
* `Start` is `publish_due` up to its loop. A run that a guard stops changes
  nothing, so it is no step. `NextUnit`, `Prepare`, `PublishPost`, `Record` are the
  success path; `PrepareFails`, `PublishRefused`, `PublishUnacknowledged`,
  `RecordFails`, `RecordUnacknowledged` the ways a call fails, with and without
  effect; `MarkFailed` and `MarkLost` the two outcomes of a failed mark; `Finish`
  and `Crash` the ends of a run. `Faults` says which of these may happen.
* Single posts and threads share these actions: a single post is a chain of one
  row, and both functions create, wait, publish, record and mark in this order.
* `sent` and `consent` are history: what a run has put on the feed, and what a
  human left approved. No guard reads them, except that `MaxConsents` bounds the
  second.
* The human of `PublishQueue` approves or edits a row in one step, as someone does
  in the sheet itself (README of the repository, step 5). `QueueSystem` replaces
  this by the dashboard's own steps.
* Time is in hours and a day has `DayLen` of them. The clock may move between any
  two steps of a run (jitter, polling, reply delays).

### How Dashboard corresponds to the code

A session is one tab. `Open` is a click on a card: Streamlit reruns the page on a
click and the drafts are read anew (nothing is cached but the client), so the card
is of that moment. `ReadRow` is the read in `_merge_upsert`, `WriteRow` its write,
and `save_rows` repeats both for each row of a thread; only the first row of a card
has a time field. `GiveUp` is an error in either, which `_run_write` shows: the
rest of the card is not written. A click that types new text, times or feedback
chooses them at the write, which nothing can tell from choosing them at the click.

### How ThreadsPost corresponds to the code

* A call is what `publish_single` and `publish_thread_unit` do for each text: `Begin`, then
  the stages `create`, `poll` and `publish` of `pc`. `tries` is the attempt of `_retry_policy`,
  `checks` the loop variable of `wait_until_finished`, `creation` the local variable of that
  name. A call that raised is over; the program never repeats one (the row is
  failed), so calls follow each other.
* A request ends in `Create`, `Poll` or `Publish` (answered), `AttemptFails` (429, 5xx,
  connection refused: not carried out, `_is_retryable`), `Rejected` (any other status,
  the empty text, an answer to a poll that is no JSON), `TimedOut` (no answer), or in
  an answer without a usable id (`CreateUnreadable`, `PublishUnreadable`, outside the
  retry).
* A request whose answer did not come may be carried out at any later time or never:
  `strayCreates` and `strayPublishes` hold such requests, `CreateLate` and `PublishLate` carry
  them out, before or after the client has tried again or given up.
* `box` is Threads' containers and `posts` the feed (external): containers become
  FINISHED, fail, or expire in `Process`, and `Accept` publishes FINISHED ones, and a
  container once, however often it is asked. Without this the retry in
  `threads_client.py:130` would double-post, and nothing in the code could tell.
* A check may come back without a status; it is one more check that did not see
  FINISHED.

### How GenerateDrafts and DraftSystem correspond to the code

* `notes` and `queue` are the two sheets. A note is its text and its status, and is
  known by its row: the same text may stand on several rows, by a repeated append or
  because a form was sent again, and each of them is a note of its own to the code. A
  row of `queue` is its id (stamp, draft, reply), `seq`, whether it has a `thread_id`, its
  status, and `src`, the text: the batch, draft and reply it was written for.
* A job goes `call`, `append`, `mark` as `generate` and `run` do. `Start` is the clock and the
  reads, which are one after another without a write of the job in between; the notes
  are the only ones that are written back. `picked` is `notes_to_use` less those the
  loop has been through, `at` the row it appends next.
* A job ends in `Finish`, `NoAnswer` (the call, or `parse_drafts`), `AppendFails`,
  `AppendUnacknowledged` (the append raised but was done) or `Crash`. An append whose
  answer was lost and that was sent again leaves two rows (`Copies`): this is what
  `SheetsClient` shows of `append_row`. Notes are appended by the same call and may
  be doubled in the same way. (Four attempts could leave more than two; a third copy
  is to everybody what the second is.) A mark that fails is logged and the loop goes on
  (`MarkFails`).
* `now` counts minutes. Cron and manual starts may be in the same one.
* `AddNote` is the dashboard's; `DeleteNote` and `EditNote` are a human in the sheet. A job whose row
  numbers these made stale is in `astray`, and so is every job under way when such a
  job has written: what it writes may land on any note. The properties of notes
  leave out these jobs and no others. All three, and nothing else that people do to the
  notes, count against the bound `MaxByPeople`.
* `Review` is a card of the dashboard saved or approved, `ApproveInSheet` is the README's other
  way, `Publish` a run of the publisher. All look for the row to write by `queue_id` and
  take the first (`FirstWith`). Review and run are one step each here, because
  `QueueSystem` has their interleavings, on rows whose ids are unique.
* `Shown` is Streamlit's rule that a key is used once on a page (1.39 in
  `requirements.txt`): a card with the same `queue_id` twice raises and is not shown to the end.
* `made`, `written`, `resent`, `missed`, `astray`, `live`, `twice` and `people` are history. Guards read
  `people` for the bound `MaxByPeople`, and of `made` its length and the stamp of the job's own
  batch, which is a local variable of `run`.

### How SheetsClient corresponds to the code

* `rows` is one sheet below its header; a row is its key and everything else.
  `upsert_row` is `Upsert`, then a read request, then an update at the row number found
  or an append. `AppendRow` is the call of the callers that do not look first
  (logs, notes, learnings, drafts).
* Each request is `_execute_with_retry`: `Fail` is an attempt without effect (a
  transient error is tried again, up to `MaxAttempts`; any other is raised at once,
  like the missing header), `Update` and `Add` are attempts that the server carried
  out, whose answer arrives or is lost. A lost answer is a transport error and so
  is retried.
* `at` is the offset the read found, used one request later, when others have
  written in between.
* `doubted` is history: keys for which an append was repeated after a lost answer,
  ran beside another append of the same key, or was made without looking.

### How RunDaily corresponds to the code

* `metrics` and `posts` are the two sheets. `metrics` is a sequence of rows, `posts` has for
  each post the sequence of its rows, as an append that was done twice leaves two. A
  row is its `views` (for every number the job owns) and its `marks` (tags, rating and
  feedback as one cell). A followers cell is a number or unreadable.
* Who takes which of several rows: an upsert, the dashboard's read and its write take the
  first (`upsert_row`, `_merge_upsert`), the job's read of the feedback keeps the last
  (`_existing_post_meta` fills a dictionary, `Feedback`).
* A job goes `Start`, `Fetch`, `ReadDelta`, `FindDay`, `WriteDay`, `ReadMeta`, then `FindPost` and
  `RecordPost` for each post from new to old, `PostsDone`, `Report`, `Log`, as `run` does. `failures`
  is whether the list of that name is empty. Every call may raise, and a write that raises may
  be done; the job goes on after each, the way each `except` does. Without the
  sheet, or without account numbers, it goes straight to the report.
* `Fetch` collects any of the posts, also none: an answer without `data` or an entry without
  an id raises nothing (`threads_client.py:169-171`, `run_daily.py:48-61`). Only an
  exception or a missing account number is a failure.
* Jobs may overlap, so a key that was not found may be there when it is appended; this
  and a repeated append are how rows get doubled (`Added`).
* `Report` stands for the trend, the analysis, the text from the model and the mail:
  none of them touches the two sheets, each may fail.
* A session is one tab that saves feedback: `ReadRow` is the read of `_merge_upsert`,
  `WriteFeedback` its write, `LoseFeedback` an error shown to the user.
* `owed`, `since`, `blind`, `raced` and `given` are history, read by no guard.
* `Midnight` waits for the jobs: a job starts at 06:30 and takes minutes.

## 3. Runs

All bounds are CONSTANTS that appear in guards: `MaxNow` (clock), `MaxRunTicks` (a
run lasts at most this many hours), `MaxConsents` (different approvals and edits)
and, only to keep the feed finite, `MaxMedia`. Because the clock stops, every
behaviour ends; the configurations set `CHECK_DEADLOCK FALSE` for that reason, and
liveness is checked instead where it matters (`OnlyGuardsDelay`). That a run ends is no
property: its loops are over lists it does not change.
`SheetsClient` is bounded by `MaxRows` only, and never stops. `ThreadsPost` is bounded by
`MaxCalls`, `DraftSystem` by `MaxNow`, `MaxBatches`, `MaxRows` and `MaxByPeople`. `RunDaily` is bounded by
`MaxDay`, `MaxViews` and `MaxFans`; its calendar and its counters stop there.

The sheet of the publisher's runs is a thread of two rows and a single post that follows it in the sheet: the
smallest sheet with a reply, a prefix that can be cut, two units that compete for
a cap, and two cells to sort.

| run | expects | question |
|---|---|---|
| `solo` | pass | One run at a time; days of five hours with a window of four, cap 1, gap 3, and a clock that goes to the first hour of the second day: hours 0 and 3 are far enough apart and need the cap, hours 3 and 5 are on different days and need the gap, hour 4 needs the window. Two texts, three cells of which one cannot be read; creation, publication, its acknowledgement and the record may fail at any row (not the acknowledgement of a record, see below); the human approves and edits at any moment. `PublishedAsApproved`, `NoDoublePost`, `TerminalRows`, the refinement to `PublishOnce`, `DailyCap`, `MinGap`, `RunCap`, and `OnlyGuardsDelay` under fairness. |
| `overlap` | pass | Two runs on one thread with every fault and crashes. What still holds: `PostedIsReal`, `ThreadsInOrder` (and, proved, `PublishedAsApproved`). There is one text, so the run tests that a posted cell is a live post of its row; that it has the row's text is the theorem's part. Runs are interchangeable (symmetry; no liveness is checked here). |
| `system` | pass | One tab and one run with the faults of `solo`. `ColumnsKept`, and `FinalForAll` and the publisher's properties with the dashboard's steps. |
| `repost` | violation | `NoDoublePost` when the record and the failed mark are both lost, against "repeated runs cannot double-post" (`publish_queue.py:19-21`). |
| `thread` | violation | `WholeThread` against "one run publishes the whole tree" (`README.md:350`). No fault is needed, only a run that starts while a thread is being approved. |
| `posting` | pass | Two calls one after the other, two attempts and two checks, every way a request may end and requests carried out late. The first call leaves requests and containers behind that interfere with the second, or nothing could; of attempts and checks, one that is followed by another and the last one are the cases the code has. `OneLive`, `ReturnedIsLive`, the refinement to `PostCall`, and `CallsEnd` under fairness. |
| `drafts` | pass | Two generations, which may overlap, in the same minute or not; two notes on the sheet, and one change by people, who may add a text that is there already, once or twice, delete a note or write over it; a single post, or a thread of two with a draft too many behind it, so that there may be fewer drafts than notes; three rows, which is a thread and a post, or a thread with a doubled row, or two posts and a copy; every fault and a crash. Then review, approval in the sheet and publication in any order. All eight properties. |
| `revive` | violation | `FinalStays` with one doubled row, against "these are terminal and must never be reprocessed" (`queue.py:36-37`). |
| `sheets` | pass | Two clients, a sheet with one row, a key that is on it and one that is not, upserts and appends with every fault, two attempts for the four of the code (one that is followed by a retry, and the last one, are the two cases the code has) and room for three rows (a row, a first append, a second one). All safety properties, the refinement to `KeyedStore`, and `CallsEnd` under fairness. |
| `daily` | pass | One job and one session, two posts that may or may not be on the sheet and rated, on one or two rows; every fault, partial answers, reruns and cancelled runners. Two posts are what it takes to mix up rows or to leave one out, a rerun what it takes to meet a doubled row. `LossesExplained`, `FeedbackIsHuman`, `OkMeansRecorded`. |
| `metrics` | pass | The same job on three days with one post and no session: three days, with one before them whose cell may be unreadable, are what it takes for a delta to be missing, right, taken from the wrong day, or to span a missing one. `DeltaRight`. Overlapping jobs are left to the theorem. |
| `ratings` | violation | `RatingsKept` against "what humans entered is kept, not overwritten" (`README.md:268`, `run_daily.py:220`). One failed read is enough. |

`FinalForAll` and `TerminalRows` hold **only when acknowledgements of row updates are not
lost** (`"record_ack"`, which neither `solo` nor `system` has): a record that was done
but raised makes the run mark the row failed, over the posted one
(`publish_queue.py:377-385`, `mark_failed`). `overlap` has this fault, and what still
holds then is that a cell that says posted is the truth.

What the passing properties say beyond one step:

* `PublishedAsApproved` relates the feed to the history of approvals: publishing
  uses a copy read long before, so this is where an unapproved, stale or premature
  text would show.
* `NoDoublePost` and `ImplementsPublishOnce` cover sequences of failed units, edits
  and later runs.
* `DailyCap` and `MinGap` count units on the feed, not cells of the sheet, and say
  for which units the caps hold: those that are not broken (no row marked
  failed). Broken units come on top: the loop counts a unit only when its last row
  is recorded (`publish_queue.py:446-449`). `RunCap` says the same of a single run.
* `OnlyGuardsDelay` says a due head that waits for ever waits because a guard
  keeps failing; so neither the order, nor the cap of one unit per run, nor failed
  units in front of it can starve it.
* `ThreadsInOrder` has a reply under the thread's parent, as code and tests have it
  (`publish_queue.py`, `reply_to_id`). The repository's README says so too (351) and in another
  place the directly preceding post (383-384); for the thread of two rows of these runs that is the same one, and the
  theorem speaks of the parent.
* `ColumnsKept` is about both whole-row writers at once: neither the publisher's
  minutes-old copy nor the tab's merge may change a column it does not mean to: text, time
  and result cells as well as feedback. It is checked for one tab: two that save the
  same row at the same moment may undo each other's column, like any two whole-row
  writers that take no lock. Nor does it speak of edits in the sheet itself, which are in
  `PublishQueue`'s human and not in `QueueSystem`.
* `KeysStay` is about an offset that is used after others have written: it stays
  good because the program only ever updates in place and appends at the end. So the
  day somebody adds a function that deletes or sorts rows, every upsert becomes
  unsafe.
* `DuplicatesExplained` lists all causes of a doubled key. One client with upserts only is
  enough for the first, an append repeated after a lost answer, although
  `upsert.py:3-4` says that a rerun never duplicates; the other two need two clients.
* `OneLive` counts what is live over all containers a call has made: repeated
  creations leave containers that nobody knows, and none of them may ever be asked
  to be published.
* `IdsExplained` is what every write to `post_queue` rests on. It leaves two causes, and
  `GoesOutOnce` and `FinalUnlessDoubled` say that in this composition nothing else breaks the publisher's promise:
  not a copy of a card, not an approval in the sheet, not a batch that was cut off.
* `ThreadsFromParent` is the generation's half of `ThreadsInOrder`: the publisher's chain stops at
  the first reply that is missing, so one that came without its parent would never
  go out.
* `UsedMeansAppended` says that no note is lost to a failed generation. It does **not** say
  what the repository's README (123, 183) says, that a used note has gone into a draft: a
  model that answers two notes with one draft causes a warning
  (`generate_drafts.py:359-360`), and both notes are marked (463). The run's own
  answers contain this case.
* `NoneLeftNew` says that a generation uses up what it read, by row numbers that are
  minutes old, so that the next does not draft from it again. Two generations that
  overlap draft from the same notes both, and of a note that stands on two rows
  each row is drafted from once.
* `LossesExplained` says that what each side does not own changes, in the row the dashboard
  shows, for three causes only: somebody wrote a row of the post after the copy was
  read; the read of the feedback had failed; or the post is on two rows that disagree, where
  the job reads the last and writes the first. The pass-through itself never loses anything.
  `FeedbackIsHuman` adds that whatever is on a row was given to that post.
* `DeltaRight` compares the scan with the definition on every row ever written, also
  after reruns and gaps; `OkMeansRecorded` follows a failure through all later steps to the
  status in the log. It speaks of the day's row and of the posts the job collected: a list
  that Threads cut short or left out is reported by nobody, and neither is a failed
  read of the feedback (see `ratings`).

**Fairness**. In `PublishQueue` (`FairSpec`, used by `solo`): a run is started when it could be
for ever (the cron is hourly), a started run takes steps (no step waits for another
actor, every call returns or raises), and time passes. Nothing is assumed of the
human, of which way a call ends, or of crashes (not in this run's faults: a
platform that kills every run publishes nothing). In `SheetsClient` (`FairSpec`, used
by `sheets`): a request that was sent is answered or times out. It is not assumed that it
succeeds, nor that anybody calls. In `ThreadsPost` (`FairSpec`, used by `posting`): a call
takes steps, as every request has a timeout (`REQUEST_TIMEOUT`) and the pauses end. Nothing
is assumed of Threads: it may process a container at any time or never.

`PROJECT.json` gives for every property a mutant, a plausible bug in one definition
that makes it fail; the mutated operators stand beside the definitions they mutate.

## 4. Proofs

From the four named assumptions of `PublishQueue` (a finite sheet whose threads
have distinct seq numbers and a head; cells and limits of the right type; `Faults`
a set of known faults), for any sheet, any number of rows per thread, any limits.

`PublishQueueProofs`, for **any number of overlapping runs and any faults**:

* `TypeCorrect`: `Spec => []TypeOK`, inductive by itself. Its one strong part is that
  a run under way holds a whole copy of the sheet.
* `OnlyApprovedGoesLive`: `PublishedAsApproved`. The strengthening `ConsentCovers`
  says that every row that is approved, on the sheet or in a run's copy, carries
  an approval in the history, that rows a run has left are approved in its copy,
  and that heads it holds were due when it began.
* `PostedRowsAreReal`: `PostedIsReal`. Needs `OneUnit` (a run's rows are of one unit)
  and `MediaKnown` (the id about to be recorded is that of
  a live post of the row the run is at, with the text of its copy).
* `ThreadsGoOutInOrder`: `ThreadsInOrder`, from `UnitInOrder`: what precedes a row a
  run has left is either still left or live from the same run, and `parentMedia` is
  a live post of the unit's head.

`PublishOnceProofs`, for **one run at a time whose failed marks are written and that
does not die** (`SoleRun`, no `"mark"`, no `"crash"`): exactly the conditions that the
`repost` run and the overlap hazard show to be needed.

* `NothingGoesOutTwice`: `NoDoublePost`, from `OwnsItsUnits`: a live row that is
  approved on the sheet is still held by the run, and units a run has not started
  are as they were in its copy, so that a row leaves a unit only with a final
  status.
* `FinalRowsStay`: `TerminalRows`, when acknowledgements of row updates are not lost
  either (no `"record_ack"`): then the rows a run holds are approved until it
  gives them their final status (`HoldsApproved`).
* `PublisherImplementsOnce`: the refinement. Initial states map to initial states,
  each step of a run maps to a step of `PublishOnce` or to none; `LowerPosted` (what
  precedes the row a run is at is posted on the sheet) gives the guard of `Publish`.

`PublishCapsProofs`, for **one run at a time whose failed marks are written**, and any
limits. A unit that is not broken is one of whose rows none is failed on the sheet;
`BrokenStays` says that a unit never ceases to be broken, so that what is counted only
grows by steps that put a unit out.

* `RunsStayWithinCap`: `RunCap`, also when the run is killed at any moment. `RunCount`
  says that the units a run has put out and is through with (`Settled`) are at most
  those it has counted in `posted`; the one it is in comes on top only while the
  loop has room. `CopyHolds` is what the copy of the sheet is still worth, and
  what makes a run leave a unit either whole or broken.
* `UnitsAreApart`: `MinGap`, for a run that does not die either. The guard reads
  `posted_at` cells, the property counts posts on the feed: `SheetKnows` says why the
  one knows of the other when a run starts, `HeadsKept` that the head of a live
  reply is posted for good. A run killed between publication and record breaks
  exactly this, as do overlapping runs.
* `DaysStayNearCap` and `DaysStayWithinCap`: the guard of the day is evaluated once, before
  the loop (`publish_queue.py:320-324`), so a run that may publish several units can pass
  it by all of them but one. `DayCount` says that the units of a day other
  than the run's own are below the cap. So `DailyCap` holds **for `MAX_POSTS_PER_RUN`
  at its setting of 1** (`settings.py:36`) and, for larger ones, with the slack that
  `NearDailyCap` states; it would be false without that hypothesis.

`QueueSystemProofs` replaces the one-step human by the dashboard's sessions.
`SystemCases` splits a step into one of the publisher or the clock, for which the
lemmas of the modules above are used as they are, and one of a session
(`SessionTouches`), which changes no part of a run.

* `SystemTypeCorrect` and `SystemPublishesApproved`: `SystemTypeOK` and `PublishedAsApproved`
  for **any number of runs, tabs and faults**. `CopyCovered` says that a row a tab
  has read as approved carries its approval in the history, so that writing the stale copy
  back puts nothing on the sheet that nobody approved.
* `ColumnsAreKept`: `ColumnsKept`, for **one tab (`SoleSession`) and any number of runs and
  faults**. `DraftsHeld`: what a tab is about to write back is a draft that is still
  as it was read; it holds because the publisher never touches a draft and a
  tab writes nothing but drafts. `SnapAgrees` says the same of a run's copy. With two tabs
  the property is false: the two read the same row and the second write undoes the
  first one's column.
* `SystemPublishesOnce`, `SystemKeepsFinalRows`, `SystemImplementsOnce`, `SystemRunsStayWithinCap`,
  `SystemUnitsAreApart`, `SystemDaysStayWithinCap`: what is proved of the publisher above, for
  one tab and under the same conditions on runs and faults.

The lemma `Touches`/`UnitStep` reduces the nine actions inside a unit to what they
have in common, so that each invariance proof has one case for them; `Start`,
`NextUnit`, `Finish`, `Crash`, the human and the clock are cases of their own.

`SheetsClientProofs`, for **any clients, keys, first sheet and number of attempts**, from the
one assumption that the sheet starts with distinct keys:

* `SheetsTypes`: `TypeOK`, which bounds the attempts.
* `KeysAreKept`: `KeysStay`, from `UpdateInv`: the row number a client is about to
  write to holds its key. It is inductive because no step moves a row.
* `DuplicatesHaveCause`: `DuplicatesExplained`, from `AppendInv`: a client about to
  append a key that is on the sheet, or that another client is about to append,
  has that key in `doubted`.
* `ClientIsStore`: the refinement to `KeyedStore`. A client's read, failure or retry maps
  to a step that changes no value; an update or append to `Put`.

`RunDailyProofs`, for **any number of overlapping jobs and of sessions**:

* `FeedbackSafe`: `FeedbackIsHuman`. The strengthening says the same of every copy of a
  row, in a job's `meta` or in a session.
* `LossesHaveCause`: `LossesExplained`. Needs that a copy equals the row it was read from as
  long as nobody wrote it since: a job's `meta` the last row of the post while that is
  still to be written and not in `since`, a session's copy the first while it is not `raced`.

* `OkIsRecorded`: `OkMeansRecorded`, from `Done`: what a job without failures has collected,
  recorded and still to record at each of its stages.
* `DeltasAreRight`: `DeltaRight`, from `Fits`: rows are of days up to today and a job is
  over before midnight, so what it read for the delta is still right when it writes,
  whoever wrote a row of today in between. It rests on `ScanFinds`: the loop
  of `compute_follower_delta`, a fold over the sheet, returns the last of the latest
  earlier rows with a readable count, or nothing. This is an induction on the rounds of
  the fold, done with sets of numbers in place of the library's induction theorems
  (a round where the fold and its closed form first differ does not exist).
* `DailyTypeCorrect`: `TypeOK`, from both.

`ThreadsPostProofs`, for **any number of attempts, checks and calls**:

* `PostTypeCorrect`: `TypeOK`, which bounds attempts and checks.
* `OnePostPerCall`: `OneLive`. The strengthening `OneAsked` says that of the containers of a
  call at most one was ever asked to be published, is asked now or may be asked by
  a request on its way, and none before it is polled; `LiveIsPublished`, that a container
  that is live is PUBLISHED and therefore not published again; `FromCalls`, that nothing
  on Threads is from a later call, so that a new call begins with nothing asked.
* `ReturnedPostIsLive`: `ReturnedIsLive`, from `OwnContainer`.
* `PostCallImplemented`: the refinement. A repeated request, a container, a check, and
  what Threads does map to no step; the answer of the last check to `Ready`; the end of a
  call to `GiveUp` or `Publish`; a request carried out late to `Late`.

`DraftSystemProofs`, for **any jobs, notes, answers, faults and bounds**, and thus for any number of
overlapping generations:

* `DraftsTypeCorrect`: `DraftTypeOK`, which needs `Progress`: what a job has appended is exactly
  what precedes `at` in its answer, and its answer is that of its batch (`OwnBatch`: no two
  jobs have one batch).
* `DoubledIdsHaveCause`: `IdsExplained`, from `Stamped`: an id is the stamp of the row's batch with
  its place in the answer.
* `RepliesHaveParents`: `ThreadsFromParent`, from `Progress` and `OnSheet`: a row that was appended stays, and
  keeps its id and `seq`, whatever is written over it by id.
* `UsedNotesWereAppended` and `NoNoteTakenAgain`: `UsedMeansAppended` from `PickedHeld`, the notes a job still
  has to mark were in the prompt of its batch; `NoneLeftNew` from `NoneForgotten`, which says of every row
  in the prompt of a job that is not astray that it still has the note the job read, and
  is used unless the job has yet to mark it. Nothing is assumed of the texts, so it holds
  with notes that are on many rows.
* `OnlyDoubledGoesOutTwice` and `PostedIsFinal`: `GoesOutOnce` and `FinalUnlessDoubled`, from `LiveMarked`:
  the id of a text that is live is that of a posted row, or is doubled.
* `NotesAreKept`: `NotesKept`, from `StatusOfNote` and `PickedHeld`: a mark lands on the note it was read
  from, so it changes its status and nothing else.

The lemma `Steps` splits `DraftNext` for all of these; `Rewritten` says what review, approval and
publication do to the sheet, whichever of them it was, and `Wrote` what an append does.

Every safety invariant and action property of a passing run is stated by a theorem.
The conditions in them are not there for the provers' sake: `publish.yml` has no concurrency
group, so `SoleRun` is a condition on how the job is operated, as `SoleSession` is on the dashboard;
`repost` is a behaviour in which a lost mark breaks a promise of the sole run.

Only model-checked: liveness (`OnlyGuardsDelay`, and `CallsEnd` of two modules, since
fairness is out of the prover's reach), and the four findings, which are single behaviours.

## 5. Not modelled

* The logs sheet (written, never read), the length of delays, the wording of
  messages.
* The Threads and Sheets APIs are what the code sees of them: done, refused, or
  done without an answer, and for the publication of a container what `ThreadsPost`
  assumes of it: FINISHED ones only, each once.
* Of the generation, what references, learnings, posts and ratings put into the
  prompt: they are read only, and a prompt is text. The times it chooses at random are
  cells like any other to `PublishQueue`. The model answers with any number of
  drafts or not at all.
* Adding references and learnings, and `set_reference_active`: single appends, and an update at a row
  number that is read again whenever the page is drawn. It has the hazard of
  `mark_note_used` for seconds instead of minutes, and a property of its own would say
  what `NotesKept` says.
* A human who withdraws an approval in the sheet. A run that has read the row publishes it all the same, up to minutes
  later; nothing in the code could know.
* Rows that are sorted, inserted or deleted by hand while a job is between its read
  and its write. Nothing in the code protects against them; `KeysStay` would fail
  at once.
* What Google makes of a cell that is written as if typed (`USER_ENTERED`) and read back
  formatted: the models take it that key columns come back as they were written,
  which the sheet's formats have to ensure for dates and long numeric ids.
* Of the daily report, the `note` column of `metrics_daily` (blanked by each rerun of a
  day), the learnings its analysis appends, and everything that is only text.
* Of `posts`, more rows than the ten the job collects: it does not touch them.
* The order of due cells in two spellings is in the model (`SortsBefore`): a
  cell the dashboard wrote sorts before every generated cell of its day, although the
  comment says earliest first (`publish_queue.py:163`). No property states it.
* The hour of a publication: the window is checked once per run, so a run begun
  just before its end publishes after it. The clock counts hours and any property
  would only restate this.
* Reading insights, texts for the model, tags, the clients of Claude and of the mail
  server, logging, loading settings from the environment, scripts: pure I/O or pure
  text with unit tests.

## 6. Plan

Done: the publisher, its abstract specification, the dashboard's review tab, their
composition; the Sheets client and its abstract specification; the Threads client's
publishing calls and theirs; the daily job with the dashboard's feedback on posts; the
generation of drafts with what becomes of them; the proofs above.

Left, most important first:

1. What liveness rests on, as far as the prover reaches: that every step of a run lowers a
   number, so that no run goes on for ever, and the same for calls of the two clients.
2. `QueueSystem` with doubled ids, so that the steps inside a review meet what `DraftSystem`
   has found of whole ones.
3. Under what condition on two tabs, other than being one, `ColumnsKept` holds: never
   on cards of the same unit at once.

The project is kept at twelve runs so that all of it can be rechecked in minutes.
