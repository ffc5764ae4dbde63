---------------------------- MODULE RunDailyProofs ----------------------------
(* What RunDaily says of the posts sheet and of metrics_daily, for any number *)
(* of jobs, sessions and posts.  First the posts sheet and those who write    *)
(* it; then the scan of metrics_daily for the follower delta, whose value is  *)
(* found for every sheet; then metrics_daily and the status of a job.         *)
EXTENDS RunDaily, TLAPS, WellFoundedInduction

\* The part of TypeOK about the posts sheet and those who write it.
PostsTypeOK ==
    /\ day \in Nat
    /\ posts \in [Posts -> Seq(PostRow)]
    /\ job \in [Jobs -> JobState]
    /\ tab \in [Sessions -> TabState]
    /\ given \in [Posts -> SUBSET Marks]

\* What is on a row, or about to be put there by a job, is a mark its humans gave.
HumanInv ==
    \A p \in Posts :
        /\ \A i \in DOMAIN posts[p] : posts[p][i].marks \in given[p] \cup {NoMark}
        /\ \A j \in Jobs : job[j].meta[p] \in given[p] \cup {NoMark}

\* What the job reads of a post: the marks of its last row.
LastMarks(rows) == IF rows # <<>> THEN Last(rows).marks ELSE NoMark

\* The copies are current unless the history says they are not: the job's of the
\* last row of a post, the session's of the first.
Current(state, p) ==
    /\ state.pc \in {"posts", "post"} /\ state.seen[p] # NotSeen
    /\ state.blind \/ p \in state.since \/ LastMarks(posts[p]) = state.meta[p]
JobCopyInv == \A j \in Jobs : \A p \in job[j].todo : Current(job[j], p)
TabCopyInv ==
    \A s \in Sessions :
        tab[s].pc = "write" /\ ~tab[s].raced
            => Shown(posts[tab[s].post]).views = tab[s].views

IInv == PostsTypeOK /\ HumanInv /\ JobCopyInv /\ TabCopyInv

\* The defaults are of their types.
LEMMA DefaultTypes == IdleJob \in JobState /\ IdleTab \in TabState /\ AnyPost \in Posts
<1>1. AnyPost \in Posts
  BY DailyAssumption DEF AnyPost
<1>2. IdleJob \in JobState
  BY DailyAssumption DEF IdleJob, JobState, Phases, Blank, Unreadable, NotSeen
<1>3. IdleTab \in TabState
  BY <1>1, DailyAssumption DEF IdleTab, TabState
<1> QED BY <1>1, <1>2, <1>3

\* What an upsert makes of the rows of a post: the new row stands in them, once or
\* twice, and the others are as they were; the first is the new one or as it was.
LEMMA WrittenRows ==
    ASSUME NEW rows \in Seq(PostRow), NEW row \in PostRow,
           NEW new \in Added(rows, row) \cup {Updated(rows, 1, row)}
    PROVE  /\ new \in Seq(PostRow)
           /\ \A i \in DOMAIN new : new[i] = row \/ (i \in DOMAIN rows /\ new[i] = rows[i])
           /\ Shown(new) = Shown(rows) \/ Shown(new) = row
           /\ rows # <<>> /\ new \in Added(rows, row) => Shown(new) = Shown(rows)
<1>1. CASE new = Append(rows, row)
  BY <1>1 DEF Shown
<1>2. CASE new = rows \o <<row, row>>
  <2>1. <<row, row>> \in Seq(PostRow) /\ Len(<<row, row>>) = 2
        /\ \A i \in 1..2 : <<row, row>>[i] = row
    OBVIOUS
  <2>2. new \in Seq(PostRow) /\ Len(new) = Len(rows) + 2
    BY <1>2, <2>1
  <2>3. \A i \in DOMAIN new : IF i <= Len(rows) THEN i \in DOMAIN rows /\ new[i] = rows[i]
                                                 ELSE new[i] = row
    BY <1>2, <2>1, <2>2
  <2>4. rows # <<>> => Shown(new) = Shown(rows)
    BY <2>2, <2>3 DEF Shown
  <2>5. rows = <<>> => Shown(new) = row
    BY <2>2, <2>3 DEF Shown
  <2> QED BY <2>2, <2>3, <2>4, <2>5
<1>3. CASE new = Updated(rows, 1, row)
  <2>1. new = [rows EXCEPT ![1] = row]
    BY <1>3 DEF Updated
  <2>2. new \in Seq(PostRow) /\ Len(new) = Len(rows)
    <3>1. rows \in [1..Len(rows) -> PostRow] /\ Len(rows) \in Nat
      OBVIOUS
    <3>2. new \in [1..Len(rows) -> PostRow]
      BY <2>1, <3>1, Zenon
    <3> QED BY <3>1, <3>2
  <2>3. \A i \in DOMAIN new : i \in DOMAIN rows
                             /\ new[i] = IF i = 1 THEN row ELSE rows[i]
    BY <2>1
  <2>4. rows = <<>> => new = <<>>
    BY <2>2
  <2>5. rows # <<>> => Shown(new) = row
    BY <2>2, <2>3 DEF Shown
  <2>6. Len(new) # Len(Append(rows, row)) /\ Len(new) # Len(rows \o <<row, row>>)
    BY <2>2
  <2> QED BY <2>2, <2>3, <2>4, <2>5, <2>6 DEF Added
<1> QED BY <1>1, <1>2, <1>3 DEF Added

\* The invariant holds at the start.
LEMMA InitIInv == Init => IInv
<1> SUFFICES ASSUME Init PROVE IInv
  OBVIOUS
<1>1. PICK S \in SUBSET Posts, m \in Marks :
         posts = [p \in Posts |-> IF p \in S THEN <<[views |-> 0, marks |-> m]>>
                                              ELSE <<>>]
  BY DEF Init
<1>2. [views |-> 0, marks |-> m] \in PostRow
  BY DailyAssumption DEF PostRow
<1>3. posts \in [Posts -> Seq(PostRow)]
  BY <1>1, <1>2
<1>4. PostsTypeOK
  <2>1. \A p \in Posts : posts[p] = <<>> \/ posts[p][1].marks = m
    BY <1>1
  <2>2. given \in [Posts -> SUBSET Marks]
    BY <2>1 DEF Init
  <2> QED BY <1>3, <2>2, DefaultTypes DEF Init, PostsTypeOK
<1>5. HumanInv
  <2>1. \A p \in Posts : \A i \in DOMAIN posts[p] : i = 1 /\ posts[p] # <<>>
    BY <1>1
  <2> QED BY <2>1 DEF Init, HumanInv, IdleJob, Blank
<1>6. JobCopyInv /\ TabCopyInv
  BY DEF Init, JobCopyInv, TabCopyInv, IdleJob, IdleTab
<1> QED BY <1>4, <1>5, <1>6 DEF IInv

\* A step that changes one job only keeps the invariant when the job's new state
\* has its type, no marks but those of humans, and nothing to do or a current copy.
LEMMA JobOnly ==
    ASSUME IInv, NEW j \in Jobs, NEW new \in JobState, Become(j, new),
           UNCHANGED <<day, posts, tab, given>>,
           \A p \in Posts : new.meta[p] \in given[p] \cup {NoMark},
           \A p \in new.todo : Current(new, p)
    PROVE  IInv'
<1>1. job' \in [Jobs -> JobState] /\ job'[j] = new
       /\ \A i \in Jobs : i # j => job'[i] = job[i]
  BY DEF IInv, PostsTypeOK, Become
<1>2. PostsTypeOK'
  BY <1>1 DEF IInv, PostsTypeOK
<1>3. HumanInv'
  BY <1>1 DEF IInv, HumanInv
<1>4. TabCopyInv'
  BY DEF IInv, TabCopyInv
<1>5. JobCopyInv'
  BY <1>1 DEF IInv, JobCopyInv, Current
<1> QED BY <1>2, <1>3, <1>4, <1>5 DEF IInv

\* Such a job may be as new or about to write its report.
LEMMA Restarted ==
    ASSUME NEW new \in JobState, new.meta = Blank, new.todo = {}
    PROVE  /\ \A p \in Posts : new.meta[p] \in given[p] \cup {NoMark}
           /\ \A p \in new.todo : Current(new, p)
BY DEF Blank

\* A job that is not writing posts may change everything but its feedback copy.
LEMMA Continued ==
    ASSUME IInv, NEW j \in Jobs, job[j].pc \notin {"posts", "post"},
           NEW new \in JobState, Become(j, new), new.meta = job[j].meta,
           new.todo = job[j].todo, UNCHANGED <<day, posts, tab, given>>
    PROVE  IInv'
<1>1. \A p \in Posts : new.meta[p] \in given[p] \cup {NoMark}
  BY DEF IInv, HumanInv
<1>2. new.todo = {}
  BY DEF IInv, JobCopyInv, Current
<1> QED BY <1>1, <1>2, JobOnly

\* A job about to report has nothing left to write.
LEMMA ReportingType ==
    ASSUME NEW state \in JobState
    PROVE  /\ Reporting(state) \in JobState
           /\ Reporting(state).meta = Blank /\ Reporting(state).todo = {}
<1>1. state.today \in Nat /\ state.failures \in BOOLEAN /\ state.owed \in SUBSET Posts
  BY DEF JobState
<1>2. IdleJob \in JobState /\ IdleJob.meta = Blank /\ IdleJob.todo = {}
  BY DefaultTypes DEF IdleJob
<1> QED BY <1>1, <1>2 DEF Reporting, JobState, Phases

\* upsert_daily is over: the job goes on to the posts.
LEMMA DayDoneType ==
    ASSUME NEW state \in JobState, NEW raised \in BOOLEAN
    PROVE  LET new == [state EXCEPT !.pc = "meta", !.followers = Unreadable,
                                    !.found = FALSE, !.failures = @ \/ raised]
           IN /\ new \in JobState /\ new.pc = "meta" /\ new.meta = state.meta
              /\ new.todo = state.todo /\ new.today = state.today
              /\ new.seen = state.seen /\ new.owed = state.owed
              /\ new.failures = (state.failures \/ raised)
<1>1. state.failures \/ raised \in BOOLEAN
  OBVIOUS
<1> QED BY <1>1 DEF JobState, Phases

\* The steps of a job before it writes posts and after it.
LEMMA QuietStep ==
    ASSUME IInv, NEW j \in Jobs,
           Start(j) \/ Fetch(j) \/ ReadDelta(j) \/ FindDay(j) \/ WriteDay(j) \/ PostsDone(j)
           \/ Report(j) \/ Log(j) \/ Crash(j)
    PROVE  IInv'
<1> USE DailyAssumption, DefaultTypes
<1>1. job[j] \in JobState
  BY DEF IInv, PostsTypeOK
<1>2. CASE Start(j)
  <2>1. PICK ok \in BOOLEAN :
           Become(j, [IdleJob EXCEPT !.pc = "fetch", !.today = day,
                                     !.sheets = ok, !.failures = ~ok])
    BY <1>2 DEF Start
  <2> DEFINE new == [IdleJob EXCEPT !.pc = "fetch", !.today = day,
                                    !.sheets = ok, !.failures = ~ok]
  <2>2. day \in Nat
    BY DEF IInv, PostsTypeOK
  <2>3. new \in JobState /\ new.meta = Blank /\ new.todo = {}
    BY <2>2 DEF JobState, Phases, IdleJob
  <2> QED BY <2>1, <2>3, <1>2, Restarted, JobOnly DEF Start
<1>3. CASE Fetch(j)
  <2>1. PICK f \in 0..MaxFans \cup {Unreadable}, raised \in BOOLEAN,
             seen \in [Posts -> 0..MaxViews \cup {NotSeen}] :
           LET collected == {p \in Posts : seen[p] # NotSeen}
               answered == [job[j] EXCEPT !.pc = "delta", !.followers = f, !.seen = seen,
                                         !.owed = collected, !.failures = @ \/ raised]
           IN Become(j, IF job[j].sheets /\ f # Unreadable THEN answered
                        ELSE Reporting([answered EXCEPT !.failures = TRUE]))
    BY <1>3 DEF Fetch
  <2> DEFINE collected == {p \in Posts : seen[p] # NotSeen}
             answered == [job[j] EXCEPT !.pc = "delta", !.followers = f, !.seen = seen,
                                        !.owed = collected, !.failures = @ \/ raised]
             late == Reporting([answered EXCEPT !.failures = TRUE])
  <2>3. collected \in SUBSET Posts
    OBVIOUS
  <2>4. job[j].failures \/ raised \in BOOLEAN
    OBVIOUS
  <2> HIDE DEF collected
  <2>5. answered \in JobState /\ answered.meta = job[j].meta /\ answered.todo = job[j].todo
    BY <1>1, <2>3, <2>4 DEF JobState, Phases
  <2>6. late \in JobState /\ late.meta = Blank /\ late.todo = {}
    <3>1. [answered EXCEPT !.failures = TRUE] \in JobState
      <4> HIDE DEF answered
      <4> QED BY <2>5 DEF JobState
    <3> QED BY <3>1, ReportingType
  <2>7. CASE Become(j, answered)
    BY <2>5, <2>7, <1>3, Continued DEF Fetch
  <2>8. CASE Become(j, late)
    BY <2>6, <2>8, <1>3, Restarted, JobOnly DEF Fetch
  <2> QED BY <2>1, <2>7, <2>8 DEF collected
<1>4. CASE ReadDelta(j)
  <2> DEFINE good == [job[j] EXCEPT !.pc = "find_day"]
             bad == [job[j] EXCEPT !.pc = "meta", !.followers = Unreadable,
                                   !.failures = TRUE]
  <2>1. /\ good \in JobState /\ good.meta = job[j].meta /\ good.todo = job[j].todo
        /\ bad \in JobState /\ bad.meta = job[j].meta /\ bad.todo = job[j].todo
    BY <1>1 DEF JobState, Phases
  <2>2. Become(j, good) \/ Become(j, bad)
    BY <1>4 DEF ReadDelta
  <2> QED BY <1>4, <2>1, <2>2, Continued DEF ReadDelta
<1>5. CASE FindDay(j) \/ WriteDay(j)
  <2>1. job[j].pc \in {"find_day", "daily"} /\ UNCHANGED <<day, posts, tab, given>>
    BY <1>5 DEF FindDay, WriteDay
  <2>2. CASE \E raised \in BOOLEAN : DayDone(j, raised)
    <3>1. PICK raised \in BOOLEAN : DayDone(j, raised)
      BY <2>2
    <3> DEFINE new == [job[j] EXCEPT !.pc = "meta", !.followers = Unreadable,
                                     !.found = FALSE, !.failures = @ \/ raised]
    <3>2. new \in JobState /\ new.meta = job[j].meta /\ new.todo = job[j].todo
      BY <1>1, DayDoneType
    <3>3. Become(j, new)
      BY <3>1 DEF DayDone
    <3> HIDE DEF new
    <3> QED BY <2>1, <3>2, <3>3, Continued
  <2>3. CASE \E found \in BOOLEAN : Become(j, [job[j] EXCEPT !.pc = "daily", !.found = found])
    <3>1. PICK found \in BOOLEAN : Become(j, [job[j] EXCEPT !.pc = "daily", !.found = found])
      BY <2>3
    <3> DEFINE new == [job[j] EXCEPT !.pc = "daily", !.found = found]
    <3>2. new \in JobState /\ new.meta = job[j].meta /\ new.todo = job[j].todo
      BY <1>1 DEF JobState, Phases
    <3> QED BY <2>1, <3>1, <3>2, Continued
  <2> QED BY <1>5, <2>2, <2>3 DEF FindDay, WriteDay
<1>6. CASE PostsDone(j)
  <2> DEFINE new == Reporting(job[j])
  <2>1. new \in JobState /\ new.meta = Blank /\ new.todo = {}
    BY <1>1, ReportingType
  <2> QED BY <1>6, <2>1, Restarted, JobOnly DEF PostsDone
<1>7. CASE Report(j)
  <2>1. PICK failed \in BOOLEAN :
           Become(j, [job[j] EXCEPT !.pc = "log", !.failures = @ \/ failed])
    BY <1>7 DEF Report
  <2> DEFINE new == [job[j] EXCEPT !.pc = "log", !.failures = @ \/ failed]
  <2>2. job[j].failures \/ failed \in BOOLEAN
    OBVIOUS
  <2>3. new \in JobState /\ new.meta = job[j].meta /\ new.todo = job[j].todo
    BY <1>1, <2>2 DEF JobState, Phases
  <2> QED BY <1>7, <2>1, <2>3, Continued DEF Report
<1>8. CASE Log(j) \/ Crash(j)
  <2>1. IdleJob.meta = Blank /\ IdleJob.todo = {}
    BY DEF IdleJob
  <2> QED BY <1>8, <2>1, Restarted, JobOnly DEF Log, Crash
<1> QED BY <1>2, <1>3, <1>4, <1>5, <1>6, <1>7, <1>8

\* A job reads the feedback: its copy is what is on the sheet, or it knows nothing.
LEMMA ReadMetaStep == ASSUME IInv, NEW j \in Jobs, ReadMeta(j) PROVE IInv'
<1>1. job[j] \in JobState /\ posts \in [Posts -> Seq(PostRow)]
  BY DEF IInv, PostsTypeOK
<1>2. PICK blind \in BOOLEAN :
         Become(j, [job[j] EXCEPT !.pc = "posts", !.since = {}, !.blind = blind,
                       !.todo = {p \in Posts : job[j].seen[p] # NotSeen},
                       !.meta = IF blind THEN Blank ELSE Feedback])
  BY DEF ReadMeta
<1> DEFINE due == {p \in Posts : job[j].seen[p] # NotSeen}
           meta == IF blind THEN Blank ELSE Feedback
           new == [job[j] EXCEPT !.pc = "posts", !.since = {}, !.blind = blind,
                                 !.todo = due, !.meta = meta]
<1>3. due \in SUBSET Posts /\ \A p \in due : job[j].seen[p] # NotSeen
  OBVIOUS
<1>4. \A p \in Posts : /\ Feedback[p] = LastMarks(posts[p]) /\ LastMarks(posts[p]) \in Marks
                       /\ LastMarks(posts[p]) \in given[p] \cup {NoMark}
                       /\ Blank[p] = NoMark /\ NoMark \in Marks
  <2> SUFFICES ASSUME NEW p \in Posts
               PROVE  /\ Feedback[p] = LastMarks(posts[p]) /\ LastMarks(posts[p]) \in Marks
                      /\ LastMarks(posts[p]) \in given[p] \cup {NoMark}
                      /\ Blank[p] = NoMark /\ NoMark \in Marks
    OBVIOUS
  <2>1. posts[p] \in Seq(PostRow) /\ Blank[p] = NoMark /\ NoMark \in Marks
        /\ Feedback[p] = LastMarks(posts[p])
    BY <1>1, DailyAssumption DEF Feedback, LastMarks, Blank
  <2>2. CASE posts[p] = <<>>
    BY <2>1, <2>2 DEF LastMarks
  <2>3. CASE posts[p] # <<>>
    <3>1. Len(posts[p]) \in DOMAIN posts[p] /\ Last(posts[p]) = posts[p][Len(posts[p])]
      BY <2>1, <2>3 DEF Last
    <3>2. Last(posts[p]) \in PostRow
      BY <2>1, <3>1
    <3> QED BY <2>1, <2>3, <3>1, <3>2 DEF LastMarks, IInv, HumanInv, PostRow
  <2> QED BY <2>2, <2>3
<1>5. /\ meta \in [Posts -> Marks]
      /\ \A p \in Posts : /\ meta[p] \in given[p] \cup {NoMark}
                          /\ blind \/ meta[p] = LastMarks(posts[p])
  BY <1>4 DEF Feedback, Blank
<1> HIDE DEF due, meta
<1>6. /\ new \in JobState /\ new.todo = due /\ new.meta = meta /\ new.blind = blind
      /\ new.pc = "posts" /\ new.seen = job[j].seen
  BY <1>1, <1>3, <1>5 DEF JobState, Phases
<1>7. \A p \in Posts : new.meta[p] \in given[p] \cup {NoMark}
  BY <1>5, <1>6
<1>8. Become(j, new)
  BY <1>2 DEF due, meta
<1> HIDE DEF new
<1>9. \A p \in new.todo : Current(new, p)
  BY <1>3, <1>5, <1>6 DEF Current
<1> QED BY <1>6, <1>7, <1>8, <1>9, JobOnly DEF ReadMeta, new

\* What is read of the feedback are marks.
LEMMA FeedbackType ==
    ASSUME IInv, NEW blind
    PROVE  (IF blind THEN Blank ELSE Feedback) \in [Posts -> Marks]
<1>1. ASSUME NEW p \in Posts
      PROVE  (IF posts[p] # <<>> THEN Last(posts[p]).marks ELSE NoMark) \in Marks
  <2>1. posts[p] \in Seq(PostRow) /\ NoMark \in Marks
    BY DailyAssumption DEF IInv, PostsTypeOK
  <2>2. posts[p] # <<>> => Last(posts[p]) \in PostRow
    BY <2>1 DEF Last
  <2> QED BY <2>1, <2>2 DEF PostRow
<1> QED BY <1>1, DailyAssumption DEF Feedback, Blank

\* What the two history updates say.
LEMMA AfterWrite ==
    ASSUME PostsTypeOK, NEW p \in Posts
    PROVE  /\ JobsAfterWrite(p) \in [Jobs -> JobState]
           /\ \A i \in Jobs :
                /\ JobsAfterWrite(p)[i].pc = job[i].pc
                /\ JobsAfterWrite(p)[i].meta = job[i].meta
                /\ JobsAfterWrite(p)[i].seen = job[i].seen
                /\ JobsAfterWrite(p)[i].todo = job[i].todo
                /\ JobsAfterWrite(p)[i].blind = job[i].blind
                /\ job[i].since \subseteq JobsAfterWrite(p)[i].since
                /\ p \in job[i].todo => p \in JobsAfterWrite(p)[i].since
           /\ TabsAfterWrite(p) \in [Sessions -> TabState]
           /\ \A s \in Sessions :
                /\ TabsAfterWrite(p)[s].pc = tab[s].pc
                /\ TabsAfterWrite(p)[s].post = tab[s].post
                /\ TabsAfterWrite(p)[s].views = tab[s].views
                /\ tab[s].raced => TabsAfterWrite(p)[s].raced
                /\ tab[s].pc = "write" /\ tab[s].post = p => TabsAfterWrite(p)[s].raced
<1>1. job \in [Jobs -> JobState] /\ tab \in [Sessions -> TabState]
  BY DEF PostsTypeOK
<1>2. ASSUME NEW i \in Jobs
      PROVE  LET new == [job[i] EXCEPT !.since = @ \cup ({p} \cap job[i].todo)]
             IN /\ new \in JobState /\ new.pc = job[i].pc /\ new.meta = job[i].meta
                /\ new.seen = job[i].seen /\ new.todo = job[i].todo
                /\ new.blind = job[i].blind
                /\ new.since = job[i].since \cup ({p} \cap job[i].todo)
  BY <1>1 DEF JobState
<1>3. ASSUME NEW s \in Sessions
      PROVE  LET new == [tab[s] EXCEPT !.raced = TRUE]
             IN /\ new \in TabState /\ new.pc = tab[s].pc /\ new.post = tab[s].post
                /\ new.views = tab[s].views /\ new.raced
  BY <1>1 DEF TabState
<1> QED BY <1>1, <1>2, <1>3 DEF JobsAfterWrite, TabsAfterWrite

\* A post is done with: the others are as they were, and it is recorded or a failure
\* is noted.
PassedBy(state, p, new) ==
    /\ new \in JobState /\ new.pc = "posts" /\ new.today = state.today
    /\ new.todo = state.todo \ {p} /\ new.since = state.since \ {p}
    /\ new.blind = state.blind
    /\ \A q \in Posts : /\ new.meta[q] = IF q = p THEN NoMark ELSE state.meta[q]
                        /\ q # p => new.seen[q] = state.seen[q]
    /\ ~new.failures => ~state.failures /\ new.owed = state.owed \ {p}
LEMMA PassedType ==
    ASSUME NEW state \in JobState, NEW p \in Posts,
           NEW new \in {Recorded(state, p), Failed(state, p)}
    PROVE  PassedBy(state, p, new)
<1> DEFINE base == Passed(state, p)
<1>1. /\ state.meta \in [Posts -> Marks] /\ NoMark \in Marks
      /\ state.seen \in [Posts -> 0..MaxViews \cup {NotSeen}]
  BY DailyAssumption DEF JobState
<1>2. /\ [state.meta EXCEPT ![p] = NoMark] \in [Posts -> Marks]
      /\ [state.seen EXCEPT ![p] = NotSeen] \in [Posts -> 0..MaxViews \cup {NotSeen}]
  BY <1>1
<1>3. /\ base \in JobState /\ base.pc = "posts" /\ base.today = state.today
      /\ base.todo = state.todo \ {p} /\ base.since = state.since \ {p}
      /\ base.blind = state.blind /\ base.meta = [state.meta EXCEPT ![p] = NoMark]
      /\ base.seen = [state.seen EXCEPT ![p] = NotSeen]
      /\ base.failures = state.failures /\ base.owed = state.owed
  BY <1>2 DEF Passed, JobState, Phases
<1>4. new = [base EXCEPT !.owed = @ \ {p}] \/ new = [base EXCEPT !.failures = TRUE]
  BY DEF Recorded, Failed
<1> HIDE DEF base
<1>5. /\ new \in JobState /\ new.pc = base.pc /\ new.today = base.today
      /\ new.todo = base.todo /\ new.since = base.since /\ new.blind = base.blind
      /\ new.meta = base.meta /\ new.seen = base.seen
      /\ ~new.failures => ~base.failures /\ new.owed = base.owed \ {p}
  <2>1. CASE new = [base EXCEPT !.owed = @ \ {p}]
    BY <1>3, <2>1 DEF JobState
  <2>2. CASE new = [base EXCEPT !.failures = TRUE]
    <3>1. new.failures BY <1>3, <2>2 DEF JobState
    <3> QED BY <1>3, <2>2, <3>1 DEF JobState
  <2> QED BY <1>4, <2>1, <2>2
<1> QED BY <1>1, <1>3, <1>5 DEF PassedBy

\* So nothing is lost of the invariant of a job.
LEMMA PassedCurrent ==
    ASSUME IInv, NEW j \in Jobs, NEW p \in Posts,
           NEW new \in {Recorded(job[j], p), Failed(job[j], p)}
    PROVE  /\ new \in JobState /\ \A q \in Posts : new.meta[q] \in given[q] \cup {NoMark}
           /\ \A q \in new.todo : q \in Posts /\ q # p /\ Current(new, q)
<1>1. job[j] \in JobState
  BY DEF IInv, PostsTypeOK
<1>2. PassedBy(job[j], p, new)
  BY <1>1, PassedType
<1>3. new.todo \subseteq Posts
  BY <1>2 DEF PassedBy, JobState
<1> QED BY <1>2, <1>3 DEF PassedBy, IInv, HumanInv, JobCopyInv, Current

\* A job looks for a row, or fails to.
LEMMA FindPostStep == ASSUME IInv, NEW j \in Jobs, FindPost(j) PROVE IInv'
<1>1. job[j] \in JobState /\ job[j].pc = "posts" /\ UNCHANGED <<day, posts, tab, given>>
  BY DEF IInv, PostsTypeOK, FindPost
<1>2. PICK p \in Posts : \/ Become(j, [job[j] EXCEPT !.pc = "post", !.found = posts[p] # <<>>])
                          \/ Become(j, Failed(job[j], p))
  BY DEF FindPost
<1>3. CASE Become(j, Failed(job[j], p))
  BY <1>1, <1>3, PassedCurrent, JobOnly
<1>4. CASE Become(j, [job[j] EXCEPT !.pc = "post", !.found = posts[p] # <<>>])
  <2> DEFINE found == posts[p] # <<>>
             new == [job[j] EXCEPT !.pc = "post", !.found = found]
  <2>1. found \in BOOLEAN
    OBVIOUS
  <2> HIDE DEF found
  <2>2. /\ new \in JobState /\ new.pc = "post" /\ new.meta = job[j].meta
        /\ new.todo = job[j].todo /\ new.seen = job[j].seen
        /\ new.blind = job[j].blind /\ new.since = job[j].since
    BY <1>1, <2>1 DEF JobState, Phases
  <2>3. Become(j, new)
    BY <1>4 DEF found
  <2> HIDE DEF new
  <2>4. \A q \in Posts : new.meta[q] \in given[q] \cup {NoMark}
    BY <2>2 DEF IInv, HumanInv
  <2>5. \A q \in new.todo : Current(new, q)
    BY <2>2 DEF IInv, JobCopyInv, Current
  <2> QED BY <1>1, <2>2, <2>3, <2>4, <2>5, JobOnly
<1> QED BY <1>2, <1>3, <1>4

\* A job writes a row, or fails to.
LEMMA RecordPostStep == ASSUME IInv, NEW j \in Jobs, RecordPost(j) PROVE IInv'
<1>1. PostsTypeOK /\ job[j] \in JobState /\ posts \in [Posts -> Seq(PostRow)]
  BY DEF IInv, PostsTypeOK
<1>2. PICK p \in Posts :
         LET row == [views |-> job[j].seen[p], marks |-> job[j].meta[p]]
             written == IF job[j].found THEN {Updated(posts[p], 1, row)}
                        ELSE Added(posts[p], row)
         IN /\ Newest(job[j].todo, p)
            /\ \/ /\ \E rows \in written : posts' = [posts EXCEPT ![p] = rows]
                  /\ \E new \in {Recorded(job[j], p), Failed(job[j], p)} :
                        job' = [JobsAfterWrite(p) EXCEPT ![j] = new]
                  /\ tab' = TabsAfterWrite(p)
               \/ /\ Become(j, Failed(job[j], p))
                  /\ UNCHANGED <<posts, tab>>
  BY DEF RecordPost
<1> DEFINE row == [views |-> job[j].seen[p], marks |-> job[j].meta[p]]
<1>3. /\ p \in job[j].todo /\ row \in PostRow /\ row.marks \in given[p] \cup {NoMark}
  BY <1>1, <1>2 DEF Newest, IInv, HumanInv, JobCopyInv, Current, JobState, PostRow
<1> HIDE DEF row
<1>4. UNCHANGED <<day, given>>
  BY DEF RecordPost
<1>5. CASE Become(j, Failed(job[j], p)) /\ UNCHANGED <<posts, tab>>
  BY <1>4, <1>5, PassedCurrent, JobOnly
<1>6. ASSUME NEW rows \in Added(posts[p], row) \cup {Updated(posts[p], 1, row)},
             NEW new \in {Recorded(job[j], p), Failed(job[j], p)},
             posts' = [posts EXCEPT ![p] = rows],
             job' = [JobsAfterWrite(p) EXCEPT ![j] = new], tab' = TabsAfterWrite(p)
      PROVE  IInv'
  <2>1. /\ new \in JobState /\ \A q \in Posts : new.meta[q] \in given[q] \cup {NoMark}
        /\ \A q \in new.todo : q \in Posts /\ q # p /\ Current(new, q)
    BY PassedCurrent
  <2>2. /\ job' \in [Jobs -> JobState] /\ job'[j] = new
        /\ \A i \in Jobs : i # j => job'[i] = JobsAfterWrite(p)[i]
    BY <1>1, <1>6, <2>1, AfterWrite
  <2>3. /\ rows \in Seq(PostRow)
        /\ \A i \in DOMAIN rows : \/ rows[i] = row
                                  \/ i \in DOMAIN posts[p] /\ rows[i] = posts[p][i]
    BY <1>1, <1>3, WrittenRows
  <2>4. /\ posts' \in [Posts -> Seq(PostRow)] /\ posts'[p] = rows
        /\ \A q \in Posts : q # p => posts'[q] = posts[q]
    BY <1>1, <1>6, <2>3
  <2>5. PostsTypeOK'
    BY <1>1, <1>4, <1>6, <2>2, <2>4, AfterWrite DEF PostsTypeOK
  <2>6. HumanInv'
    <3>1. \A q \in Posts, i \in Jobs : job'[i].meta[q] \in given[q] \cup {NoMark}
      <4> SUFFICES ASSUME NEW q \in Posts, NEW i \in Jobs
                   PROVE  job'[i].meta[q] \in given[q] \cup {NoMark}
        OBVIOUS
      <4>1. CASE i = j
        BY <2>1, <2>2, <4>1
      <4>2. CASE i # j
        <5>1. job'[i].meta = job[i].meta
          BY <1>1, <2>2, <4>2, AfterWrite
        <5> QED BY <5>1 DEF IInv, HumanInv
      <4> QED BY <4>1, <4>2
    <3>2. \A q \in Posts : \A i \in DOMAIN posts'[q] :
             posts'[q][i].marks \in given[q] \cup {NoMark}
      BY <1>3, <2>3, <2>4 DEF IInv, HumanInv
    <3> QED BY <1>4, <3>1, <3>2 DEF HumanInv
  <2>7. JobCopyInv'
    <3> SUFFICES ASSUME NEW i \in Jobs, NEW q \in job'[i].todo
                 PROVE  Current(job[i], q)'
      BY DEF JobCopyInv
    <3>1. q \in Posts
      BY <2>2 DEF JobState
    <3>2. CASE i = j
      BY <2>1, <2>2, <2>4, <3>1, <3>2 DEF Current
    <3>3. CASE i # j
      <4>1. q \in job[i].todo /\ job'[i] = JobsAfterWrite(p)[i]
        BY <1>1, <2>2, <3>3, AfterWrite
      <4>2. /\ job'[i].pc = job[i].pc /\ job'[i].seen = job[i].seen
            /\ job'[i].blind = job[i].blind /\ job'[i].meta = job[i].meta
            /\ job[i].since \subseteq job'[i].since
            /\ q = p => q \in job'[i].since
        BY <1>1, <4>1, AfterWrite
      <4> QED BY <2>4, <3>1, <4>1, <4>2 DEF IInv, JobCopyInv, Current
    <3> QED BY <3>2, <3>3
  <2>8. TabCopyInv'
    <3> SUFFICES ASSUME NEW s \in Sessions, tab'[s].pc = "write", ~tab'[s].raced
                 PROVE  Shown(posts'[tab'[s].post]).views = tab'[s].views
      BY DEF TabCopyInv
    <3>1. /\ tab[s].pc = "write" /\ ~tab[s].raced /\ tab[s].post # p
          /\ tab'[s].post = tab[s].post /\ tab'[s].views = tab[s].views
      BY <1>1, <1>6, AfterWrite
    <3>2. tab[s].post \in Posts
      BY <1>1 DEF PostsTypeOK, TabState
    <3> QED BY <2>4, <3>1, <3>2 DEF IInv, TabCopyInv
  <2> QED BY <2>5, <2>6, <2>7, <2>8 DEF IInv
<1> QED BY <1>2, <1>5, <1>6 DEF row

\* A session reads a row, writes it back with new marks, or gives up.
LEMMA TabStep == ASSUME IInv, NEW s \in Sessions, TabNext(s) PROVE IInv'
<1> USE DefaultTypes
<1>1. PostsTypeOK /\ tab[s] \in TabState
  BY DEF IInv, PostsTypeOK
<1>2. CASE \E p \in Posts : ReadRow(s, p)
  <2>1. PICK p \in Posts : ReadRow(s, p)
    BY <1>2
  <2> DEFINE new == [pc |-> "write", post |-> p, views |-> posts[p][1].views,
                     raced |-> FALSE]
  <2>2. posts[p] # <<>> /\ posts[p][1] \in PostRow
    BY <1>1, <2>1 DEF PostsTypeOK, ReadRow
  <2>3. new \in TabState /\ Shown(posts[p]).views = new.views
    BY <2>2 DEF TabState, PostRow, Shown
  <2>4. /\ tab' \in [Sessions -> TabState] /\ tab'[s] = new
        /\ \A t \in Sessions : t # s => tab'[t] = tab[t]
    BY <1>1, <2>1, <2>3 DEF PostsTypeOK, ReadRow
  <2>5. UNCHANGED <<day, posts, job, given>>
    BY <2>1 DEF ReadRow
  <2>6. PostsTypeOK' /\ HumanInv' /\ JobCopyInv'
    BY <2>4, <2>5 DEF IInv, PostsTypeOK, HumanInv, JobCopyInv, Current
  <2>7. TabCopyInv'
    BY <2>3, <2>4, <2>5 DEF IInv, TabCopyInv
  <2> QED BY <2>6, <2>7 DEF IInv
<1>3. CASE \E m \in Marks : WriteFeedback(s, m)
  <2>1. PICK m \in Marks : WriteFeedback(s, m)
    BY <1>3
  <2> DEFINE p == tab[s].post
             row == [views |-> tab[s].views, marks |-> m]
             rows == Updated(posts[p], 1, row)
  <2>2. p \in Posts /\ row \in PostRow /\ row.marks = m
    BY <1>1 DEF TabState, PostRow
  <2>3. /\ posts' = [posts EXCEPT ![p] = rows]
        /\ given' = [given EXCEPT ![p] = @ \cup ({m} \ {NoMark})]
        /\ job' = JobsAfterWrite(p)
        /\ tab' = [TabsAfterWrite(p) EXCEPT ![s] = IdleTab]
        /\ day' = day
    BY <2>1 DEF WriteFeedback
  <2>4. /\ rows \in Seq(PostRow)
        /\ \A i \in DOMAIN rows : \/ rows[i] = row
                                  \/ i \in DOMAIN posts[p] /\ rows[i] = posts[p][i]
    <3>1. posts[p] \in Seq(PostRow)
      BY <1>1, <2>2 DEF PostsTypeOK
    <3> HIDE DEF p, row
    <3> QED BY <2>2, <3>1, WrittenRows
  <2> HIDE DEF p, row, rows
  <2>5. /\ posts' \in [Posts -> Seq(PostRow)] /\ posts'[p] = rows
        /\ \A q \in Posts : q # p => posts'[q] = posts[q]
    BY <1>1, <2>2, <2>3, <2>4 DEF PostsTypeOK
  <2>6. /\ given' \in [Posts -> SUBSET Marks]
        /\ m \in given'[p] \cup {NoMark}
        /\ \A q \in Posts : given[q] \subseteq given'[q]
    BY <1>1, <2>2, <2>3 DEF PostsTypeOK
  <2>7. /\ tab' \in [Sessions -> TabState] /\ tab'[s] = IdleTab
        /\ \A t \in Sessions : t # s => tab'[t] = TabsAfterWrite(p)[t]
    BY <1>1, <2>2, <2>3, AfterWrite
  <2>8. PostsTypeOK'
    BY <1>1, <2>2, <2>3, <2>5, <2>6, <2>7, AfterWrite DEF PostsTypeOK
  <2>9. HumanInv'
    <3>1. \A q \in Posts, i \in Jobs : job'[i].meta[q] \in given'[q] \cup {NoMark}
      BY <1>1, <2>2, <2>3, <2>6, AfterWrite DEF IInv, HumanInv
    <3>2. \A q \in Posts : \A i \in DOMAIN posts'[q] :
             posts'[q][i].marks \in given'[q] \cup {NoMark}
      BY <2>2, <2>4, <2>5, <2>6 DEF IInv, HumanInv
    <3> QED BY <3>1, <3>2 DEF HumanInv
  <2>10. JobCopyInv'
    <3> SUFFICES ASSUME NEW i \in Jobs, NEW q \in job'[i].todo
                 PROVE  Current(job[i], q)'
      BY DEF JobCopyInv
    <3>1. q \in Posts
      BY <2>8 DEF PostsTypeOK, JobState
    <3>2. q \in job[i].todo /\ job'[i] = JobsAfterWrite(p)[i]
      BY <1>1, <2>2, <2>3, AfterWrite
    <3>3. /\ job'[i].pc = job[i].pc /\ job'[i].seen = job[i].seen
          /\ job'[i].blind = job[i].blind /\ job'[i].meta = job[i].meta
          /\ job[i].since \subseteq job'[i].since
          /\ q = p => q \in job'[i].since
      BY <1>1, <2>2, <3>2, AfterWrite
    <3> QED BY <2>5, <3>1, <3>2, <3>3 DEF IInv, JobCopyInv, Current
  <2>11. TabCopyInv'
    <3> SUFFICES ASSUME NEW t \in Sessions, tab'[t].pc = "write", ~tab'[t].raced
                 PROVE  Shown(posts'[tab'[t].post]).views = tab'[t].views
      BY DEF TabCopyInv
    <3>1. t # s
      BY <2>7 DEF IdleTab
    <3>2. /\ tab[t].pc = "write" /\ ~tab[t].raced /\ tab[t].post # p
          /\ tab'[t].post = tab[t].post /\ tab'[t].views = tab[t].views
      BY <1>1, <2>2, <2>7, <3>1, AfterWrite
    <3>3. tab[t].post \in Posts
      BY <1>1 DEF PostsTypeOK, TabState
    <3> QED BY <2>5, <3>2, <3>3 DEF IInv, TabCopyInv
  <2> QED BY <2>8, <2>9, <2>10, <2>11 DEF IInv
<1>4. CASE LoseFeedback(s)
  <2>1. /\ tab' = [tab EXCEPT ![s] = IdleTab] /\ UNCHANGED <<day, posts, job, given>>
    BY <1>4 DEF LoseFeedback
  <2>2. /\ tab' \in [Sessions -> TabState] /\ tab'[s] = IdleTab
        /\ \A t \in Sessions : t # s => tab'[t] = tab[t]
    BY <1>1, <2>1 DEF PostsTypeOK
  <2>3. PostsTypeOK' /\ HumanInv' /\ JobCopyInv'
    BY <2>1, <2>2 DEF IInv, PostsTypeOK, HumanInv, JobCopyInv, Current
  <2>4. TabCopyInv'
    BY <2>1, <2>2 DEF IInv, TabCopyInv, IdleTab
  <2> QED BY <2>3, <2>4 DEF IInv
<1> QED BY <1>2, <1>3, <1>4 DEF TabNext

\* Every step keeps the invariant.
LEMMA NextIInv == IInv /\ [Next]_vars => IInv'
<1> SUFFICES ASSUME IInv, [Next]_vars PROVE IInv'
  OBVIOUS
<1>1. CASE \E j \in Jobs : JobNext(j)
  BY <1>1, QuietStep, ReadMetaStep, FindPostStep, RecordPostStep DEF JobNext
<1>2. CASE \E s \in Sessions : TabNext(s)
  BY <1>2, TabStep
<1>3. CASE Midnight
  <2>1. day' \in Nat /\ UNCHANGED <<posts, job, tab, given>>
    BY <1>3 DEF Midnight, IInv, PostsTypeOK
  <2> QED BY <2>1 DEF IInv, PostsTypeOK, HumanInv, JobCopyInv, TabCopyInv, Current
<1>4. CASE UNCHANGED vars
  BY <1>4 DEF vars, IInv, PostsTypeOK, HumanInv, JobCopyInv, TabCopyInv, Current
<1> QED BY <1>1, <1>2, <1>3, <1>4 DEF Next

\* The invariant holds throughout.
LEMMA InvIInv == Spec => []IInv
BY InitIInv, NextIInv, PTL DEF Spec

\* Feedback on the posts sheet is blank or was given by a human to that very post, on
\* every row of the post:
\* _existing_post_meta and _record_post pass it through (run_daily.py:114-144), with
\* any number of jobs and sessions interleaved.
THEOREM FeedbackSafe == Spec => []FeedbackIsHuman
<1>1. IInv => FeedbackIsHuman
  BY DEF IInv, HumanInv, FeedbackIsHuman
<1> QED BY <1>1, InvIInv, PTL

\* Only two steps write the posts sheet.
LEMMA WhoWrites ==
    ASSUME Next, posts' # posts
    PROVE  \/ \E j \in Jobs : RecordPost(j)
           \/ \E s \in Sessions, m \in Marks : WriteFeedback(s, m)
BY DEF Next, JobNext, TabNext, Start, Fetch, ReadDelta, FindDay, WriteDay, ReadMeta,
       FindPost, PostsDone, Report, Log, Crash, ReadRow, LoseFeedback, Midnight

\* A write that changes what is shown of post p from the side of the job: it is the
\* job that tries it, and it writes the marks it read, which were those of the last row.
LEMMA JobLoss ==
    ASSUME IInv, Next, NEW p \in Posts, NEW j \in Jobs, Records(j, p),
           Shown(posts'[p]).marks # Shown(posts[p]).marks
    PROVE  job[j].blind \/ p \in job[j].since \/ Disagree(posts[p])
<1>1. PostsTypeOK /\ p \in job[j].todo /\ p \notin job'[j].todo
  BY DEF IInv, Records
<1>2. posts' # posts
  OBVIOUS
<1>3. CASE \E s \in Sessions, m \in Marks : WriteFeedback(s, m)
  <2>1. PICK s \in Sessions, m \in Marks : WriteFeedback(s, m)
    BY <1>3
  <2>2. job' = JobsAfterWrite(tab[s].post) /\ tab[s].post \in Posts
    BY <1>1, <2>1 DEF WriteFeedback, PostsTypeOK, TabState
  <2> QED BY <1>1, <2>2, AfterWrite
<1>4. CASE \E i \in Jobs : RecordPost(i)
  <2>1. PICK i \in Jobs : RecordPost(i)
    BY <1>4
  <2>2. PICK q \in Posts :
           LET row == [views |-> job[i].seen[q], marks |-> job[i].meta[q]]
           IN /\ Newest(job[i].todo, q)
              /\ \E rows \in Added(posts[q], row) \cup {Updated(posts[q], 1, row)} :
                    posts' = [posts EXCEPT ![q] = rows]
              /\ \E new : job' = [JobsAfterWrite(q) EXCEPT ![i] = new]
    BY <1>2, <2>1 DEF RecordPost
  <2> DEFINE row == [views |-> job[i].seen[q], marks |-> job[i].meta[q]]
  <2>3. PICK rows \in Added(posts[q], row) \cup {Updated(posts[q], 1, row)} :
           posts' = [posts EXCEPT ![q] = rows]
    BY <2>2
  <2>4. q = p /\ posts'[p] = rows
    BY <1>1, <2>3 DEF PostsTypeOK
  <2>5. i = j
    BY <1>1, <2>2, <2>4, AfterWrite
  <2>6. row \in PostRow /\ posts[q] \in Seq(PostRow)
    <3>1. job[i] \in JobState /\ q \in job[i].todo /\ posts[q] \in Seq(PostRow)
      BY <1>1, <2>2 DEF PostsTypeOK, Newest
    <3>2. job[i].seen[q] # NotSeen
      BY <3>1 DEF IInv, JobCopyInv, Current
    <3> QED BY <3>1, <3>2 DEF JobState, PostRow
  <2>7. row.marks = job[j].meta[p]
    BY <2>4, <2>5
  <2> HIDE DEF row
  <2>8. Shown(rows) = Shown(posts[q]) \/ Shown(rows) = row
    BY <2>6, WrittenRows
  <2>9. Shown(posts'[p]).marks = job[j].meta[p]
    BY <2>4, <2>7, <2>8
  <2>10. LastMarks(posts[p]) # Shown(posts[p]).marks => Disagree(posts[p])
    BY DEF LastMarks, Shown, Disagree
  <2> QED BY <1>1, <2>9, <2>10 DEF IInv, JobCopyInv, Current
<1> QED BY <1>2, <1>3, <1>4, WhoWrites

\* The same from the side of the session: it writes the views it read.
LEMMA TabLoss ==
    ASSUME IInv, Next, NEW p \in Posts, NEW s \in Sessions, Saves(s, p),
           Shown(posts'[p]).views # Shown(posts[p]).views
    PROVE  tab[s].raced
<1>1. PostsTypeOK /\ tab[s].pc = "write" /\ tab[s].post = p /\ tab'[s].pc # "write"
  BY DEF IInv, Saves
<1>2. posts' # posts
  OBVIOUS
<1>3. CASE \E j \in Jobs : RecordPost(j)
  <2>1. PICK j \in Jobs : RecordPost(j)
    BY <1>3
  <2>2. PICK q \in Posts : tab' = TabsAfterWrite(q)
    BY <1>2, <2>1 DEF RecordPost
  <2> QED BY <1>1, <2>2, AfterWrite
<1>4. CASE \E t \in Sessions, m \in Marks : WriteFeedback(t, m)
  <2>1. PICK t \in Sessions, m \in Marks : WriteFeedback(t, m)
    BY <1>4
  <2> DEFINE row == [views |-> tab[t].views, marks |-> m]
             q == tab[t].post
  <2>2. /\ tab' = [TabsAfterWrite(q) EXCEPT ![t] = IdleTab]
        /\ posts' = [posts EXCEPT ![q] = Updated(posts[q], 1, row)]
        /\ tab[t] \in TabState
    BY <1>1, <2>1 DEF WriteFeedback, PostsTypeOK
  <2>3. t = s
    BY <1>1, <2>2, AfterWrite DEF TabState
  <2>4. /\ posts'[p] = Updated(posts[p], 1, row) /\ posts[p] \in Seq(PostRow)
        /\ row \in PostRow /\ row.views = tab[s].views
    BY <1>1, <2>2, <2>3 DEF PostsTypeOK, TabState, PostRow
  <2> HIDE DEF row
  <2>5. Shown(posts'[p]) = Shown(posts[p]) \/ Shown(posts'[p]) = row
    BY <2>4, WrittenRows
  <2> QED BY <1>1, <2>4, <2>5 DEF IInv, TabCopyInv
<1> QED BY <1>2, <1>3, <1>4, WhoWrites

\* A job changes the feedback shown of a post only after a failed read, a race, or when
\* the post is on two rows that disagree; a session changes views only after a race
\* (run_daily.py:114-144, service.py:222), with any number of jobs and sessions.
THEOREM LossesHaveCause == Spec => LossesExplained
<1>1. IInv /\ [Next]_vars => [\A p \in Posts : LossExplained(p)]_vars
  BY JobLoss, TabLoss DEF LossExplained
<1> QED BY <1>1, InvIInv, PTL DEF Spec, LossesExplained

-----------------------------------------------------------------------------
\* The scan of metrics_daily for the follower delta.

\* Every nonempty set of natural numbers has a least element.
LEMMA LeastNumber ==
    ASSUME NEW T \in SUBSET Nat, T # {}
    PROVE  \E x \in T : \A y \in T : x <= y
<1> DEFINE R == OpToRel(<, Nat)
<1>1. \E x \in T : \A y \in T : ~(<<y, x>> \in R)
  <2>1. IsWellFoundedOn(R, Nat) BY NatLessThanWellFounded
  <2> HIDE DEF R
  <2> QED BY <2>1, WFMin
<1>2. \A x, y \in Nat : y < x => <<y, x>> \in R
  BY DEF OpToRel
<1> HIDE DEF R
<1>3. PICK x \in T : \A y \in T : ~(<<y, x>> \in R) BY <1>1
<1>4. ASSUME NEW y \in T PROVE x <= y
  <2>1. ~(y < x) /\ x \in Nat /\ y \in Nat BY <1>2, <1>3
  <2> QED BY <2>1
<1> QED BY <1>4

\* Every nonempty set of natural numbers with a bound has a greatest element.
LEMMA GreatestNumber ==
    ASSUME NEW S \in SUBSET Nat, S # {}, NEW b \in Nat, \A x \in S : x <= b
    PROVE  \E x \in S : \A y \in S : y <= x
<1> DEFINE T == {b - x : x \in S}
<1>1. T \in SUBSET Nat /\ T # {}
  <2>1. \A x \in S : b - x \in Nat OBVIOUS
  <2>2. T # {} OBVIOUS
  <2> QED BY <2>1, <2>2
<1>2. PICK t \in T : \A u \in T : t <= u BY <1>1, LeastNumber
<1>3. PICK x \in S : t = b - x BY <1>2
<1>4. \A y \in S : b - y \in T OBVIOUS
<1>5. ASSUME NEW y \in S PROVE y <= x
  <2>1. b - x <= b - y BY <1>2, <1>3, <1>4
  <2> QED BY <2>1
<1> QED BY <1>5

\* The rows of earlier days with a count that can be read, and the last of the latest
\* day among some of them: what compute_follower_delta is to find.
Earlier(rows, date) ==
    {k \in DOMAIN rows : rows[k].date < date /\ rows[k].followers # Unreadable}
IsLast(rows, K, k) ==
    /\ k \in K
    /\ \A n \in K : \/ rows[n].date < rows[k].date
                    \/ rows[n].date = rows[k].date /\ n <= k
Known(row) == [date |-> row.date, followers |-> row.followers]
Latest(rows, K) ==
    IF K = {} THEN NoRow ELSE Known(rows[CHOOSE k \in K : IsLast(rows, K, k)])

\* One round of the scan.
ScanStep(row, date, best) == IF Better(row, date, best) THEN Known(row) ELSE best

\* The last row of the latest day exists and there is only one.
LEMMA LastExists ==
    ASSUME NEW rows \in Seq(DayRow), NEW date \in Nat,
           NEW K \in SUBSET Earlier(rows, date), K # {}
    PROVE  /\ \E k \in K : IsLast(rows, K, k)
           /\ \A k, n \in K : IsLast(rows, K, k) /\ IsLast(rows, K, n) => k = n
<1>1. /\ DOMAIN rows = 1..Len(rows) /\ Len(rows) \in Nat
      /\ \A k \in DOMAIN rows : rows[k] \in DayRow
  OBVIOUS
<1>2. \A k \in K : k \in 1..Len(rows) /\ rows[k].date \in Nat /\ rows[k].date <= date
  BY <1>1 DEF Earlier, DayRow
<1> DEFINE dates == {rows[k].date : k \in K}
<1>3. dates \in SUBSET Nat /\ dates # {} /\ \A d \in dates : d <= date BY <1>2
<1>4. PICK d \in dates : \A e \in dates : e <= d BY <1>3, GreatestNumber
<1> DEFINE last == {k \in K : rows[k].date = d}
<1>5. last \in SUBSET Nat /\ last # {} /\ \A k \in last : k <= Len(rows) BY <1>2
<1>6. PICK k \in last : \A n \in last : n <= k BY <1>1, <1>5, GreatestNumber
<1>7. IsLast(rows, K, k)
  <2>1. ASSUME NEW n \in K
        PROVE  rows[n].date < rows[k].date \/ (rows[n].date = rows[k].date /\ n <= k)
    <3>1. rows[n].date <= d /\ rows[n].date \in Nat /\ d \in Nat BY <1>2, <1>3, <1>4
    <3> QED BY <1>6, <3>1
  <2> QED BY <2>1 DEF IsLast
<1>8. ASSUME NEW a \in K, NEW b \in K, IsLast(rows, K, a), IsLast(rows, K, b)
      PROVE  a = b
  <2>1. a \in Nat /\ b \in Nat /\ rows[a].date \in Nat /\ rows[b].date \in Nat BY <1>2
  <2> QED BY <1>8, <2>1 DEF IsLast
<1> QED BY <1>7, <1>8

\* So it is what the scan is to return.
LEMMA LatestIs ==
    ASSUME NEW rows \in Seq(DayRow), NEW date \in Nat,
           NEW K \in SUBSET Earlier(rows, date), NEW k \in K, IsLast(rows, K, k)
    PROVE  Latest(rows, K) = Known(rows[k])
<1>1. (CHOOSE n \in K : IsLast(rows, K, n)) = k BY LastExists
<1> QED BY <1>1 DEF Latest

\* A round of the scan takes it from all but the last row to all rows.
LEMMA LatestStep ==
    ASSUME NEW rows \in Seq(DayRow), NEW date \in Nat,
           NEW s \in SUBSET DOMAIN rows, NEW x \in s, \A n \in s : n <= x
    PROVE  Latest(rows, s \cap Earlier(rows, date))
             = ScanStep(rows[x], date, Latest(rows, (s \ {x}) \cap Earlier(rows, date)))
<1> DEFINE E == Earlier(rows, date)
           new == s \cap E
           old == (s \ {x}) \cap E
           best == Latest(rows, old)
<1>1. /\ DOMAIN rows = 1..Len(rows) /\ Len(rows) \in Nat
      /\ \A k \in DOMAIN rows : rows[k].date \in Nat
  <2>1. \A k \in DOMAIN rows : rows[k] \in DayRow OBVIOUS
  <2>2. \A row \in DayRow : row.date \in Nat BY DEF DayRow
  <2> QED BY <2>1, <2>2
<1>2. x \in E <=> rows[x].date < date /\ rows[x].followers # Unreadable BY DEF Earlier
<1>3. new \in SUBSET Earlier(rows, date) /\ old \in SUBSET Earlier(rows, date) OBVIOUS
<1>4. CASE x \notin E
  <2>1. new = old BY <1>4
  <2>2. ~Better(rows[x], date, best) BY <1>2, <1>4 DEF Better
  <2> QED BY <2>1, <2>2 DEF ScanStep
<1>5. CASE x \in E /\ old = {}
  <2>1. new = {x} /\ IsLast(rows, new, x) BY <1>1, <1>5 DEF IsLast
  <2>2. Latest(rows, new) = Known(rows[x]) BY <1>3, <2>1, LatestIs
  <2>3. best.date = -1 BY <1>5 DEF Latest, NoRow
  <2>4. Better(rows[x], date, best) BY <1>1, <1>2, <1>5, <2>3 DEF Better
  <2> QED BY <2>2, <2>4 DEF ScanStep
<1>6. CASE x \in E /\ old # {}
  <2>1. PICK k \in old : IsLast(rows, old, k)
    <3> HIDE DEF old
    <3> QED BY <1>3, <1>6, LastExists
  <2>2. best = Known(rows[k]) /\ best.date = rows[k].date
    BY <1>3, <2>1, LatestIs DEF Known
  <2>3. k \in DOMAIN rows /\ k <= x /\ k \in new /\ x \in new /\ new = old \cup {x}
    BY <1>6, <2>1
  <2>4. Better(rows[x], date, best) <=> rows[k].date <= rows[x].date
    BY <1>1, <1>2, <1>6, <2>2, <2>3 DEF Better
  <2>5. CASE rows[k].date <= rows[x].date
    <3>1. IsLast(rows, new, x)
      <4>1. ASSUME NEW n \in new
            PROVE  rows[n].date < rows[x].date \/ (rows[n].date = rows[x].date /\ n <= x)
        <5>1. n \in DOMAIN rows /\ n <= x /\ rows[n].date \in Nat /\ rows[x].date \in Nat
              /\ rows[k].date \in Nat
          BY <1>1, <2>3
        <5>2. CASE n = x BY <5>1, <5>2
        <5>3. CASE n \in old
          <6>1. rows[n].date <= rows[k].date BY <5>1, <5>3, <2>1 DEF IsLast
          <6> QED BY <2>5, <5>1, <6>1
        <5> QED BY <2>3, <5>2, <5>3
      <4> QED BY <2>3, <4>1 DEF IsLast
    <3> QED BY <1>3, <2>3, <2>4, <2>5, <3>1, LatestIs DEF ScanStep
  <2>6. CASE ~(rows[k].date <= rows[x].date)
    <3>1. IsLast(rows, new, k)
      <4>1. rows[x].date < rows[k].date BY <1>1, <2>3, <2>6
      <4> QED BY <2>1, <2>3, <4>1 DEF IsLast
    <3> QED BY <1>3, <2>2, <2>3, <2>4, <2>6, <3>1, LatestIs DEF ScanStep
  <2> QED BY <2>5, <2>6
<1> QED BY <1>4, <1>5, <1>6

\* compute_follower_delta's scan returns the last of the latest earlier rows with a
\* count, or nothing, for every sheet (upsert.py:46-57): by induction on its rounds.
LEMMA ScanFinds ==
    ASSUME NEW rows \in Seq(DayRow), NEW date \in Nat
    PROVE  LatestBefore(rows, date) = Latest(rows, Earlier(rows, date))
<1> DEFINE D == DOMAIN rows
           E == Earlier(rows, date)
           Rounds(f) == f = [s \in SUBSET D |->
                              IF s = {} THEN NoRow
                              ELSE ScanStep(rows[Max(s)], date, f[s \ {Max(s)}])]
           scan == CHOOSE f : Rounds(f)
           found == [s \in SUBSET D |-> Latest(rows, s \cap E)]
<1>1. LatestBefore(rows, date) = scan[D]
  BY DEF LatestBefore, FoldLeft, MapThenFoldSet, ScanStep, Known
<1>2. D = 1..Len(rows) /\ Len(rows) \in Nat OBVIOUS
<1>3. ASSUME NEW s \in SUBSET D, s # {}
      PROVE  Max(s) \in s /\ \A n \in s : n <= Max(s)
  <2>1. s \in SUBSET Nat /\ \A n \in s : n <= Len(rows) BY <1>2
  <2>2. \E x \in s : \A n \in s : n <= x BY <1>2, <1>3, <2>1, GreatestNumber
  <2>3. \E x \in s : \A n \in s : x >= n BY <2>1, <2>2
  <2>4. Max(s) \in s /\ \A n \in s : Max(s) >= n BY <2>3 DEF Max
  <2> QED BY <2>1, <2>4
<1>4. Rounds(found)
  <2>1. ASSUME NEW s \in SUBSET D
        PROVE  found[s] = IF s = {} THEN NoRow
                          ELSE ScanStep(rows[Max(s)], date, found[s \ {Max(s)}])
    <3>1. CASE s = {} BY <3>1 DEF Latest
    <3>2. CASE s # {}
      <4>1. Max(s) \in s /\ \A n \in s : n <= Max(s) BY <1>3, <3>2
      <4>2. Latest(rows, s \cap E)
              = ScanStep(rows[Max(s)], date, Latest(rows, (s \ {Max(s)}) \cap E))
        BY <4>1, LatestStep
      <4> QED BY <3>2, <4>2
    <3> QED BY <3>1, <3>2
  <2> HIDE DEF D, E
  <2> QED BY <2>1
<1>5. Rounds(scan) BY <1>4
<1> DEFINE wrong == {n \in 0..Len(rows) : scan[1..n] # found[1..n]}
<1> HIDE DEF scan, found
<1>6. wrong = {}
  <2> SUFFICES ASSUME wrong # {} PROVE FALSE
    OBVIOUS
  <2>1. wrong \in SUBSET Nat BY <1>2
  <2>2. PICK n \in wrong : \A m \in wrong : n <= m BY <2>1, LeastNumber
  <2>3. n \in 0..Len(rows) /\ scan[1..n] # found[1..n] /\ n \in Nat BY <1>2, <2>2
  <2>4. CASE n = 0
    <3>1. 1..n = {} /\ {} \in SUBSET D BY <2>4
    <3>2. scan[{}] = NoRow /\ found[{}] = NoRow BY <1>4, <1>5, <3>1
    <3> QED BY <2>3, <3>1, <3>2
  <2>5. CASE n # 0
    <3>1. /\ n - 1 \in 0..Len(rows) /\ 1..n \in SUBSET D /\ 1..n # {}
          /\ n \in 1..n /\ (1..n) \ {n} = 1..(n - 1)
      BY <1>2, <2>3, <2>5
    <3>2. Max(1..n) \in 1..n /\ \A m \in 1..n : m <= Max(1..n) BY <1>3, <3>1
    <3>3. Max(1..n) = n
      <4>1. n <= Max(1..n) BY <3>1, <3>2
      <4> QED BY <2>3, <3>2, <4>1
    <3>4. n - 1 \notin wrong BY <2>1, <2>2, <2>3
    <3>5. scan[1..(n - 1)] = found[1..(n - 1)] BY <3>1, <3>4
    <3>6. scan[1..n] = ScanStep(rows[n], date, scan[1..(n - 1)])
      BY <1>5, <3>1, <3>3
    <3>7. found[1..n] = ScanStep(rows[n], date, found[1..(n - 1)])
      BY <1>4, <3>1, <3>3
    <3> QED BY <2>3, <3>5, <3>6, <3>7
  <2> QED BY <2>4, <2>5
<1>7. scan[D] = found[D] BY <1>2, <1>6
<1>8. found[D] = Latest(rows, Earlier(rows, date))
  <2>1. D \in SUBSET D /\ D \cap E = E BY DEF Earlier
  <2> QED BY <2>1 DEF found
<1> QED BY <1>1, <1>7, <1>8

-----------------------------------------------------------------------------
\* metrics_daily.

\* DeltaRight, of one count of one day.
DeltaFits(rows, date, followers, d) ==
    IF Earlier(rows, date) = {} THEN d = <<>>
    ELSE \E k \in Earlier(rows, date) :
            /\ \A n \in Earlier(rows, date) : rows[n].date <= rows[k].date
            /\ d = <<followers - rows[k].followers>>

\* A job is over before midnight, the delta it is about to write is right, and the
\* row it has found is there.
Fits(rows, state, d) ==
    /\ state.pc # "idle" => state.today = day
    /\ state.pc \in {"delta", "find_day", "daily"} => state.followers # Unreadable
    /\ state.pc \in {"find_day", "daily"} => DeltaFits(rows, day, state.followers, d)
    /\ state.pc = "daily" /\ state.found => DayRows(rows, state.today) # {}

\* A job without failures is still to record what it owes, and once it is past the
\* row of the day that row is on the sheet.
Done(rows, state) ==
    ~state.failures =>
        /\ state.pc \in {"delta", "find_day", "daily", "meta"}
              => \A p \in state.owed : state.seen[p] # NotSeen
        /\ state.pc \in {"posts", "post"} => state.owed \subseteq state.todo
        /\ state.pc \in {"report", "log"} => state.owed = {}
        /\ state.pc \in {"meta", "posts", "post", "report", "log"}
              => \E i \in DOMAIN rows : rows[i].date = state.today

\* The strengthening of DeltaRight and OkMeansRecorded: rows are of days up to today,
\* so that what a job reads and writes today leaves the rows before it as they were.
DailyInv ==
    /\ metrics \in Seq(DayRow) /\ delta \in [Jobs -> Deltas]
    /\ day > 0 /\ \A i \in DOMAIN metrics : metrics[i].date <= day
    /\ DeltaRight
    /\ \A j \in Jobs : Fits(metrics, job[j], delta[j]) /\ Done(metrics, job[j])

\* The rows of the sheet are of some day.
LEMMA DaysOfRows ==
    ASSUME NEW rows \in Seq(DayRow)
    PROVE  \A k \in DOMAIN rows : rows[k] \in DayRow /\ rows[k].date \in Nat
<1>1. \A k \in DOMAIN rows : rows[k] \in DayRow OBVIOUS
<1>2. \A row \in DayRow : row.date \in Nat BY DEF DayRow
<1> QED BY <1>1, <1>2

\* DeltaRight says of every row of a day since the first that its delta fits.
LEMMA DeltaRightIs ==
    DeltaRight <=> \A i \in DOMAIN metrics : metrics[i].date > 0 =>
        DeltaFits(metrics, metrics[i].date, metrics[i].followers, metrics[i].delta)
BY DEF DeltaRight, DeltaFits, Earlier

\* What is read for the delta fits, and is a delta.
LEMMA FollowerDeltaFits ==
    ASSUME NEW rows \in Seq(DayRow), NEW date \in Nat, NEW followers \in 0..MaxFans
    PROVE  /\ FollowerDelta(rows, date, followers) \in Deltas
           /\ DeltaFits(rows, date, followers, FollowerDelta(rows, date, followers))
<1> DEFINE E == Earlier(rows, date)
           d == FollowerDelta(rows, date, followers)
<1>1. LatestBefore(rows, date) = Latest(rows, E) BY ScanFinds
<1>2. CASE E = {}
  <2>1. d = <<>> BY <1>1, <1>2 DEF Latest, NoRow, FollowerDelta
  <2> QED BY <1>2, <2>1 DEF DeltaFits, Deltas
<1>3. CASE E # {}
  <2>1. PICK k \in E : IsLast(rows, E, k)
    <3> HIDE DEF E
    <3>1. E \in SUBSET Earlier(rows, date) BY DEF E
    <3> QED BY <1>3, <3>1, LastExists
  <2>2. LatestBefore(rows, date) = Known(rows[k]) BY <1>1, <2>1, LatestIs
  <2>3. k \in DOMAIN rows /\ rows[k].followers # Unreadable BY DEF Earlier
  <2>4. rows[k] \in DayRow BY <2>3
  <2>5. rows[k].followers \in 0..MaxFans BY <2>3, <2>4 DEF DayRow
  <2>6. d = <<followers - rows[k].followers>>
    BY <2>2, <2>3 DEF Known, FollowerDelta
  <2>7. followers - rows[k].followers \in -MaxFans..MaxFans
    BY <2>5, DailyAssumption
  <2>8. d \in Deltas BY <2>6, <2>7 DEF Deltas
  <2>9. \A n \in E : rows[n].date <= rows[k].date
    <3>1. \A n \in E : rows[n] \in DayRow BY DEF Earlier
    <3>2. \A row \in DayRow : row.date \in Nat BY DEF DayRow
    <3> QED BY <2>1, <3>1, <3>2 DEF IsLast
  <2> QED BY <1>3, <2>6, <2>8, <2>9 DEF DeltaFits
<1> QED BY <1>2, <1>3

\* What an upsert may make of the rows of metrics_daily.
Upserted(rows, row) ==
    Added(rows, row)
      \cup {new \in {Updated(rows, FirstOfDay(rows, row.date), row)} :
                DayRows(rows, row.date) # {}}

\* An upsert puts the row over one of its date or below, and leaves the others.
LEMMA UpsertPuts ==
    ASSUME NEW rows \in Seq(DayRow), NEW row \in DayRow, NEW new \in Upserted(rows, row)
    PROVE  /\ new \in Seq(DayRow) /\ DOMAIN rows \subseteq DOMAIN new
           /\ \E at \in DOMAIN new : new[at] = row
           /\ \A k \in DOMAIN new :
                 \/ k \in DOMAIN rows /\ new[k] = rows[k]
                 \/ new[k] = row /\ (k \in DOMAIN rows => rows[k].date = row.date)
<1>1. DOMAIN rows = 1..Len(rows) /\ Len(rows) \in Nat OBVIOUS
<1>2. CASE new = Append(rows, row)
  <2>1. /\ new \in Seq(DayRow) /\ DOMAIN new = 1..(Len(rows) + 1)
        /\ new[Len(rows) + 1] = row /\ \A k \in 1..Len(rows) : new[k] = rows[k]
    BY <1>2
  <2> QED BY <1>1, <2>1
<1>3. CASE new = rows \o <<row, row>>
  <2>1. <<row, row>> \in Seq(DayRow) /\ Len(<<row, row>>) = 2
        /\ \A i \in 1..2 : <<row, row>>[i] = row
    OBVIOUS
  <2>2. new \in Seq(DayRow) /\ Len(new) = Len(rows) + 2 BY <1>3, <2>1
  <2>3. \A k \in DOMAIN new : IF k <= Len(rows) THEN k \in DOMAIN rows /\ new[k] = rows[k]
                                                 ELSE k \notin DOMAIN rows /\ new[k] = row
    BY <1>1, <1>3, <2>1, <2>2
  <2>4. Len(rows) + 1 \in DOMAIN new BY <1>1, <2>2
  <2>5. new[Len(rows) + 1] = row BY <1>1, <2>3, <2>4
  <2>6. DOMAIN rows \subseteq DOMAIN new BY <1>1, <2>2
  <2> QED BY <2>2, <2>3, <2>4, <2>5, <2>6
<1>4. CASE /\ DayRows(rows, row.date) # {}
           /\ new = Updated(rows, FirstOfDay(rows, row.date), row)
  <2> DEFINE same == DayRows(rows, row.date)
             at == FirstOfDay(rows, row.date)
  <2>1. same \subseteq DOMAIN rows /\ \A i \in same : rows[i].date = row.date
    BY DEF DayRows
  <2>2. same \in SUBSET Nat BY <1>1, <2>1
  <2>3. \E i \in same : \A k \in same : i <= k BY <1>4, <2>2, LeastNumber
  <2>4. at \in same BY <2>3 DEF FirstOfDay
  <2>5. new = [rows EXCEPT ![at] = row] BY <1>4 DEF Updated
  <2> HIDE DEF at, same
  <2>6. /\ new \in Seq(DayRow) /\ DOMAIN new = DOMAIN rows /\ new[at] = row
        /\ \A k \in DOMAIN rows : k # at => new[k] = rows[k]
    BY <2>1, <2>4, <2>5
  <2> QED BY <2>1, <2>4, <2>6
<1> QED BY <1>2, <1>3, <1>4 DEF Upserted, Added

\* A row of the date or later is not among the earlier rows, before and after.
LEMMA UpsertKeepsEarlier ==
    ASSUME NEW rows \in Seq(DayRow), NEW row \in DayRow, NEW new \in Upserted(rows, row),
           NEW date \in Nat, date <= row.date, NEW followers, NEW d
    PROVE  DeltaFits(new, date, followers, d) <=> DeltaFits(rows, date, followers, d)
<1>1. /\ DOMAIN rows \subseteq DOMAIN new
      /\ \A k \in DOMAIN new :
            \/ k \in DOMAIN rows /\ new[k] = rows[k]
            \/ new[k] = row /\ (k \in DOMAIN rows => rows[k].date = row.date)
  BY UpsertPuts
<1>2. row.date \in Nat BY DEF DayRow
<1>3. /\ Earlier(new, date) = Earlier(rows, date)
      /\ \A k \in Earlier(rows, date) : new[k] = rows[k]
  BY <1>1, <1>2 DEF Earlier
<1> QED BY <1>3 DEF DeltaFits

\* The invariant holds at the start.
LEMMA InitDaily == Init => DailyInv
<1> SUFFICES ASSUME Init PROVE DailyInv
  OBVIOUS
<1>1. PICK f \in {Unreadable, 0} :
         metrics \in {<<>>, <<[date |-> 0, followers |-> f, delta |-> <<>>]>>}
  BY DEF Init
<1> DEFINE row == [date |-> 0, followers |-> f, delta |-> <<>>]
<1>2. row \in DayRow BY DailyAssumption DEF DayRow, Deltas
<1>3. metrics = <<>> \/ metrics = <<row>> BY <1>1
<1>4. row.date = 0 OBVIOUS
<1> HIDE DEF row
<1>5. metrics \in Seq(DayRow) /\ \A i \in DOMAIN metrics : metrics[i].date = 0
  <2>1. CASE metrics = <<>> BY <2>1
  <2>2. CASE metrics = <<row>>
    <3>1. metrics \in Seq(DayRow) /\ Len(metrics) = 1 /\ metrics[1] = row BY <1>2, <2>2
    <3> QED BY <1>4, <3>1
  <2> QED BY <1>3, <2>1, <2>2
<1>6. delta \in [Jobs -> Deltas] BY DEF Init, Deltas
<1>7. DeltaRight BY <1>5 DEF DeltaRight
<1>8. day = 1 /\ \A j \in Jobs : job[j].pc = "idle" BY DEF Init, IdleJob
<1> QED BY <1>5, <1>6, <1>7, <1>8 DEF DailyInv, Fits, Done

\* A step that writes neither metrics_daily nor the calendar keeps the invariant when
\* every job is still in order.
LEMMA DailyFrame ==
    ASSUME DailyInv, UNCHANGED <<day, metrics>>, delta' \in [Jobs -> Deltas],
           \A i \in Jobs : Fits(metrics, job'[i], delta'[i]) /\ Done(metrics, job'[i])
    PROVE  DailyInv'
BY DEF DailyInv, DeltaRight, Fits, Done

\* A job that only differs in its copies of the posts sheet is in order as before.
SameJob(old, new) ==
    /\ new.pc = old.pc /\ new.today = old.today /\ new.followers = old.followers
    /\ new.seen = old.seen /\ new.failures = old.failures
    /\ new.owed = old.owed /\ new.todo = old.todo /\ new.found = old.found
LEMMA SameFits ==
    ASSUME NEW old, NEW new, SameJob(old, new), NEW rows, NEW d,
           Fits(rows, old, d), Done(rows, old)
    PROVE  Fits(rows, new, d) /\ Done(rows, new)
BY DEF SameJob, Fits, Done

\* A row of the posts sheet that is written is no concern of the other jobs here.
LEMMA OthersSame ==
    ASSUME PostsTypeOK, NEW p \in Posts, NEW i \in Jobs
    PROVE  SameJob(job[i], JobsAfterWrite(p)[i])
<1>1. job[i] \in JobState BY DEF PostsTypeOK
<1>2. JobsAfterWrite(p)[i] = [job[i] EXCEPT !.since = @ \cup ({p} \cap job[i].todo)]
  BY DEF JobsAfterWrite
<1> QED BY <1>1, <1>2 DEF SameJob, JobState

\* One job moves, the sheet of the days does not.
LEMMA DailyJob ==
    ASSUME IInv, DailyInv, UNCHANGED <<day, metrics>>, NEW j \in Jobs,
           NEW new \in JobState, Become(j, new), NEW d \in Deltas,
           delta' = [delta EXCEPT ![j] = d], Fits(metrics, new, d), Done(metrics, new)
    PROVE  DailyInv'
<1>1. /\ job'[j] = new /\ \A i \in Jobs : i # j => job'[i] = job[i]
      /\ delta' \in [Jobs -> Deltas]
      /\ delta'[j] = d /\ \A i \in Jobs : i # j => delta'[i] = delta[i]
  BY DEF Become, IInv, PostsTypeOK, DailyInv
<1>2. \A i \in Jobs : Fits(metrics, job'[i], delta'[i]) /\ Done(metrics, job'[i])
  BY <1>1 DEF DailyInv
<1> QED BY <1>1, <1>2, DailyFrame

\* A job that is idle, or reports a failure, or is past its row of the day, only has
\* to say so.
LEMMA IdleInOrder == \A d : Fits(metrics, IdleJob, d) /\ Done(metrics, IdleJob)
BY DEF Fits, Done, IdleJob

\* The steps of a job that write neither sheet.
LEMMA DailyQuiet ==
    ASSUME IInv, DailyInv, NEW j \in Jobs,
           \/ Start(j) \/ Fetch(j) \/ ReadDelta(j) \/ FindDay(j) \/ PostsDone(j)
           \/ Report(j) \/ Log(j) \/ Crash(j)
    PROVE  DailyInv'
<1> USE DailyAssumption, DefaultTypes
<1>1. /\ job[j] \in JobState /\ delta[j] \in Deltas /\ day \in Nat /\ <<>> \in Deltas
      /\ delta = [delta EXCEPT ![j] = delta[j]]
      /\ Fits(metrics, job[j], delta[j]) /\ Done(metrics, job[j])
  BY DEF IInv, PostsTypeOK, DailyInv, Deltas
<1>2. CASE Start(j)
  <2>1. PICK ok \in BOOLEAN :
           Become(j, [IdleJob EXCEPT !.pc = "fetch", !.today = day,
                                     !.sheets = ok, !.failures = ~ok])
    BY <1>2 DEF Start
  <2> DEFINE new == [IdleJob EXCEPT !.pc = "fetch", !.today = day,
                                    !.sheets = ok, !.failures = ~ok]
  <2>2. new \in JobState /\ new.pc = "fetch" /\ new.today = day
    BY <1>1 DEF JobState, Phases, IdleJob
  <2>3. Fits(metrics, new, delta[j]) /\ Done(metrics, new) BY <2>2 DEF Fits, Done
  <2> QED BY <1>1, <1>2, <2>1, <2>2, <2>3, DailyJob DEF Start
<1>3. CASE Fetch(j)
  <2>1. PICK f \in 0..MaxFans \cup {Unreadable}, raised \in BOOLEAN,
             seen \in [Posts -> 0..MaxViews \cup {NotSeen}] :
           LET collected == {p \in Posts : seen[p] # NotSeen}
               answered == [job[j] EXCEPT !.pc = "delta", !.followers = f, !.seen = seen,
                                         !.owed = collected, !.failures = @ \/ raised]
           IN Become(j, IF job[j].sheets /\ f # Unreadable THEN answered
                        ELSE Reporting([answered EXCEPT !.failures = TRUE]))
    BY <1>3 DEF Fetch
  <2> DEFINE collected == {p \in Posts : seen[p] # NotSeen}
             answered == [job[j] EXCEPT !.pc = "delta", !.followers = f, !.seen = seen,
                                        !.owed = collected, !.failures = @ \/ raised]
             unread == [answered EXCEPT !.failures = TRUE]
             late == Reporting(unread)
  <2>3. collected \in SUBSET Posts /\ \A p \in collected : seen[p] # NotSeen OBVIOUS
  <2>4. job[j].failures \/ raised \in BOOLEAN OBVIOUS
  <2>5. job[j].today = day BY <1>1, <1>3 DEF Fits, Fetch
  <2> HIDE DEF collected
  <2>6. /\ answered \in JobState /\ answered.pc = "delta" /\ answered.followers = f
        /\ answered.seen = seen /\ answered.today = day /\ answered.owed = collected
    BY <1>1, <2>3, <2>4, <2>5 DEF JobState, Phases
  <2>7. late \in JobState /\ late.pc = "report" /\ late.today = day /\ late.failures
    <3> HIDE DEF answered
    <3>1. unread \in JobState /\ unread.failures /\ unread.today = day
      BY <2>6 DEF JobState
    <3> HIDE DEF unread
    <3> QED BY <3>1, ReportingType DEF Reporting, IdleJob
  <2> HIDE DEF answered, late
  <2>8. CASE Become(j, answered) /\ f # Unreadable
    <3>1. Fits(metrics, answered, delta[j]) /\ Done(metrics, answered)
      BY <2>3, <2>6, <2>8 DEF Fits, Done
    <3> QED BY <1>1, <1>3, <2>6, <2>8, <3>1, DailyJob DEF Fetch
  <2>9. CASE Become(j, late)
    <3>1. Fits(metrics, late, delta[j]) /\ Done(metrics, late)
      BY <2>7 DEF Fits, Done
    <3> QED BY <1>1, <1>3, <2>7, <2>9, <3>1, DailyJob DEF Fetch
  <2> QED BY <2>1, <2>8, <2>9 DEF collected, answered, late
<1>4. CASE ReadDelta(j)
  <2> DEFINE good == [job[j] EXCEPT !.pc = "find_day"]
             bad == [job[j] EXCEPT !.pc = "meta", !.followers = Unreadable,
                                   !.failures = TRUE]
             d == FollowerDelta(metrics, job[j].today, job[j].followers)
  <2>1. job[j].pc = "delta" /\ UNCHANGED <<day, metrics>> BY <1>4 DEF ReadDelta
  <2>2. job[j].today = day /\ job[j].followers \in 0..MaxFans
        /\ job[j].followers # Unreadable
    BY <1>1, <2>1 DEF Fits, JobState
  <2>3. d \in Deltas /\ DeltaFits(metrics, day, job[j].followers, d)
    BY <1>1, <2>2, FollowerDeltaFits DEF DailyInv
  <2>4. /\ good \in JobState /\ good.pc = "find_day" /\ good.today = day
        /\ good.followers = job[j].followers /\ good.seen = job[j].seen
        /\ good.failures = job[j].failures /\ good.owed = job[j].owed
        /\ bad \in JobState /\ bad.pc = "meta" /\ bad.today = day /\ bad.failures
    BY <1>1, <2>2 DEF JobState, Phases
  <2>5. \/ Become(j, good) /\ delta' = [delta EXCEPT ![j] = d]
        \/ Become(j, bad) /\ delta' = delta
    BY <1>4 DEF ReadDelta
  <2> HIDE DEF good, bad, d
  <2>6. CASE Become(j, good) /\ delta' = [delta EXCEPT ![j] = d]
    <3>1. Fits(metrics, good, d) BY <2>2, <2>3, <2>4 DEF Fits
    <3>2. Done(metrics, good) BY <1>1, <2>1, <2>4 DEF Done
    <3> QED BY <2>1, <2>3, <2>4, <2>6, <3>1, <3>2, DailyJob
  <2>7. CASE Become(j, bad) /\ delta' = delta
    <3>1. Fits(metrics, bad, delta[j]) /\ Done(metrics, bad) BY <2>4 DEF Fits, Done
    <3> QED BY <1>1, <2>1, <2>4, <2>7, <3>1, DailyJob
  <2> QED BY <2>5, <2>6, <2>7
<1>5. CASE FindDay(j)
  <2> DEFINE found == DayRows(metrics, job[j].today) # {}
             good == [job[j] EXCEPT !.pc = "daily", !.found = found]
  <2>1. job[j].pc = "find_day" /\ UNCHANGED <<day, metrics>> BY <1>5 DEF FindDay
  <2>2. \/ Become(j, good) /\ delta' = delta
        \/ DayDone(j, TRUE)
    BY <1>5 DEF FindDay
  <2>3. found \in BOOLEAN OBVIOUS
  <2> HIDE DEF found
  <2>4. /\ good \in JobState /\ good.pc = "daily" /\ good.today = job[j].today
        /\ good.followers = job[j].followers /\ good.seen = job[j].seen
        /\ good.failures = job[j].failures /\ good.owed = job[j].owed
        /\ good.found = found
    BY <1>1, <2>3 DEF JobState, Phases
  <2>5. CASE Become(j, good) /\ delta' = delta
    <3> HIDE DEF good
    <3>1. Fits(metrics, good, delta[j]) BY <1>1, <2>1, <2>4 DEF Fits, found
    <3>2. Done(metrics, good) BY <1>1, <2>1, <2>4 DEF Done
    <3> QED BY <1>1, <2>1, <2>4, <2>5, <3>1, <3>2, DailyJob
  <2>6. CASE DayDone(j, TRUE)
    <3> DEFINE new == [job[j] EXCEPT !.pc = "meta", !.followers = Unreadable,
                                     !.found = FALSE, !.failures = @ \/ TRUE]
    <3>1. /\ new \in JobState /\ new.pc = "meta" /\ new.today = job[j].today
          /\ new.failures
      BY <1>1, DayDoneType
    <3>2. Become(j, new) /\ delta' = [delta EXCEPT ![j] = <<>>]
      BY <2>6 DEF DayDone
    <3> HIDE DEF new
    <3>3. Fits(metrics, new, <<>>) /\ Done(metrics, new)
      BY <1>1, <2>1, <3>1 DEF Fits, Done
    <3> QED BY <1>1, <2>1, <3>1, <3>2, <3>3, DailyJob
  <2> QED BY <2>2, <2>5, <2>6 DEF good, found
<1>9. CASE PostsDone(j)
  <2> DEFINE new == Reporting(job[j])
  <2>1. job[j].pc = "posts" /\ job[j].todo = {} BY <1>9 DEF PostsDone
  <2>2. /\ new \in JobState /\ new.pc = "report" /\ new.today = job[j].today
        /\ new.failures = job[j].failures /\ new.owed = job[j].owed
    BY <1>1, ReportingType DEF Reporting, IdleJob
  <2> HIDE DEF new
  <2>3. Fits(metrics, new, delta[j]) BY <1>1, <2>1, <2>2 DEF Fits
  <2>4. Done(metrics, new) BY <1>1, <2>1, <2>2 DEF Done
  <2> QED BY <1>1, <1>9, <2>2, <2>3, <2>4, DailyJob DEF PostsDone, new
<1>6. CASE Report(j)
  <2>1. PICK failed \in BOOLEAN :
           Become(j, [job[j] EXCEPT !.pc = "log", !.failures = @ \/ failed])
    BY <1>6 DEF Report
  <2> DEFINE new == [job[j] EXCEPT !.pc = "log", !.failures = @ \/ failed]
  <2>2. job[j].failures \/ failed \in BOOLEAN OBVIOUS
  <2>3. /\ new \in JobState /\ new.pc = "log" /\ new.today = job[j].today
        /\ new.failures = (job[j].failures \/ failed) /\ new.owed = job[j].owed
    BY <1>1, <2>2 DEF JobState, Phases
  <2> HIDE DEF new
  <2>4. job[j].pc = "report" BY <1>6 DEF Report
  <2>5. Fits(metrics, new, delta[j]) BY <1>1, <2>3, <2>4 DEF Fits
  <2>6. Done(metrics, new) BY <1>1, <2>3, <2>4 DEF Done
  <2> QED BY <1>1, <1>6, <2>1, <2>3, <2>5, <2>6, DailyJob DEF Report, new
<1>7. CASE Log(j)
  BY <1>1, <1>7, IdleInOrder, DailyJob DEF Log
<1>8. CASE Crash(j)
  BY <1>1, <1>8, IdleInOrder, DailyJob DEF Crash
<1> QED BY <1>2, <1>3, <1>4, <1>5, <1>6, <1>7, <1>8, <1>9

\* The feedback is read: what a job without failures owes is to be recorded.
LEMMA DailyReadMeta ==
    ASSUME IInv, DailyInv, NEW j \in Jobs, ReadMeta(j) PROVE DailyInv'
<1>1. /\ job[j] \in JobState /\ delta[j] \in Deltas
      /\ delta = [delta EXCEPT ![j] = delta[j]]
      /\ Fits(metrics, job[j], delta[j]) /\ Done(metrics, job[j])
  BY DEF IInv, PostsTypeOK, DailyInv
<1>2. PICK blind \in BOOLEAN :
         Become(j, [job[j] EXCEPT !.pc = "posts", !.since = {}, !.blind = blind,
                       !.todo = {p \in Posts : job[j].seen[p] # NotSeen},
                       !.meta = IF blind THEN Blank ELSE Feedback])
  BY DEF ReadMeta
<1> DEFINE due == {p \in Posts : job[j].seen[p] # NotSeen}
           meta == IF blind THEN Blank ELSE Feedback
           new == [job[j] EXCEPT !.pc = "posts", !.since = {}, !.blind = blind,
                                 !.todo = due, !.meta = meta]
<1>3. due \in SUBSET Posts OBVIOUS
<1>4. meta \in [Posts -> Marks]
  BY FeedbackType
<1>5. (\A p \in job[j].owed : job[j].seen[p] # NotSeen) => job[j].owed \subseteq due
  BY <1>1 DEF JobState
<1> HIDE DEF due, meta
<1>6. /\ new \in JobState /\ new.todo = due /\ new.pc = "posts"
      /\ new.today = job[j].today /\ new.failures = job[j].failures
      /\ new.owed = job[j].owed
  BY <1>1, <1>3, <1>4 DEF JobState, Phases
<1>7. Become(j, new) /\ job[j].pc = "meta" BY <1>2 DEF due, meta, ReadMeta
<1> HIDE DEF new
<1>8. Fits(metrics, new, delta[j]) BY <1>1, <1>6, <1>7 DEF Fits
<1>9. Done(metrics, new) BY <1>1, <1>5, <1>6, <1>7 DEF Done
<1> QED BY <1>1, <1>6, <1>7, <1>8, <1>9, DailyJob DEF ReadMeta

\* A post that is done with is not owed any more, or a failure is noted.
LEMMA PassedInOrder ==
    ASSUME IInv, DailyInv, NEW j \in Jobs, job[j].pc \in {"posts", "post"},
           NEW p \in Posts, NEW new \in {Recorded(job[j], p), Failed(job[j], p)}
    PROVE  new \in JobState /\ Fits(metrics, new, delta[j]) /\ Done(metrics, new)
<1>1. /\ job[j] \in JobState /\ Fits(metrics, job[j], delta[j]) /\ Done(metrics, job[j])
  BY DEF IInv, PostsTypeOK, DailyInv
<1>2. PassedBy(job[j], p, new)
  BY <1>1, PassedType
<1> QED BY <1>1, <1>2 DEF PassedBy, Fits, Done

\* The row of a post is looked for.
LEMMA DailyFindPost ==
    ASSUME IInv, DailyInv, NEW j \in Jobs, FindPost(j) PROVE DailyInv'
<1>1. /\ job[j] \in JobState /\ delta[j] \in Deltas /\ job[j].pc = "posts"
      /\ delta' = [delta EXCEPT ![j] = delta[j]] /\ UNCHANGED <<day, metrics>>
      /\ Fits(metrics, job[j], delta[j]) /\ Done(metrics, job[j])
  BY DEF IInv, PostsTypeOK, DailyInv, FindPost
<1>2. PICK p \in Posts : \/ Become(j, [job[j] EXCEPT !.pc = "post", !.found = posts[p] # <<>>])
                          \/ Become(j, Failed(job[j], p))
  BY DEF FindPost
<1>3. CASE Become(j, Failed(job[j], p))
  BY <1>1, <1>3, PassedInOrder, DailyJob
<1>4. CASE Become(j, [job[j] EXCEPT !.pc = "post", !.found = posts[p] # <<>>])
  <2> DEFINE found == posts[p] # <<>>
             new == [job[j] EXCEPT !.pc = "post", !.found = found]
  <2>1. found \in BOOLEAN OBVIOUS
  <2> HIDE DEF found
  <2>2. /\ new \in JobState /\ new.pc = "post" /\ new.today = job[j].today
        /\ new.todo = job[j].todo /\ new.owed = job[j].owed
        /\ new.failures = job[j].failures
    BY <1>1, <2>1 DEF JobState, Phases
  <2>3. Become(j, new) BY <1>4 DEF found
  <2> HIDE DEF new
  <2>4. Fits(metrics, new, delta[j]) /\ Done(metrics, new)
    BY <1>1, <2>2 DEF Fits, Done
  <2> QED BY <1>1, <2>2, <2>3, <2>4, DailyJob
<1> QED BY <1>2, <1>3, <1>4

\* A post is recorded, or a failure is noted.
LEMMA DailyRecordPost ==
    ASSUME IInv, DailyInv, NEW j \in Jobs, RecordPost(j) PROVE DailyInv'
<1>1. /\ PostsTypeOK
      /\ \A i \in Jobs : Fits(metrics, job[i], delta[i]) /\ Done(metrics, job[i])
      /\ job[j].pc = "post" /\ UNCHANGED <<day, metrics, delta>>
  BY DEF IInv, DailyInv, RecordPost
<1>2. PICK p \in Posts : \E new \in {Recorded(job[j], p), Failed(job[j], p)} :
         job' = [JobsAfterWrite(p) EXCEPT ![j] = new] \/ job' = [job EXCEPT ![j] = new]
  BY DEF RecordPost, Become
<1>3. PICK new \in {Recorded(job[j], p), Failed(job[j], p)} :
         job' = [JobsAfterWrite(p) EXCEPT ![j] = new] \/ job' = [job EXCEPT ![j] = new]
  BY <1>2
<1>4. /\ job'[j] = new
      /\ \A i \in Jobs : i # j => job'[i] = job[i] \/ job'[i] = JobsAfterWrite(p)[i]
  BY <1>1, <1>3, AfterWrite DEF PostsTypeOK
<1>5. Fits(metrics, new, delta[j]) /\ Done(metrics, new)
  BY <1>1, PassedInOrder
<1>6. \A i \in Jobs : Fits(metrics, job'[i], delta'[i]) /\ Done(metrics, job'[i])
  BY <1>1, <1>4, <1>5, OthersSame, SameFits
<1> QED BY <1>1, <1>6, DailyFrame DEF DailyInv

\* The steps of the dashboard are no concern of the jobs here.
LEMMA DailyTab ==
    ASSUME IInv, DailyInv, NEW s \in Sessions, TabNext(s) PROVE DailyInv'
<1>1. /\ PostsTypeOK /\ tab[s].post \in Posts
      /\ \A i \in Jobs : Fits(metrics, job[i], delta[i]) /\ Done(metrics, job[i])
  BY DEF IInv, PostsTypeOK, TabState, DailyInv
<1>2. /\ UNCHANGED <<day, metrics, delta>>
      /\ job' = job \/ job' = JobsAfterWrite(tab[s].post)
  BY DEF TabNext, ReadRow, WriteFeedback, LoseFeedback
<1>3. \A i \in Jobs : Fits(metrics, job'[i], delta'[i]) /\ Done(metrics, job'[i])
  BY <1>1, <1>2, OthersSame, SameFits
<1> QED BY <1>2, <1>3, DailyFrame DEF DailyInv

\* The row of the day is written: its delta fits, the rows of the days before are as
\* they were, and no other job is at a row of another day.
LEMMA DailyWriteDay ==
    ASSUME IInv, DailyInv, NEW j \in Jobs, WriteDay(j) PROVE DailyInv'
<1> DEFINE row == [date |-> job[j].today, followers |-> job[j].followers,
                   delta |-> delta[j]]
<1>1. /\ job[j] \in JobState /\ delta[j] \in Deltas /\ day \in Nat /\ day > 0
      /\ metrics \in Seq(DayRow) /\ <<>> \in Deltas /\ delta \in [Jobs -> Deltas]
      /\ \A i \in Jobs : Fits(metrics, job[i], delta[i]) /\ Done(metrics, job[i])
  BY DEF IInv, PostsTypeOK, DailyInv, Deltas
<1>2. /\ job[j].pc = "daily" /\ UNCHANGED day
      /\ \E raised \in BOOLEAN :
            /\ metrics' \in (IF job[j].found
                             THEN {Updated(metrics, FirstOfDay(metrics, row.date), row)}
                             ELSE Added(metrics, row))
                            \cup (IF raised THEN {metrics} ELSE {})
            /\ DayDone(j, raised)
  BY DEF WriteDay
<1>3. PICK raised \in BOOLEAN :
         /\ metrics' \in (IF job[j].found
                          THEN {Updated(metrics, FirstOfDay(metrics, row.date), row)}
                          ELSE Added(metrics, row))
                         \cup (IF raised THEN {metrics} ELSE {})
         /\ DayDone(j, raised)
  BY <1>2
<1> DEFINE new == [job[j] EXCEPT !.pc = "meta", !.followers = Unreadable,
                                 !.found = FALSE, !.failures = @ \/ raised]
<1>4. job[j].found => DayRows(metrics, row.date) # {}
  BY <1>1, <1>2 DEF Fits
<1>5. /\ new \in JobState /\ new.pc = "meta" /\ new.today = job[j].today
      /\ new.seen = job[j].seen /\ new.owed = job[j].owed
      /\ new.failures = (job[j].failures \/ raised)
  <2>1. job[j].failures \/ raised \in BOOLEAN OBVIOUS
  <2> QED BY <1>1, <2>1 DEF JobState, Phases
<1>6. /\ job[j].today = day /\ job[j].followers \in 0..MaxFans
      /\ DeltaFits(metrics, day, job[j].followers, delta[j])
  BY <1>1, <1>2 DEF Fits, JobState
<1>7. /\ row \in DayRow /\ row.date = day /\ row.followers = job[j].followers
      /\ row.delta = delta[j]
  BY <1>1, <1>6 DEF DayRow
<1> HIDE DEF new, row
<1>8. /\ metrics' \in Upserted(metrics, row) \/ (raised /\ metrics' = metrics)
      /\ Become(j, new) /\ delta' = [delta EXCEPT ![j] = <<>>]
  BY <1>3, <1>4 DEF Upserted, DayDone, new, row
<1>9. /\ job'[j] = new /\ \A i \in Jobs : i # j => job'[i] = job[i]
      /\ delta' \in [Jobs -> Deltas] /\ \A i \in Jobs : i # j => delta'[i] = delta[i]
  BY <1>1, <1>8 DEF Become, IInv, PostsTypeOK
<1>10. CASE raised /\ metrics' = metrics
  <2>1. Fits(metrics, new, <<>>) /\ Done(metrics, new)
    BY <1>5, <1>6, <1>10 DEF Fits, Done
  <2> QED BY <1>1, <1>2, <1>5, <1>8, <1>10, <2>1, DailyJob
<1>11. CASE metrics' \in Upserted(metrics, row)
  <2>1. /\ metrics' \in Seq(DayRow) /\ DOMAIN metrics \subseteq DOMAIN metrics'
        /\ \E at \in DOMAIN metrics' : metrics'[at] = row
    BY <1>1, <1>7, <1>11, UpsertPuts
  <2>2. \A k \in DOMAIN metrics' :
           \/ k \in DOMAIN metrics /\ metrics'[k] = metrics[k]
           \/ metrics'[k] = row /\ (k \in DOMAIN metrics => metrics[k].date = row.date)
    BY <1>1, <1>7, <1>11, UpsertPuts
  <2>3. \A k \in DOMAIN metrics :
           metrics[k] \in DayRow /\ metrics[k].date \in Nat /\ metrics[k].date <= day
    BY <1>1, DaysOfRows DEF DailyInv
  <2>4. \A date \in Nat : \A followers, d : date <= day =>
           (DeltaFits(metrics', date, followers, d)
               <=> DeltaFits(metrics, date, followers, d))
    BY <1>1, <1>7, <1>11, UpsertKeepsEarlier
  <2>5. \A k \in DOMAIN metrics' : metrics'[k].date <= day
    BY <1>1, <1>7, <2>2, <2>3
  <2>6. \A k \in DOMAIN metrics' : metrics'[k].date > 0 =>
           DeltaFits(metrics', metrics'[k].date, metrics'[k].followers, metrics'[k].delta)
    <3> SUFFICES ASSUME NEW k \in DOMAIN metrics', metrics'[k].date > 0
                 PROVE  DeltaFits(metrics', metrics'[k].date, metrics'[k].followers,
                                  metrics'[k].delta)
      OBVIOUS
    <3>1. CASE metrics'[k] = row BY <1>1, <1>6, <1>7, <2>4, <3>1
    <3>2. CASE metrics'[k] # row
      <4>1. k \in DOMAIN metrics /\ metrics'[k] = metrics[k] BY <2>2, <3>2
      <4>2. DeltaFits(metrics, metrics[k].date, metrics[k].followers, metrics[k].delta)
        BY <4>1, DeltaRightIs DEF DailyInv
      <4> QED BY <2>3, <2>4, <4>1, <4>2
    <3> QED BY <3>1, <3>2
  <2>7. DeltaRight' BY <2>6 DEF DeltaRight, DeltaFits, Earlier
  <2>8. \A date : (\E i \in DOMAIN metrics : metrics[i].date = date)
                    => \E i \in DOMAIN metrics' : metrics'[i].date = date
    BY <2>1, <2>2
  <2>9. ASSUME NEW i \in Jobs
        PROVE  Fits(metrics', job'[i], delta'[i]) /\ Done(metrics', job'[i])
    <3>1. CASE i = j
      <4>1. \E k \in DOMAIN metrics' : metrics'[k].date = job[j].today
        BY <1>6, <1>7, <2>1
      <4>2. Fits(metrics', new, delta'[i]) BY <1>5, <1>6 DEF Fits
      <4>3. Done(metrics', new) BY <1>1, <1>2, <1>5, <4>1 DEF Done
      <4> QED BY <1>9, <3>1, <4>2, <4>3
    <3>2. CASE i # j
      <4>1. Fits(metrics', job[i], delta[i])
        <5>1. job[i].pc = "daily" /\ job[i].found => job[i].today = day
                 /\ \E k \in DOMAIN metrics' : metrics'[k].date = job[i].today
          BY <1>1, <2>8 DEF Fits, DayRows
        <5> QED BY <1>1, <2>4, <5>1 DEF Fits, DayRows
      <4>2. Done(metrics', job[i]) BY <1>1, <2>8 DEF Done
      <4> QED BY <1>9, <3>2, <4>1, <4>2
    <3> QED BY <3>1, <3>2
  <2>10. \A i \in Jobs : (Fits(metrics, job[i], delta[i]) /\ Done(metrics, job[i]))'
    BY <1>2, <2>9 DEF Fits, Done
  <2> QED BY <1>1, <1>2, <1>9, <2>1, <2>5, <2>7, <2>10 DEF DailyInv
<1> QED BY <1>8, <1>10, <1>11

\* Every step keeps the invariant.
LEMMA NextDaily == IInv /\ DailyInv /\ [Next]_vars => DailyInv'
<1> SUFFICES ASSUME IInv, DailyInv, [Next]_vars PROVE DailyInv'
  OBVIOUS
<1>1. CASE \E j \in Jobs : JobNext(j)
  BY <1>1, DailyQuiet, DailyReadMeta, DailyFindPost, DailyRecordPost, DailyWriteDay
     DEF JobNext
<1>2. CASE \E s \in Sessions : TabNext(s)
  BY <1>2, DailyTab
<1>3. CASE Midnight
  <2>1. /\ day' = day + 1 /\ day \in Nat /\ UNCHANGED <<metrics, job, delta>>
        /\ \A j \in Jobs : job[j].pc = "idle"
    BY <1>3 DEF Midnight, IInv, PostsTypeOK
  <2>2. \A i \in DOMAIN metrics : metrics[i].date \in Nat /\ metrics[i].date <= day
    BY DaysOfRows DEF DailyInv
  <2>3. \A i \in DOMAIN metrics : metrics[i].date <= day' BY <2>1, <2>2
  <2>4. \A j \in Jobs : (Fits(metrics, job[j], delta[j]) /\ Done(metrics, job[j]))'
    BY <2>1 DEF DailyInv, Fits, Done
  <2> QED BY <2>1, <2>3, <2>4 DEF DailyInv, DeltaRight
<1>4. CASE UNCHANGED vars
  BY <1>4, DailyFrame DEF vars, DailyInv
<1> QED BY <1>1, <1>2, <1>3, <1>4 DEF Next

\* The invariant holds throughout.
LEMMA AlwaysDaily == Spec => []DailyInv
BY InitDaily, NextDaily, InvIInv, PTL DEF Spec

\* Types, for any number of jobs, sessions and posts; the delta of the day is a change
\* of readable counts, or blank.
THEOREM DailyTypeCorrect == Spec => []TypeOK
<1>1. IInv /\ DailyInv => TypeOK BY DEF IInv, PostsTypeOK, DailyInv, TypeOK
<1> QED BY <1>1, InvIInv, AlwaysDaily, PTL

\* follower_delta is right on every row since the first run (upsert.py:30-61), for any
\* number of overlapping jobs, reruns of a day, days missing and counts typed over.
THEOREM DeltasAreRight == Spec => []DeltaRight
<1>1. DailyInv => DeltaRight BY DEF DailyInv
<1> QED BY <1>1, AlwaysDaily, PTL

\* A job that logs "ok" has recorded every post it collected, however few Threads
\* answered with, and the row of its day (run_daily.py:320-326), for any number of jobs
\* and however their calls fail.
THEOREM OkIsRecorded == Spec => []OkMeansRecorded
<1>1. DailyInv => OkMeansRecorded BY DEF DailyInv, Done, OkMeansRecorded
<1> QED BY <1>1, AlwaysDaily, PTL
=============================================================================
