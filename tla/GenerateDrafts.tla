---------------------------- MODULE GenerateDrafts ----------------------------
(* The daily generation (src/jobs/generate_drafts.py) over the notes sheet    *)
(* (src/core/notes.py) and post_queue: it reads the unused notes, asks the    *)
(* model for drafts, appends their rows one by one, and then marks the notes  *)
(* it read as used, by row number.  Generations may overlap:                  *)
(* generate_drafts.yml has a cron trigger, a manual trigger and no            *)
(* concurrency group.  Dashboard tabs append notes, and a human may edit and  *)
(* delete them in the sheet.                                                  *)
(*                                                                            *)
(* Time is counted in minutes since the first generation, as a queue_id is    *)
(* stamped with minutes.                                                      *)
EXTENDS Naturals, Sequences, FiniteSets

CONSTANTS
    Jobs,        \* generations that may be alive at once
    Notes,       \* note texts
    FirstNotes,  \* the notes sheet at first, a sequence of note texts
    Answers,     \* what the model may answer: per draft, its number of replies
    Count,       \* DAILY_DRAFT_COUNT
    MaxNow,      \* bound: the last minute a generation is started in
    MaxBatches,  \* bound: how many generations are started
    MaxRows,     \* bound: length of post_queue
    MaxByPeople, \* bound: changes of people to the notes sheet
    Faults       \* which steps may go wrong, a subset of FaultKinds

\* The model does not answer with usable drafts; an append is not carried out,
\* carried out but not acknowledged, or sent again after a lost answer and so
\* carried out twice; a mark is not written; the process dies.
FaultKinds == {"model", "append", "append_ack", "append_twice", "mark", "crash"}

ASSUME CountAssumption == Count \in Nat \ {0}
ASSUME AnswersAssumption == Answers \subseteq Seq(Nat) \ {<<>>}
ASSUME NotesAssumption == FirstNotes \in Seq(Notes)
ASSUME BoundsAssumption ==
    MaxNow \in Nat /\ MaxBatches \in Nat /\ MaxRows \in Nat /\ MaxByPeople \in Nat
ASSUME FaultsAssumption == Faults \subseteq FaultKinds

VARIABLES
    notes,    \* the notes sheet below its header: a sequence of NoteRow
    queue,    \* the post_queue sheet below its header: a sequence of QueueRow
    now,      \* the minute the last generation was started in
    pc,       \* per job: "idle", "call", "append", "mark"
    batch,    \* per job: its number, an index into made
    picked,   \* per job: notes_to_use, as [row, note], less those it has marked
    drafts,   \* per job: the model's answer
    at,       \* per job: the row it appends next, as <<draft, reply>>
    made,     \* history, per batch: its stamp, notes_to_use as it was read, its answer
    written,  \* history: the rows that were appended, as <<batch, draft, reply>>
    resent,   \* history: those that were appended twice
    missed,   \* history: jobs that failed to mark a note
    astray,   \* history: jobs under way since the notes were changed by hand, or by
              \* the mark of such a job
    people    \* history: how often people changed the notes, in a tab or by hand

sheets == <<notes, queue>>
job    == <<pc, batch, picked, drafts, at>>
past   == <<made, written, resent, missed, astray>>
vars   == <<sheets, now, job, past, people>>

Blank == "blank"
NoteRow == [note : Notes \cup {Blank}, status : {"new", "used", Blank}]

\* queue_id is q<stamp>-<draft> with r<reply> for a reply; seq is its reply, and
\* thread_id is the id of reply 0 when the draft has replies.  `src` names the
\* text: the draft it was written for.
QueueRow ==
    [id : Nat \X Nat \X Nat, seq : Nat, threaded : BOOLEAN, status : {"draft", "approved", "posted"},
     src : Nat \X Nat \X Nat]

\* Sequence s with x at position r; update_row beyond the end leaves blanks.
Put(s, r, x) ==
    [i \in 1..(IF r > Len(s) THEN r ELSE Len(s)) |->
        IF i = r THEN x ELSE IF i <= Len(s) THEN s[i] ELSE [note |-> Blank, status |-> Blank]]

Without(s, r) == [i \in 1..(Len(s) - 1) |-> IF i < r THEN s[i] ELSE s[i + 1]]

-----------------------------------------------------------------------------
Init ==
    /\ notes = [i \in DOMAIN FirstNotes |-> [note |-> FirstNotes[i], status |-> "new"]]
    /\ queue = <<>> /\ now = 0
    /\ pc = [j \in Jobs |-> "idle"]
    /\ batch = [j \in Jobs |-> 0]
    /\ picked = [j \in Jobs |-> {}]
    /\ drafts = [j \in Jobs |-> <<>>]
    /\ at = [j \in Jobs |-> <<1, 0>>]
    /\ made = <<>> /\ written = {} /\ resent = {}
    /\ missed = {} /\ astray = {}
    /\ people = 0

\* read_new_notes, and the first Count of them: row numbers and texts.
NewRows == {i \in DOMAIN notes : notes[i].status = "new"}
\* Mutant: the rows that are new are counted, and not those of the sheet.
NotesToUseByRank ==
    {[row |-> Cardinality({q \in NewRows : q <= i}), note |-> notes[i].note] :
        i \in {r \in NewRows : Cardinality({q \in NewRows : q < r}) < Count}}

NotesToUse ==
    {[row |-> i, note |-> notes[i].note] :
        i \in {r \in NewRows : Cardinality({q \in NewRows : q < r}) < Count}}

\* The time is taken, then the sheets are read.  Nothing else asks for the time.
Start(j) ==
    /\ pc[j] = "idle" /\ Len(made) < MaxBatches
    /\ now' \in now..MaxNow /\ (made = <<>> => now' = now)
    /\ pc' = [pc EXCEPT ![j] = "call"]
    /\ batch' = [batch EXCEPT ![j] = Len(made) + 1]
    /\ picked' = [picked EXCEPT ![j] = NotesToUse]
    /\ made' = Append(made, [stamp |-> now', notes |-> NotesToUse, drafts |-> <<>>])
    /\ UNCHANGED <<sheets, drafts, at, written, resent, missed, astray, people>>

\* The job returns, raises or dies; nothing is left of it but the sheets.
End(j) ==
    /\ pc' = [pc EXCEPT ![j] = "idle"]
    /\ batch' = [batch EXCEPT ![j] = 0]
    /\ picked' = [picked EXCEPT ![j] = {}]
    /\ drafts' = [drafts EXCEPT ![j] = <<>>]
    /\ at' = [at EXCEPT ![j] = <<1, 0>>]
    /\ missed' = missed \ {j} /\ astray' = astray \ {j}

\* Mutant: every draft is taken.
AllDrafts(a) == a

\* build_queue_rows takes the first Count.
FirstDrafts(a) == SubSeq(a, 1, IF Len(a) < Count THEN Len(a) ELSE Count)

\* parse_drafts: any number of usable drafts but none.
Answer(j) ==
    /\ pc[j] = "call"
    /\ \E a \in Answers : /\ drafts' = [drafts EXCEPT ![j] = FirstDrafts(a)]
                         /\ made' = [made EXCEPT ![batch[j]].drafts = FirstDrafts(a)]
    /\ pc' = [pc EXCEPT ![j] = "append"]
    /\ UNCHANGED <<sheets, now, batch, picked, at, written, resent, missed, astray, people>>

\* The call or the parsing raises: nothing is written and no note is marked.
NoAnswer(j) ==
    /\ "model" \in Faults
    /\ pc[j] = "call" /\ End(j)
    /\ UNCHANGED <<sheets, now, made, written, resent, people>>

\* Mutant: the stamp has the day but not the minute.
IdByDay(j) == <<0>> \o at[j]

Id(j) == <<made[batch[j]].stamp>> \o at[j]

\* _queue_row: the row the job is at.
Row(j) ==
    [id |-> Id(j), seq |-> at[j][2], threaded |-> drafts[j][at[j][1]] > 0,
     status |-> "draft", src |-> <<batch[j]>> \o at[j]]

\* The replies of a draft follow it.
NextRow(j) ==
    IF at[j][2] < drafts[j][at[j][1]] THEN <<at[j][1], at[j][2] + 1>> ELSE <<at[j][1] + 1, 0>>

\* Bound MaxRows is here.
Appended(j, copies) ==
    /\ Len(queue) + Len(copies) <= MaxRows
    /\ queue' = queue \o copies
    /\ written' = written \cup {<<batch[j]>> \o at[j]}
    /\ resent' = IF Len(copies) > 1 THEN resent \cup {<<batch[j]>> \o at[j]} ELSE resent

\* What append_row leaves of a row: also, when it is sent again, twice.
Copies(row) == {<<row>>} \cup {c \in {<<row, row>>} : "append_twice" \in Faults}

\* On to the next row, or to the notes.
Advance(j) ==
    /\ at' = [at EXCEPT ![j] = NextRow(j)]
    /\ pc' = [pc EXCEPT ![j] = IF NextRow(j)[1] > Len(drafts[j]) THEN "mark" ELSE "append"]

AppendRow(j) ==
    /\ pc[j] = "append"
    /\ \E c \in Copies(Row(j)) : Appended(j, c)
    /\ Advance(j)
    /\ UNCHANGED <<notes, now, batch, picked, drafts, made, missed, astray, people>>

\* Mutant: a row that cannot be appended is skipped.
SkipRow(j) ==
    /\ "append" \in Faults
    /\ pc[j] = "append"
    /\ Advance(j)
    /\ UNCHANGED <<sheets, now, batch, picked, drafts, past, people>>

\* Mutant: the notes are marked all the same.
AppendFailsThenMark(j) ==
    /\ "append" \in Faults
    /\ pc[j] = "append"
    /\ pc' = [pc EXCEPT ![j] = "mark"]
    /\ UNCHANGED <<sheets, now, batch, picked, drafts, at, past, people>>

\* append_row raises: the rows before it stay, the rest and the marks do not happen.
AppendFails(j) ==
    /\ "append" \in Faults
    /\ pc[j] = "append" /\ End(j)
    /\ UNCHANGED <<sheets, now, made, written, resent, people>>

AppendUnacknowledged(j) ==
    /\ "append_ack" \in Faults
    /\ pc[j] = "append" /\ End(j)
    /\ \E c \in Copies(Row(j)) : Appended(j, c)
    /\ UNCHANGED <<notes, now, made, people>>

\* Mutant: the header is not counted.
PutUsedOneOff(p) ==
    notes' = Put(notes, p.row + 1, [note |-> p.note, status |-> "used"])

\* mark_note_used: the row as it was read, with its new status, at its old number.
PutUsed(p) == notes' = Put(notes, p.row, [note |-> p.note, status |-> "used"])

FirstPicked(j, p) == p \in picked[j] /\ \A q \in picked[j] : p.row <= q.row

\* The loop goes on with the next note.
Marked(j, p) ==
    /\ picked' = [picked EXCEPT ![j] = @ \ {p}]
    /\ UNCHANGED <<queue, now, pc, batch, drafts, at, made, written, resent, people>>

UnderWay == {j \in Jobs : pc[j] # "idle"}

MarkNote(j) ==
    /\ pc[j] = "mark"
    /\ \E p \in picked[j] : FirstPicked(j, p) /\ PutUsed(p) /\ Marked(j, p)
    /\ astray' = IF j \in astray THEN UnderWay ELSE astray
    /\ UNCHANGED missed

\* The error is logged and the loop goes on.
MarkFails(j) ==
    /\ "mark" \in Faults
    /\ pc[j] = "mark"
    /\ \E p \in picked[j] : FirstPicked(j, p) /\ Marked(j, p)
    /\ missed' = missed \cup {j}
    /\ UNCHANGED <<notes, astray>>

\* The run logs "ok".
Finish(j) ==
    /\ pc[j] = "mark" /\ picked[j] = {} /\ End(j)
    /\ UNCHANGED <<sheets, now, made, written, resent, people>>

Crash(j) ==
    /\ "crash" \in Faults
    /\ pc[j] # "idle" /\ End(j)
    /\ UNCHANGED <<sheets, now, made, written, resent, people>>

-----------------------------------------------------------------------------
\* Bound MaxByPeople is here.
PeopleWrite == people < MaxByPeople /\ people' = people + 1

\* add_note, from a dashboard tab; the text may be there already, as when the form is
\* sent again after an error.
AddNote(n) ==
    /\ PeopleWrite
    /\ \E c \in Copies([note |-> n, status |-> "new"]) : notes' = notes \o c
    /\ UNCHANGED <<queue, now, job, past>>

\* While a job is under way; at other times it is only another sheet to read.
ByHand ==
    /\ UnderWay # {} /\ PeopleWrite
    /\ astray' = UnderWay
    /\ UNCHANGED <<queue, now, job, made, written, resent, missed>>

\* A human deletes the row of a note, or writes another note over it.
DeleteNote(i) == ByHand /\ notes' = Without(notes, i)
EditNote(i, n) ==
    /\ ByHand /\ n # notes[i].note
    /\ notes' = Put(notes, i, [note |-> n, status |-> "new"])

-----------------------------------------------------------------------------
JobStep(j) ==
    \/ Start(j) \/ Answer(j) \/ NoAnswer(j)
    \/ AppendRow(j) \/ AppendFails(j) \/ AppendUnacknowledged(j)
    \/ MarkNote(j) \/ MarkFails(j) \/ Finish(j) \/ Crash(j)

NotesByHand == \E i \in DOMAIN notes : DeleteNote(i) \/ \E n \in Notes : EditNote(i, n)

GenerateNext ==
    \/ \E j \in Jobs : JobStep(j)
    \/ \E n \in Notes : AddNote(n)
    \/ NotesByHand
=============================================================================
