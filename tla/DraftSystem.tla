----------------------------- MODULE DraftSystem -----------------------------
(* What becomes of the rows that GenerateDrafts appends: the review in the    *)
(* dashboard, the approval in the sheet itself, and the publisher.  Dashboard *)
(* and publisher find the row they write by its queue_id, and take the first  *)
(* that has it; QueueSystem has their steps in detail, on a sheet where every *)
(* queue_id is on one row.  Here ids may be doubled, and a review of a card   *)
(* and a run of the publisher are one step each.                              *)
EXTENDS GenerateDrafts

VARIABLES
    live,    \* what is live on Threads: a set of `src`
    twice    \* history: what went out when it was live already

feed == <<live, twice>>
allVars == <<vars, feed>>

-----------------------------------------------------------------------------
Doubled(id) == \E i, k \in DOMAIN queue : i # k /\ queue[i].id = id /\ queue[k].id = id

\* `existing` in _merge_upsert, and the offset in upsert_row.
FirstWith(id) ==
    CHOOSE i \in DOMAIN queue :
        queue[i].id = id /\ \A k \in DOMAIN queue : queue[k].id = id => i <= k

\* The rows of a sheet with a thread_id: id without the reply.
InThread(i) ==
    {k \in DOMAIN queue : /\ queue[k].threaded /\ queue[k].id[1] = queue[i].id[1]
                          /\ queue[k].id[2] = queue[i].id[2]}

\* Mutant: the status of the rows is not looked at.
CardOfAny(i) == IF queue[i].threaded THEN InThread(i) ELSE {i}

\* read_draft_groups: the drafts of the unit row i is in.
Card(i) ==
    {k \in (IF queue[i].threaded THEN InThread(i) ELSE {i}) : queue[k].status = "draft"}

\* Fields of a card are keyed by queue_id, and Streamlit (1.39) refuses a page with
\* a key it has seen: a card shows when its ids are different, and of two copies
\* of a row the first.  The card is named by its first row i.
Shown(i) ==
    /\ i \in Card(i) /\ \A k \in Card(i) : i <= k
    /\ \A k, l \in Card(i) : queue[k].id = queue[l].id => k = l
    /\ \A k \in Card(i), l \in DOMAIN queue :
          (queue[l].status = "draft" /\ queue[l].src = queue[k].src) => k <= l

\* approve_draft, save_draft and save_rows: the text of each row of the card is
\* written, with the new status, to the row its id finds.
Review(i, status) ==
    /\ Shown(i)
    /\ queue' = [f \in DOMAIN queue |->
                    IF \E k \in Card(i) : FirstWith(queue[k].id) = f
                    THEN [queue[f] EXCEPT
                             !.status = status,
                             !.src = queue[CHOOSE k \in Card(i) : FirstWith(queue[k].id) = f].src]
                    ELSE queue[f]]
    /\ UNCHANGED <<notes, now, job, past, people, feed>>

\* Step 5 of the repository's README: the status is set in the sheet itself.
ApproveInSheet(i) ==
    /\ queue[i].status = "draft"
    /\ queue' = [queue EXCEPT ![i].status = "approved"]
    /\ UNCHANGED <<notes, now, job, past, people, feed>>

Before(k, i) == queue[k].seq < queue[i].seq \/ (queue[k].seq = queue[i].seq /\ k < i)

\* Mutant: the chain does not end at a row that is not approved.
ChainOfAny(i) ==
    IF queue[i].threaded
    THEN {k \in InThread(i) : \A l \in InThread(i) : (l = k \/ Before(l, k)) =>
            queue[l].seq = Cardinality({m \in InThread(i) : Before(m, l)})}
    ELSE {i}

\* _approved_thread_chain: the rows of the thread sorted by seq, up to the first
\* that is not approved or whose seq is not its position.
Chain(i) ==
    IF queue[i].threaded
    THEN {k \in InThread(i) : \A l \in InThread(i) : (l = k \/ Before(l, k)) =>
            /\ queue[l].status = "approved"
            /\ queue[l].seq = Cardinality({m \in InThread(i) : Before(m, l)})}
    ELSE {i}

\* A run of the publisher whose calls succeed: every row of the chain goes live,
\* and is written back as posted to the row its id finds.
Publish(i) ==
    /\ queue[i].status = "approved" /\ queue[i].seq = 0
    /\ Chain(i) # {}
    /\ live' = live \cup {queue[k].src : k \in Chain(i)}
    /\ twice' = twice \cup (live \cap {queue[k].src : k \in Chain(i)})
    /\ queue' = [f \in DOMAIN queue |->
                    IF \E k \in Chain(i) : FirstWith(queue[k].id) = f
                    THEN [queue[CHOOSE k \in Chain(i) : FirstWith(queue[k].id) = f]
                             EXCEPT !.status = "posted"]
                    ELSE queue[f]]
    /\ UNCHANGED <<notes, now, job, past, people>>

Reviewer == \E i \in DOMAIN queue :
    \/ \E status \in {"approved", "draft"} : Review(i, status)
    \/ ApproveInSheet(i)

Publisher == \E i \in DOMAIN queue : Publish(i)

DraftInit == Init /\ live = {} /\ twice = {}
DraftNext == (GenerateNext /\ UNCHANGED feed) \/ Reviewer \/ Publisher
DraftSpec == DraftInit /\ [][DraftNext]_allVars

-----------------------------------------------------------------------------
\* Every variable holds a value the code can give it; a job at work has a batch,
\* and what it appends next is a row of its answer or comes right after the last.
DraftTypeOK ==
    /\ notes \in Seq(NoteRow) /\ queue \in Seq(QueueRow) /\ now \in Nat
    /\ pc \in [Jobs -> {"idle", "call", "append", "mark"}]
    /\ \A j \in Jobs :
          /\ batch[j] \in 0..Len(made) /\ (pc[j] = "idle" <=> batch[j] = 0)
          /\ \A p \in picked[j] : p.row \in Nat \ {0} /\ p.note \in Notes
          /\ drafts[j] \in Seq(Nat) /\ Len(drafts[j]) <= Count
          /\ at[j] \in (1..(Len(drafts[j]) + 1)) \X Nat
          /\ at[j][1] <= Len(drafts[j]) => at[j][2] <= drafts[j][at[j][1]]
    /\ missed \cup astray \subseteq UnderWay
    /\ live \cup written \subseteq (1..Len(made)) \X (Nat \ {0}) \X Nat
    /\ twice \subseteq live

\* Every queue_id is on one row (they are the key of every write to post_queue), or
\* the row was appended twice, or two generations began in the same minute.
IdsExplained ==
    \A i, k \in DOMAIN queue : i # k /\ queue[i].id = queue[k].id =>
        \/ queue[i].src = queue[k].src /\ queue[i].src \in resent
        \/ \E b, c \in DOMAIN made : b # c /\ made[b].stamp = made[c].stamp
                                     /\ queue[i].id[1] = made[b].stamp

\* Failures and crashes cut a batch at its end only: every reply on the sheet has
\* its parent and the replies before it above it, in its thread unless a twin of
\* the id was written over it, which is what the publisher's
\* contiguous chain (publish_queue.py:236-251) rests on.
ThreadsFromParent ==
    \A i \in DOMAIN queue : \A n \in 0..(queue[i].seq - 1) :
        \E k \in 1..(i - 1) : /\ queue[k].seq = n /\ queue[k].id = [queue[i].id EXCEPT ![3] = n]
                              /\ queue[k].threaded \/ Doubled(queue[k].id)

\* Every row of batch b was appended.
Whole(b) ==
    \A d \in DOMAIN made[b].drafts : \A n \in 0..made[b].drafts[d] : <<b, d, n>> \in written

\* A note is called used (generate_drafts.py:460-465) only after a generation that had
\* it in its prompt appended its whole answer.  That is what the code can promise of
\* "`used`（下書きに反映済み）" (README.md:123, reflected in a draft), and less than it
\* says: with fewer drafts than notes, which is only a warning
\* (generate_drafts.py:359-360), no draft need have come of some of them.
UsedMeansAppended ==
    \A i \in DOMAIN notes : notes[i].status = "used" =>
        \E b \in DOMAIN made : /\ \E p \in made[b].notes : p.note = notes[i].note
                               /\ made[b].drafts # <<>> /\ Whole(b)

\* Every row that a generation read and has gone on from is used and has the note it
\* read there, so that no other takes it up again, unless a mark failed or the notes
\* were changed by hand meanwhile (it marks by the row numbers it read before the
\* model was called, generate_drafts.py:462-470).  A second row of the same text,
\* entered or appended twice, is a note of its own.
NoneLeftNew ==
    \A j \in UnderWay \ (missed \cup astray) :
        \A p \in made[batch[j]].notes \ picked[j] :
            p.row \in DOMAIN notes /\ notes[p.row] = [note |-> p.note, status |-> "used"]

\* "Flip a note's status to used, preserving its other columns" (notes.py:62): apart
\* from the human, and from a job that read the notes before the human changed them
\* by hand, nobody moves or changes a note or makes it new again.
NotesKept ==
    [][(UNCHANGED people /\ \A j \in astray : picked'[j] = picked[j])
          => /\ DOMAIN notes' = DOMAIN notes
             /\ \A i \in DOMAIN notes :
                   /\ notes'[i].note = notes[i].note
                   /\ notes'[i].status \in {notes[i].status, "used"}]_allVars

\* "Repeated runs cannot double-post" (publish_queue.py:19-21) as long as ids are
\* what they are meant to be: only a draft of a doubled id goes out twice.
GoesOutOnce == \A s \in twice : Doubled(<<made[s[1]].stamp, s[2], s[3]>>)

\* "These are terminal and must never be reprocessed" (queue.py:36-37) for rows whose
\* id is not doubled: nobody changes a row that is posted.
FinalUnlessDoubled ==
    [][\A i \in DOMAIN queue :
          (queue[i].status = "posted" /\ queue'[i] # queue[i]) => Doubled(queue[i].id)]_allVars

\* The same of every row.
FinalStays ==
    [][\A i \in DOMAIN queue : queue[i].status = "posted" => queue'[i] = queue[i]]_allVars
=============================================================================
