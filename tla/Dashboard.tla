------------------------------ MODULE Dashboard ------------------------------
(* The dashboard's writes to post_queue (dashboard/service.py, called from    *)
(* the review tab of dashboard/app.py).  A session is one open browser tab:   *)
(* it lists the drafts, and on a click goes through the rows of one card.     *)
(* Each row is read whole (_merge_upsert), changed and written back whole, so *)
(* other actors can step in between any two of these.                         *)
EXTENDS Integers, FiniteSets

CONSTANTS Rows, Parent, SeqNo, Texts, Cells, Comments, Sessions, MaxConsents

VARIABLES
    queue,    \* the sheet, as in PublishQueue
    consent,  \* history: what was approved, as in PublishQueue
    dpc,      \* per session: "idle", "items" (next row to merge), "write"
    op,       \* per session: "approve", "save" or "feedback"
    items,    \* per session: rows of the card it has not written
    lead,     \* per session: the first row of the card, whose time can be edited
    copy      \* per session: `existing`, the row _merge_upsert read

\* normalize_scheduled_at: readable times get the dashboard's spelling, the rest
\* is kept as typed.
Normalized(c) == IF c.form = "bad" THEN c ELSE [c EXCEPT !.form = "dash"]

\* Mutant: failed rows are offered for review again.
CardWithFailed(h) ==
    {r \in Rows : Parent[r] = h /\ queue[r].status \in {"draft", "failed"}}
\* Mutant: the status of a row is not looked at.
CardAnyStatus(h) == {r \in Rows : Parent[r] = h}

\* read_drafts and read_draft_groups: a card holds the rows of one unit that are
\* drafts, in seq order.
Card(h) == {r \in Rows : Parent[r] = h /\ queue[r].status = "draft"}
IsSingle(h) == \A r \in Rows : Parent[r] = h => r = h
FirstOf(S, r) == r \in S /\ \A q \in S : SeqNo[r] <= SeqNo[q]

\* Nothing is open.
SessionInit ==
    /\ dpc = [s \in Sessions |-> "idle"]
    /\ op = [s \in Sessions |-> "save"]
    /\ items = [s \in Sessions |-> {}]
    /\ lead = [s \in Sessions |-> {}]
    /\ copy = [s \in Sessions |-> <<>>]

\* A click on a card.  Feedback can be given to a single post only.
Open(s, h, o) ==
    /\ dpc[s] = "idle" /\ Card(h) # {}
    /\ o = "feedback" => IsSingle(h)
    /\ dpc' = [dpc EXCEPT ![s] = "items"]
    /\ op' = [op EXCEPT ![s] = o]
    /\ items' = [items EXCEPT ![s] = Card(h)]
    /\ lead' = [lead EXCEPT ![s] = {r \in Card(h) : FirstOf(Card(h), r)}]
    /\ UNCHANGED <<queue, consent, copy>>

\* _merge_upsert reads the row as it is now.
ReadRow(s) ==
    /\ dpc[s] = "items"
    /\ \E r \in items[s] : FirstOf(items[s], r) /\ copy' = [copy EXCEPT ![s] = queue[r]]
    /\ dpc' = [dpc EXCEPT ![s] = "write"]
    /\ UNCHANGED <<queue, consent, op, items, lead>>

\* save_queue_feedback: tags, rating and feedback only.
WithFeedback(row, k) == [row EXCEPT !.feedback = k]

\* approve_draft and save_draft: text, time and status.
WithEdits(row, status, t, c) ==
    [row EXCEPT !.status = status, !.text = t, !.scheduled_at = c]

\* In a thread only the first row of the card has a time.
NewTime(s, r, c) == IF r \in lead[s] THEN Normalized(c) ELSE copy[s].scheduled_at
NewStatus(s) == IF op[s] = "approve" THEN "approved" ELSE "draft"

\* Mutant: the `approve` flag is ignored.
MergedAlwaysApproves(s, r, t, c, k) ==
    IF op[s] = "feedback" THEN WithFeedback(copy[s], k)
                          ELSE WithEdits(copy[s], "approved", t, NewTime(s, r, c))
\* Mutant: the text of the form is written whichever button is clicked.
MergedFormText(s, r, t, c, k) ==
    IF op[s] = "feedback" THEN [WithFeedback(copy[s], k) EXCEPT !.text = t]
                          ELSE WithEdits(copy[s], NewStatus(s), t, NewTime(s, r, c))

\* The changes approve_draft, save_draft, save_rows and save_queue_feedback merge
\* into the copy.
Merged(s, r, t, c, k) ==
    IF op[s] = "feedback" THEN WithFeedback(copy[s], k)
                          ELSE WithEdits(copy[s], NewStatus(s), t, NewTime(s, r, c))

\* The page is shown again.
Close(s) ==
    /\ dpc' = [dpc EXCEPT ![s] = "idle"]
    /\ op' = [op EXCEPT ![s] = "save"]
    /\ items' = [items EXCEPT ![s] = {}]
    /\ lead' = [lead EXCEPT ![s] = {}]
    /\ copy' = [copy EXCEPT ![s] = <<>>]

\* upsert_row writes the merged row; save_rows goes on with the next one.  Bound
\* MaxConsents is here.
WriteRow(s, t, c, k) ==
    /\ dpc[s] = "write"
    /\ \E r \in items[s] :
          LET new == Merged(s, r, t, c, k)
          IN /\ FirstOf(items[s], r)
             /\ queue' = [queue EXCEPT ![r] = new]
             /\ consent' = IF op[s] = "approve"
                           THEN consent \cup {<<r, new.text, new.scheduled_at>>}
                           ELSE consent
             /\ Cardinality(consent') <= MaxConsents
             /\ \/ items[s] = {r} /\ Close(s)
                \/ /\ items[s] # {r}
                   /\ items' = [items EXCEPT ![s] = @ \ {r}]
                   /\ dpc' = [dpc EXCEPT ![s] = "items"]
                   /\ copy' = [copy EXCEPT ![s] = <<>>]
                   /\ UNCHANGED <<op, lead>>

\* The read or the write raises: the rest of the card is not written.
GiveUp(s) ==
    /\ dpc[s] \in {"items", "write"} /\ Close(s)
    /\ UNCHANGED <<queue, consent>>

SessionNext ==
    \E s \in Sessions :
        \/ \E h \in Rows, o \in {"approve", "save", "feedback"} : Open(s, h, o)
        \/ ReadRow(s)
        \/ \E t \in Texts, c \in Cells, k \in Comments : WriteRow(s, t, c, k)
        \/ GiveUp(s)
=============================================================================
