----------------------------- MODULE PublishOnce -----------------------------
(* What the publisher promises (docstring of src/jobs/publish_queue.py,       *)
(* README.md:193-204 and :349-353), with no runs, clocks, failures or copies  *)
(* of the sheet: a row goes from draft to approved to posted or failed, only  *)
(* an approved row goes live, it goes live at most once, a thread goes live   *)
(* in order, and only what is live is ever called posted.                     *)
EXTENDS Naturals, Sequences

CONSTANTS Rows, Parent, SeqNo

VARIABLES
    status,   \* [Rows -> status cell of the row]
    live      \* the rows that are live on Threads, in the order they went out

Live == {live[i] : i \in DOMAIN live}

Init == status = [r \in Rows |-> "draft"] /\ live = <<>>

Approve(r) ==
    /\ status[r] = "draft"
    /\ status' = [status EXCEPT ![r] = "approved"]
    /\ UNCHANGED live

Publish(r) ==
    /\ status[r] = "approved" /\ r \notin Live
    /\ \A q \in Rows : (Parent[q] = Parent[r] /\ SeqNo[q] < SeqNo[r])
                          => status[q] = "posted"
    /\ live' = Append(live, r)
    /\ UNCHANGED status

Post(r) ==
    /\ status[r] = "approved" /\ r \in Live
    /\ status' = [status EXCEPT ![r] = "posted"]
    /\ UNCHANGED live

\* A failed row may be live or not: its result was lost.
Fail(r) ==
    /\ status[r] = "approved"
    /\ status' = [status EXCEPT ![r] = "failed"]
    /\ UNCHANGED live

Next == \E r \in Rows : Approve(r) \/ Publish(r) \/ Post(r) \/ Fail(r)

Spec == Init /\ [][Next]_<<status, live>>
=============================================================================
