----------------------------- MODULE QueueSystem -----------------------------
(* The publisher and the dashboard on one sheet: the runs and the clock of    *)
(* PublishQueue, with the sessions of Dashboard in place of its one-step      *)
(* human.  The only thing they share is the sheet (and the consent history).  *)
EXTENDS PublishQueue

CONSTANT Sessions   \* dashboard sessions that may be open at once

\* A time can be respelled by the dashboard.
ASSUME RespellAssumption ==
    \A c \in Cells : c.form # "bad" => [c EXCEPT !.form = "dash"] \in Cells

VARIABLES dpc, op, items, lead, copy

D == INSTANCE Dashboard

tabs == <<dpc, op, items, lead, copy>>
allVars == <<vars, tabs>>

SystemInit == Init /\ D!SessionInit

Publisher == (PublisherNext \/ Tick) /\ UNCHANGED tabs
Human == D!SessionNext /\ UNCHANGED <<feed, now, run>>

SystemNext == Publisher \/ Human

SystemSpec == SystemInit /\ [][SystemNext]_allVars

-----------------------------------------------------------------------------
\* Sessions and publisher keep the types of the sheet and of the session state; a
\* session that is about to write holds a whole row.
SystemTypeOK ==
    /\ TypeOK
    /\ dpc \in [Sessions -> {"idle", "items", "write"}]
    /\ op \in [Sessions -> {"approve", "save", "feedback"}]
    /\ items \in [Sessions -> SUBSET Rows]
    /\ lead \in [Sessions -> SUBSET Rows]
    /\ copy \in [Sessions -> Row \cup {<<>>}]
    /\ \A s \in Sessions : dpc[s] = "write" => copy[s] \in Row

\* The step of session s that writes row r for one of ops.
Writes(s, r, ops) ==
    r \in items[s] /\ op[s] \in ops /\ dpc[s] = "write" /\ dpc'[s] # "write"

\* "they MERGE with the existing row so unrelated columns ... are never wiped"
\* (service.py:3-7, README.md:293), of both writers: a column of a row changes
\* only in a step that means to change it.
ColumnsKept ==
    [][\A r \in Rows :
          /\ queue'[r].feedback # queue[r].feedback
                => \E s \in Sessions : Writes(s, r, {"feedback"})
          /\ (\/ queue'[r].text # queue[r].text
              \/ queue'[r].scheduled_at # queue[r].scheduled_at)
                => \E s \in Sessions : Writes(s, r, {"approve", "save"})
          /\ (\/ queue'[r].posted_post_id # queue[r].posted_post_id
              \/ queue'[r].posted_at # queue[r].posted_at)
                => \E p \in Runs : r \in left[p] /\ pc[p] \in {"record", "failing"}]_allVars

\* TerminalRows over the whole system: no run and no session changes a row that
\* is posted or failed (queue.py:36-37).
FinalForAll ==
    [][\A r \in Rows : queue[r].status \in Terminal => queue'[r] = queue[r]]_allVars

\* "全行をまとめて approved に", "1回の実行でツリー全体をまとめて公開" (README.md:349-350:
\* approving a thread approves all its rows, one run publishes all of it): when no
\* run and no session is at work, no approved reply is left behind a parent that
\* is posted already.
WholeThread ==
    (\A p \in Runs : pc[p] = "idle") /\ (\A s \in Sessions : dpc[s] = "idle")
        => \A r \in Rows : queue[r].status = "approved"
                              => queue[Parent[r]].status # "posted"
=============================================================================
