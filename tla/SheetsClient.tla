------------------------------ MODULE SheetsClient ------------------------------
(* The Sheets client (src/src/clients/sheets_client.py) over one sheet:       *)
(* append_row and upsert_row, whose read of the sheet and write of one row    *)
(* are two requests, each tried up to MaxAttempts times.  An answer may be    *)
(* lost after the server did what was asked, and then the request is sent     *)
(* again.  The clients are the jobs and the dashboard sessions; each has its  *)
(* own connection and nothing locks the sheet.                                *)
(*                                                                            *)
(* A row is its key and the rest of it.  Row numbers here count data rows,    *)
(* the header is row 0; nobody sorts or deletes rows by hand.                 *)
EXTENDS Integers, Sequences

CONSTANTS
    Clients,
    Keys,          \* values of the key column
    Vals,          \* contents of the other columns
    FirstRows,     \* the sheet at the start
    MaxAttempts,   \* _MAX_ATTEMPTS
    MaxRows        \* bound: length of the sheet

SheetRow == [key : Keys, val : Vals]

ASSUME SheetsAssumption ==
    /\ FirstRows \in Seq(SheetRow)
    /\ \A i, k \in DOMAIN FirstRows : FirstRows[i].key = FirstRows[k].key => i = k
    /\ SheetRow # {} /\ MaxAttempts \in Nat \ {0} /\ MaxRows \in Nat

VARIABLES
    rows,      \* the data rows of the sheet
    pc,        \* per client: "idle", or the request it is making
    call,      \* per client: the row it is to write
    at,        \* per client: the row number it found, 0 if none
    tries,     \* per client: attempts of this request that failed
    answer,    \* per client: how its last call ended
    wrote,     \* history, per client: this call has changed the sheet
    doubted    \* history: keys an append was repeated or contested for

vars == <<rows, pc, call, at, tries, answer, wrote, doubted>>

RowsWith(k) == {i \in DOMAIN rows : rows[i].key = k}

Init ==
    /\ rows = FirstRows
    /\ pc = [c \in Clients |-> "idle"]
    /\ call = [c \in Clients |-> CHOOSE row \in SheetRow : TRUE]
    /\ at = [c \in Clients |-> 0]
    /\ tries = [c \in Clients |-> 0]
    /\ answer = [c \in Clients |-> "none"]
    /\ wrote = [c \in Clients |-> FALSE]
    /\ doubted = {}

\* Some other client is appending a row of key k.
Contested(c, k) == \E d \in Clients \ {c} : pc[d] = "append" /\ call[d].key = k

-----------------------------------------------------------------------------
\* _execute_with_retry.

\* The request moves to `next`, or the call returns, and attempts count anew.
Request(c, next) ==
    /\ pc' = [pc EXCEPT ![c] = next]
    /\ tries' = [tries EXCEPT ![c] = 0]
Return(c, a) ==
    /\ Request(c, "idle")
    /\ at' = [at EXCEPT ![c] = 0]
    /\ answer' = [answer EXCEPT ![c] = a]

Resend(c) ==
    /\ tries' = [tries EXCEPT ![c] = @ + 1]
    /\ UNCHANGED <<pc, at, answer>>

\* Mutant: one attempt too many.
RetryOnceMore(c) ==
    \/ tries[c] < MaxAttempts /\ Resend(c)
    \/ tries[c] = MaxAttempts /\ Return(c, "error")
\* Mutant: the attempts are never counted.
RetryForever(c) == UNCHANGED <<tries, pc, at, answer>>
\* Mutant: after the last attempt the call returns as if it was done.
RetryThenOk(c) ==
    \/ tries[c] + 1 < MaxAttempts /\ Resend(c)
    \/ tries[c] + 1 = MaxAttempts /\ Return(c, "ok")

\* A transient error: the request is sent again, the last time it is raised.
Retry(c) ==
    \/ tries[c] + 1 < MaxAttempts /\ Resend(c)
    \/ tries[c] + 1 = MaxAttempts /\ Return(c, "error")

\* The request fails on the way there, or is refused, which is raised at once.
Fail(c) ==
    /\ pc[c] # "idle"
    /\ Retry(c) \/ Return(c, "error")
    /\ UNCHANGED <<rows, call, wrote, doubted>>

-----------------------------------------------------------------------------
Calling(c, row, request) ==
    /\ pc[c] = "idle"
    /\ Request(c, request)
    /\ call' = [call EXCEPT ![c] = row]
    /\ answer' = [answer EXCEPT ![c] = "none"]
    /\ wrote' = [wrote EXCEPT ![c] = FALSE]
    /\ UNCHANGED <<rows, at>>

\* upsert_row begins with read_rows.
Upsert(c, row) == Calling(c, row, "read") /\ UNCHANGED doubted

\* append_row does not look at the sheet.
AppendRow(c, row) ==
    /\ Calling(c, row, "append")
    /\ doubted' = IF RowsWith(row.key) # {} \/ Contested(c, row.key)
                  THEN doubted \cup {row.key} ELSE doubted

\* Mutant: the row after the one with the key.
FoundNext(k, n) ==
    IF RowsWith(k) = {} THEN n = 0
    ELSE n - 1 \in RowsWith(k) /\ \A i \in RowsWith(k) : n - 1 <= i
\* Mutant: the last row of the sheet is not looked at.
FoundButLast(k, n) ==
    LET hits == RowsWith(k) \ {Len(rows)}
    IN IF hits = {} THEN n = 0 ELSE n \in hits /\ \A i \in hits : n <= i

\* n is the number of the first row with key k, 0 if there is none.
Found(k, n) ==
    IF RowsWith(k) = {} THEN n = 0
    ELSE n \in RowsWith(k) /\ \A i \in RowsWith(k) : n <= i

\* The rows arrive: the key is on one of them, or a row will be appended.
Read(c) ==
    LET k == call[c].key
    IN /\ pc[c] = "read"
       /\ \E n \in 0..Len(rows) :
             /\ Found(k, n)
             /\ at' = [at EXCEPT ![c] = n]
             /\ Request(c, IF n = 0 THEN "append" ELSE "update")
             /\ doubted' = IF n = 0 /\ Contested(c, k) THEN doubted \cup {k} ELSE doubted
       /\ UNCHANGED <<rows, call, answer, wrote>>

\* The server did what was asked, and the answer arrives or is lost.
Done(c) ==
    /\ wrote' = [wrote EXCEPT ![c] = TRUE]
    /\ UNCHANGED call

\* update_row: the row at the number found is overwritten.
Update(c) ==
    /\ pc[c] = "update"
    /\ rows' = [rows EXCEPT ![at[c]] = call[c]]
    /\ Done(c) /\ (Return(c, "ok") \/ Retry(c))
    /\ UNCHANGED doubted

\* append: a row is added, and once more if its answer is lost.
Add(c) ==
    /\ pc[c] = "append" /\ Len(rows) < MaxRows
    /\ rows' = Append(rows, call[c])
    /\ Done(c)
    /\ \/ Return(c, "ok") /\ UNCHANGED doubted
       \/ Retry(c) /\ doubted' = doubted \cup {call[c].key}

Progress(c) == Fail(c) \/ Read(c) \/ Update(c) \/ Add(c)

Next ==
    \E c \in Clients :
        \/ \E row \in SheetRow : Upsert(c, row) \/ AppendRow(c, row)
        \/ Progress(c)

Spec == Init /\ [][Next]_vars

\* A process that waits for an answer gets one or its time-out.
FairSpec == Spec /\ \A c \in Clients : WF_vars(Progress(c))

-----------------------------------------------------------------------------
\* Every variable keeps its type; no request is tried more than MaxAttempts times.
TypeOK ==
    /\ rows \in Seq(SheetRow)
    /\ pc \in [Clients -> {"idle", "read", "update", "append"}]
    /\ call \in [Clients -> SheetRow]
    /\ at \in [Clients -> Nat]
    /\ tries \in [Clients -> 0..MaxAttempts - 1]
    /\ answer \in [Clients -> {"none", "ok", "error"}]
    /\ wrote \in [Clients -> BOOLEAN]
    /\ doubted \subseteq Keys

\* Two rows with one key come from an append whose answer was lost, from two
\* appends of the key at once, or from an append_row of a key that was there: in
\* every other case upsert_row overwrites (sheets_client.py:181-186).
DuplicatesExplained ==
    \A i, n \in DOMAIN rows :
        rows[i].key = rows[n].key /\ i # n => rows[i].key \in doubted

\* upsert_row writes "in place" and never over a row of another key
\* (sheets_client.py:184-185): although others write between its read and its
\* update, the row number it found stays good.
KeysStay ==
    [][\A i \in DOMAIN rows : i \in DOMAIN rows' /\ rows'[i].key = rows[i].key]_vars

\* The client implements the store of its docstring.
Held == [k \in Keys |-> {rows[i].val : i \in RowsWith(k)}]
Busy == [c \in Clients |-> pc[c] # "idle"]
Store == INSTANCE KeyedStore WITH store <- Held, busy <- Busy
ImplementsStore == Store!StoreSpec

\* Every call returns, with an exception at the latest after MaxAttempts attempts of
\* each request (sheets_client.py:68-93).
CallsEnd == \A c \in Clients : pc[c] # "idle" ~> pc[c] = "idle"
=============================================================================
