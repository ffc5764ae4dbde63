--------------------------- MODULE SheetsClientProofs ---------------------------
(* SheetsClient for any number of clients, keys, rows and attempts.           *)
EXTENDS SheetsClient, TLAPS

\* An update is under way at a row of its own key.
UpdateInv ==
    \A c \in Clients : pc[c] = "update" =>
        at[c] \in 1..Len(rows) /\ rows[at[c]].key = call[c].key

\* A key outside doubt that is being appended is on no row, and by one client only.
AppendInv ==
    \A c \in Clients : pc[c] = "append" /\ call[c].key \notin doubted =>
        /\ \A i \in 1..Len(rows) : rows[i].key # call[c].key
        /\ \A d \in Clients : pc[d] = "append" /\ call[d].key = call[c].key => d = c

IInv == TypeOK /\ UpdateInv /\ AppendInv /\ DuplicatesExplained

\* The sheet starts without duplicates and nobody is at work.
LEMMA InitIInv == Init => IInv
<1> SUFFICES ASSUME Init PROVE IInv
  OBVIOUS
<1> DEFINE any == CHOOSE row \in SheetRow : TRUE
<1>1. any \in SheetRow
  BY SheetsAssumption
<1>2. call = [c \in Clients |-> any]
  BY DEF Init
<1> HIDE DEF any
<1>3. call \in [Clients -> SheetRow]
  BY <1>1, <1>2
<1>4. TypeOK
  BY <1>3, SheetsAssumption DEF Init, TypeOK
<1> QED BY <1>4, SheetsAssumption DEF Init, IInv, UpdateInv, AppendInv, DuplicatesExplained

\* What an answer, good or bad, makes of the clients: that of c goes on as before or
\* has returned, the others do not move.
Answered ==
    /\ pc' \in [Clients -> {"idle", "read", "update", "append"}]
    /\ at' \in [Clients -> Nat] /\ tries' \in [Clients -> 0..MaxAttempts - 1]
    /\ answer' \in [Clients -> {"none", "ok", "error"}]
    /\ \A d \in Clients : pc'[d] = "idle" \/ (pc'[d] = pc[d] /\ at'[d] = at[d])

\* A call that returns.
LEMMA ReturnAnswered ==
    ASSUME TypeOK, NEW c \in Clients, NEW a \in {"ok", "error"}, Return(c, a)
    PROVE  Answered /\ pc'[c] = "idle"
<1>1. /\ pc' = [pc EXCEPT ![c] = "idle"] /\ tries' = [tries EXCEPT ![c] = 0]
      /\ at' = [at EXCEPT ![c] = 0] /\ answer' = [answer EXCEPT ![c] = a]
  BY DEF Return, Request
<1>2. 0 \in 0..MaxAttempts - 1
  BY SheetsAssumption
<1> QED BY <1>1, <1>2 DEF TypeOK, Answered

\* A transient error.
LEMMA RetryAnswered ==
    ASSUME TypeOK, NEW c \in Clients, Retry(c)
    PROVE  Answered
<1>1. CASE tries[c] + 1 < MaxAttempts /\ Resend(c)
  <2>1. tries[c] + 1 \in 0..MaxAttempts - 1
    BY <1>1, SheetsAssumption DEF TypeOK
  <2>2. tries' = [tries EXCEPT ![c] = tries[c] + 1] /\ UNCHANGED <<pc, at, answer>>
    BY <1>1 DEF Resend
  <2> QED BY <2>1, <2>2 DEF TypeOK, Answered
<1>2. CASE Return(c, "error")
  BY <1>2, ReturnAnswered
<1> QED BY <1>1, <1>2 DEF Retry

\* A failed attempt changes nothing on the sheet.
LEMMA FailStep == ASSUME IInv, NEW c \in Clients, Fail(c) PROVE IInv'
<1>1. TypeOK /\ UNCHANGED <<rows, call, wrote, doubted>> /\ pc[c] # "idle"
  BY DEF IInv, Fail
<1>2. Answered
  BY <1>1, RetryAnswered, ReturnAnswered DEF Fail
<1>3. TypeOK'
  BY <1>1, <1>2 DEF TypeOK, Answered
<1>4. UpdateInv'
  BY <1>1, <1>2 DEF Answered, IInv, UpdateInv
<1>5. AppendInv'
  BY <1>1, <1>2 DEF Answered, IInv, AppendInv
<1>6. DuplicatesExplained'
  BY <1>1 DEF IInv, DuplicatesExplained
<1> QED BY <1>3, <1>4, <1>5, <1>6 DEF IInv

\* A call begins.
LEMMA CallStep ==
    ASSUME IInv, NEW c \in Clients, NEW row \in SheetRow,
           Upsert(c, row) \/ AppendRow(c, row)
    PROVE  IInv'
<1>1. PICK request \in {"read", "append"} :
         /\ Calling(c, row, request)
         /\ request = "append" => AppendRow(c, row)
         /\ request = "read" => UNCHANGED doubted
  BY DEF Upsert, AppendRow
<1>2. /\ TypeOK /\ UNCHANGED <<rows, at>> /\ doubted \subseteq doubted'
      /\ doubted' \subseteq doubted \cup {row.key} /\ row.key \in Keys
  BY <1>1 DEF IInv, Calling, AppendRow, SheetRow
<1>3. /\ pc' = [pc EXCEPT ![c] = request] /\ call' = [call EXCEPT ![c] = row]
      /\ tries' = [tries EXCEPT ![c] = 0]
      /\ answer' = [answer EXCEPT ![c] = "none"]
      /\ wrote' = [wrote EXCEPT ![c] = FALSE]
  BY <1>1 DEF Calling, Request
<1>4. TypeOK'
  BY <1>2, <1>3, SheetsAssumption DEF TypeOK
<1>5. UpdateInv'
  BY <1>2, <1>3 DEF IInv, UpdateInv, TypeOK
<1>6. DuplicatesExplained'
  BY <1>2 DEF IInv, DuplicatesExplained
<1>7. AppendInv'
  <2> SUFFICES ASSUME NEW d \in Clients, pc'[d] = "append", call'[d].key \notin doubted'
               PROVE  /\ \A i \in 1..Len(rows) : rows[i].key # call'[d].key
                      /\ \A e \in Clients :
                            pc'[e] = "append" /\ call'[e].key = call'[d].key => e = d
    BY <1>2 DEF AppendInv
  <2>1. ASSUME request = "append"
        PROVE  row.key \notin doubted' => RowsWith(row.key) = {} /\ ~Contested(c, row.key)
    BY <2>1, <1>1 DEF AppendRow
  <2>2. CASE d = c
    BY <1>2, <1>3, <2>1, <2>2 DEF TypeOK, RowsWith, Contested
  <2>3. CASE d # c
    BY <1>2, <1>3, <2>1, <2>3 DEF IInv, AppendInv, TypeOK, Contested
  <2> QED BY <2>2, <2>3
<1> QED BY <1>4, <1>5, <1>6, <1>7 DEF IInv

\* The sheet is read: the row number found is of the key, or no row has it.
LEMMA ReadStep == ASSUME IInv, NEW c \in Clients, Read(c) PROVE IInv'
<1> DEFINE k == call[c].key
<1>1. PICK n \in 0..Len(rows) :
         /\ Found(k, n) /\ at' = [at EXCEPT ![c] = n]
         /\ pc' = [pc EXCEPT ![c] = IF n = 0 THEN "append" ELSE "update"]
         /\ tries' = [tries EXCEPT ![c] = 0]
         /\ doubted' = IF n = 0 /\ Contested(c, k) THEN doubted \cup {k} ELSE doubted
  BY DEF Read, Request
<1>2. TypeOK /\ UNCHANGED <<rows, call, answer, wrote>>
  BY DEF IInv, Read
<1>3. /\ k \in Keys /\ Len(rows) \in Nat
      /\ doubted \subseteq doubted' /\ doubted' \subseteq doubted \cup {k}
      /\ n = 0 => \A i \in 1..Len(rows) : rows[i].key # k
      /\ n # 0 => n \in 1..Len(rows) /\ rows[n].key = k
  BY <1>1, <1>2 DEF TypeOK, SheetRow, Found, RowsWith
<1>4. TypeOK'
  BY <1>1, <1>2, <1>3, SheetsAssumption DEF TypeOK
<1>5. UpdateInv'
  BY <1>1, <1>2, <1>3 DEF IInv, UpdateInv, TypeOK
<1>6. DuplicatesExplained'
  BY <1>2, <1>3 DEF IInv, DuplicatesExplained
<1>7. AppendInv'
  <2> SUFFICES ASSUME NEW d \in Clients, pc'[d] = "append", call[d].key \notin doubted'
               PROVE  /\ \A i \in 1..Len(rows) : rows[i].key # call[d].key
                      /\ \A e \in Clients :
                            pc'[e] = "append" /\ call[e].key = call[d].key => e = d
    BY <1>2 DEF AppendInv
  <2>1. ASSUME n = 0, k \notin doubted'
        PROVE  \A e \in Clients : e # c /\ pc[e] = "append" => call[e].key # k
    BY <2>1, <1>1 DEF Contested
  <2>2. CASE d = c
    BY <1>1, <1>2, <1>3, <2>1, <2>2 DEF TypeOK
  <2>3. CASE d # c
    BY <1>1, <1>2, <1>3, <2>1, <2>3 DEF IInv, AppendInv, TypeOK
  <2> QED BY <2>2, <2>3
<1> QED BY <1>4, <1>5, <1>6, <1>7 DEF IInv

\* A row is overwritten by one of the same key.
LEMMA UpdateStep == ASSUME IInv, NEW c \in Clients, Update(c) PROVE IInv'
<1>1. /\ TypeOK /\ pc[c] = "update" /\ UNCHANGED <<call, doubted>>
      /\ rows' = [rows EXCEPT ![at[c]] = call[c]]
      /\ wrote' = [wrote EXCEPT ![c] = TRUE]
  BY DEF IInv, Update, Done
<1>2. Answered
  BY <1>1, RetryAnswered, ReturnAnswered DEF Update
<1>3. at[c] \in 1..Len(rows) /\ rows[at[c]].key = call[c].key /\ call[c] \in SheetRow
  BY <1>1 DEF IInv, UpdateInv, TypeOK
<1>4. /\ rows' \in Seq(SheetRow) /\ Len(rows') = Len(rows)
      /\ \A i \in 1..Len(rows) : rows'[i].key = rows[i].key
  BY <1>1, <1>3 DEF TypeOK
<1>5. TypeOK'
  BY <1>1, <1>2, <1>4 DEF TypeOK, Answered
<1>6. UpdateInv'
  <2> SUFFICES ASSUME NEW d \in Clients, pc'[d] = "update"
               PROVE  at'[d] \in 1..Len(rows) /\ rows'[at'[d]].key = call[d].key
    BY <1>1, <1>4 DEF UpdateInv
  <2>1. pc[d] = "update" /\ at'[d] = at[d]
    BY <1>2 DEF Answered
  <2>2. at[d] \in 1..Len(rows) /\ rows[at[d]].key = call[d].key
    BY <2>1 DEF IInv, UpdateInv
  <2> QED BY <1>4, <2>1, <2>2
<1>7. AppendInv'
  <2> SUFFICES ASSUME NEW d \in Clients, pc'[d] = "append", call[d].key \notin doubted
               PROVE  /\ \A i \in 1..Len(rows) : rows'[i].key # call[d].key
                      /\ \A e \in Clients :
                            pc'[e] = "append" /\ call[e].key = call[d].key => e = d
    BY <1>1, <1>4 DEF AppendInv
  <2>1. \A e \in Clients : pc'[e] = "append" => pc[e] = "append"
    BY <1>2 DEF Answered
  <2> QED BY <1>4, <2>1 DEF IInv, AppendInv
<1>8. DuplicatesExplained'
  BY <1>1, <1>4 DEF IInv, DuplicatesExplained, TypeOK
<1> QED BY <1>5, <1>6, <1>7, <1>8 DEF IInv

\* A row is added: the first of its key, or the key is in doubt.
LEMMA AddStep == ASSUME IInv, NEW c \in Clients, Add(c) PROVE IInv'
<1>1. /\ TypeOK /\ pc[c] = "append" /\ UNCHANGED call
      /\ rows' = Append(rows, call[c])
      /\ wrote' = [wrote EXCEPT ![c] = TRUE]
  BY DEF IInv, Add, Done
<1>2. /\ Answered
      /\ \/ doubted' = doubted \cup {call[c].key}
         \/ doubted' = doubted /\ pc'[c] = "idle"
  BY <1>1, RetryAnswered, ReturnAnswered DEF Add
<1>3. call[c] \in SheetRow /\ call[c].key \in Keys
  BY <1>1 DEF TypeOK, SheetRow
<1>4. /\ rows' \in Seq(SheetRow) /\ Len(rows') = Len(rows) + 1 /\ Len(rows) \in Nat
      /\ \A i \in 1..Len(rows) : rows'[i] = rows[i]
      /\ rows'[Len(rows) + 1] = call[c]
  BY <1>1, <1>3 DEF TypeOK
<1>5. TypeOK'
  BY <1>1, <1>2, <1>3, <1>4 DEF TypeOK, Answered
<1>6. UpdateInv'
  BY <1>1, <1>2, <1>4 DEF Answered, IInv, UpdateInv
<1>7. AppendInv'
  <2> SUFFICES ASSUME NEW d \in Clients, pc'[d] = "append", call[d].key \notin doubted'
               PROVE  /\ \A i \in 1..Len(rows) + 1 : rows'[i].key # call[d].key
                      /\ \A e \in Clients :
                            pc'[e] = "append" /\ call[e].key = call[d].key => e = d
    BY <1>1, <1>4 DEF AppendInv
  <2>1. pc[d] = "append" /\ call[d].key \notin doubted
    BY <1>2 DEF Answered
  <2>2. \A e \in Clients : pc'[e] = "append" => pc[e] = "append"
    BY <1>2 DEF Answered
  <2>3. \A e \in Clients : pc[e] = "append" /\ call[e].key = call[d].key => e = d
    BY <2>1 DEF IInv, AppendInv
  <2>4. call[c].key # call[d].key
    BY <1>1, <1>2, <2>1, <2>3
  <2>5. \A i \in 1..Len(rows) : rows[i].key # call[d].key
    BY <2>1 DEF IInv, AppendInv
  <2> QED BY <1>4, <2>2, <2>3, <2>4, <2>5
<1>8. DuplicatesExplained'
  <2> SUFFICES ASSUME NEW i \in 1..Len(rows) + 1, NEW n \in 1..Len(rows) + 1,
                      rows'[i].key = rows'[n].key, i < n
               PROVE  rows'[i].key \in doubted'
    BY <1>4 DEF DuplicatesExplained
  <2>1. CASE n <= Len(rows)
    BY <1>1, <1>2, <1>4, <2>1 DEF IInv, DuplicatesExplained, TypeOK
  <2>2. CASE n = Len(rows) + 1
    BY <1>1, <1>2, <1>4, <2>2 DEF IInv, AppendInv
  <2> QED BY <1>4, <2>1, <2>2
<1> QED BY <1>5, <1>6, <1>7, <1>8 DEF IInv

\* Every step keeps the invariant.
LEMMA NextIInv == IInv /\ [Next]_vars => IInv'
<1> SUFFICES ASSUME IInv, [Next]_vars PROVE IInv'
  OBVIOUS
<1>1. CASE Next
  BY <1>1, FailStep, CallStep, ReadStep, UpdateStep, AddStep DEF Next, Progress
<1>2. CASE UNCHANGED vars
  BY <1>2 DEF vars, IInv, TypeOK, UpdateInv, AppendInv, DuplicatesExplained
<1> QED BY <1>1, <1>2

\* The invariant holds throughout.
LEMMA InvIInv == Spec => []IInv
BY InitIInv, NextIInv, PTL DEF Spec

\* SheetsClient keeps its types; in particular no request is tried too often.
THEOREM SheetsTypes == Spec => []TypeOK
<1>1. IInv => TypeOK
  BY DEF IInv
<1> QED BY <1>1, InvIInv, PTL

\* upsert_row duplicates a key only through a repeated or contested append
\* (sheets_client.py:181-207).
THEOREM DuplicatesHaveCause == Spec => []DuplicatesExplained
<1>1. IInv => DuplicatesExplained
  BY DEF IInv
<1> QED BY <1>1, InvIInv, PTL

\* No row is ever overwritten by one of another key (sheets_client.py:201-203), with
\* any number of clients between a read and its update.
THEOREM KeysAreKept == Spec => KeysStay
<1> DEFINE Stay == \A i \in DOMAIN rows : i \in DOMAIN rows' /\ rows'[i].key = rows[i].key
<1>1. IInv /\ [Next]_vars => [Stay]_vars
  <2> SUFFICES ASSUME IInv, Next PROVE Stay
    OBVIOUS
  <2>1. rows \in Seq(SheetRow)
    BY DEF IInv, TypeOK
  <2>2. CASE rows' = rows
    BY <2>2
  <2>3. ASSUME NEW c \in Clients, Update(c) PROVE Stay
    <3>1. at[c] \in 1..Len(rows) /\ rows[at[c]].key = call[c].key
      BY <2>3 DEF IInv, UpdateInv, Update
    <3> QED BY <2>1, <2>3, <3>1 DEF Update
  <2>4. ASSUME NEW c \in Clients, Add(c) PROVE Stay
    <3>1. rows' = Append(rows, call[c]) /\ call[c] \in SheetRow
      BY <2>4 DEF Add, IInv, TypeOK
    <3> QED BY <2>1, <3>1
  <2>5. rows' = rows \/ \E c \in Clients : Update(c) \/ Add(c)
    BY DEF Next, Progress, Fail, Read, Upsert, AppendRow, Calling
  <2> QED BY <2>2, <2>3, <2>4, <2>5
<1> QED BY <1>1, InvIInv, PTL DEF Spec, KeysStay

-----------------------------------------------------------------------------
\* The refinement of KeyedStore.

\* A step that leaves the rows alone leaves the store alone.
LEMMA HeldSame == rows' = rows => Held' = Held
BY DEF Held, RowsWith

\* The rows of the key of a write are the only ones it changes, and outside doubt
\* there is one of them.
LEMMA HeldWritten ==
    ASSUME IInv, IInv', NEW c \in Clients, Update(c) \/ Add(c)
    PROVE  Store!Put(call[c].key, call[c].val)
<1>0. PICK k \in Keys, v \in Vals : call[c] = [key |-> k, val |-> v]
  BY DEF IInv, TypeOK, SheetRow
<1>1. /\ TypeOK /\ rows \in Seq(SheetRow) /\ call[c] \in SheetRow
      /\ call[c].key = k /\ call[c].val = v
  BY <1>0 DEF IInv, TypeOK, SheetRow
<1>2. PICK n \in 1..Len(rows') :
         /\ rows'[n] = call[c] /\ Len(rows) <= Len(rows')
         /\ Len(rows) \in Nat /\ Len(rows') \in Nat
         /\ \A i \in 1..Len(rows') : i # n => i \in 1..Len(rows) /\ rows'[i] = rows[i]
         /\ \A i \in 1..Len(rows) : i # n => rows'[i] = rows[i]
         /\ n \in 1..Len(rows) => rows[n].key = k
  <2>1. CASE Update(c)
    <3>1. at[c] \in 1..Len(rows) /\ rows[at[c]].key = k
      BY <1>1, <2>1 DEF IInv, UpdateInv, Update
    <3>2. rows' = [rows EXCEPT ![at[c]] = call[c]]
      BY <2>1 DEF Update
    <3> QED BY <1>1, <3>1, <3>2
  <2>2. CASE Add(c)
    <3>1. rows' = Append(rows, call[c])
      BY <2>2 DEF Add
    <3>2. /\ Len(rows') = Len(rows) + 1 /\ Len(rows) \in Nat
          /\ \A i \in 1..Len(rows) : rows'[i] = rows[i]
          /\ rows'[Len(rows) + 1] = call[c]
      BY <1>1, <3>1
    <3>3. \A i \in 1..Len(rows') : i # Len(rows) + 1 => i \in 1..Len(rows)
      BY <3>2
    <3> QED BY <3>2, <3>3
  <2> QED BY <2>1, <2>2
<1>3. /\ DOMAIN rows = 1..Len(rows) /\ rows' \in Seq(SheetRow)
      /\ DOMAIN rows' = 1..Len(rows')
  <2>1. rows' \in Seq(SheetRow)
    BY DEF IInv, TypeOK
  <2> QED BY <1>1, <2>1
<1>4. \A q \in Keys : \A w :
         w \in Held[q] <=> \E i \in 1..Len(rows) : rows[i].key = q /\ rows[i].val = w
  BY <1>3 DEF Held, RowsWith
<1>5. \A q \in Keys : \A w :
         w \in Held'[q] <=> \E i \in 1..Len(rows') : rows'[i].key = q /\ rows'[i].val = w
  BY <1>3 DEF Held, RowsWith
<1>6. ASSUME NEW q \in Keys, q # k PROVE Held'[q] = Held[q]
  <2>1. ASSUME NEW w \in Held'[q] PROVE w \in Held[q]
    <3>1. PICK i \in 1..Len(rows') : rows'[i].key = q /\ rows'[i].val = w
      BY <1>5
    <3>2. i # n
      BY <1>1, <1>2, <1>6, <3>1
    <3> QED BY <1>2, <1>4, <3>1, <3>2
  <2>2. ASSUME NEW w \in Held[q] PROVE w \in Held'[q]
    <3>1. PICK i \in 1..Len(rows) : rows[i].key = q /\ rows[i].val = w
      BY <1>4
    <3>2. i # n /\ i \in 1..Len(rows')
      BY <1>2, <1>6, <3>1
    <3> QED BY <1>2, <1>5, <3>1, <3>2
  <2> QED BY <2>1, <2>2
<1>7. v \in Held'[k]
  BY <1>1, <1>2, <1>5
<1>8. Held'[k] \subseteq Held[k] \cup {v}
  <2> SUFFICES ASSUME NEW w \in Held'[k], w # v PROVE w \in Held[k]
    OBVIOUS
  <2>1. PICK i \in 1..Len(rows') : rows'[i].key = k /\ rows'[i].val = w
    BY <1>5
  <2>2. i # n
    BY <1>1, <1>2, <2>1
  <2> QED BY <1>2, <1>4, <2>1, <2>2
<1>9. ASSUME k \notin doubted' PROVE Held'[k] = {v}
  <2>1. \A i, m \in 1..Len(rows') :
           rows'[i].key = rows'[m].key /\ i # m => rows'[i].key \in doubted'
    BY <1>3 DEF IInv, DuplicatesExplained
  <2>2. ASSUME NEW w \in Held'[k] PROVE w = v
    <3>1. PICK i \in 1..Len(rows') : rows'[i].key = k /\ rows'[i].val = w
      BY <1>5
    <3>2. i = n
      BY <1>1, <1>2, <1>9, <2>1, <3>1
    <3> QED BY <1>1, <1>2, <3>1, <3>2
  <2> QED BY <1>7, <2>2
<1>10. Held' = [Held EXCEPT ![k] = Held'[k]]
  <2>1. Held = [q \in Keys |-> Held[q]] /\ Held' = [q \in Keys |-> Held'[q]]
    BY DEF Held
  <2> QED BY <1>6, <2>1
<1> QED BY <1>1, <1>7, <1>8, <1>9, <1>10 DEF Store!Put

\* A client that returns is no longer busy, one that goes on is.
LEMMA BusySteps ==
    ASSUME TypeOK, NEW c \in Clients
    PROVE  /\ UNCHANGED pc => UNCHANGED Busy
           /\ pc[c] # "idle" /\ pc' = [pc EXCEPT ![c] = "idle"]
                 => Busy' = [Busy EXCEPT ![c] = FALSE]
           /\ \A next \in {"read", "update", "append"} :
                 pc' = [pc EXCEPT ![c] = next] => Busy' = [Busy EXCEPT ![c] = TRUE]
           /\ Busy[c] = (pc[c] # "idle")
           /\ pc[c] # "idle" => Busy = [Busy EXCEPT ![c] = TRUE]
BY DEF TypeOK, Busy

\* After an error the abstract call is still busy or has failed.
LEMMA RetryRefines ==
    ASSUME TypeOK, NEW c \in Clients, pc[c] # "idle", Retry(c) \/ Return(c, "error")
    PROVE  \/ UNCHANGED <<Busy, answer>>
           \/ /\ Busy' = [Busy EXCEPT ![c] = FALSE]
              /\ answer' = [answer EXCEPT ![c] = "error"]
<1>1. CASE Resend(c)
  BY <1>1, BusySteps DEF Resend
<1>2. CASE Return(c, "error")
  BY <1>2, BusySteps DEF Return, Request
<1> QED BY <1>1, <1>2 DEF Retry

\* The sheet at the start is a store.
LEMMA InitRefines == ASSUME Init PROVE Store!StoreInit
<1>1. IInv
  BY InitIInv
<1>2. call \in [Clients -> [key : Keys, val : Vals]]
  BY <1>1 DEF IInv, TypeOK, SheetRow
<1>3. Held \in [Keys -> {{}} \cup {{v} : v \in Vals}]
  <2> SUFFICES ASSUME NEW k \in Keys
               PROVE  {rows[i].val : i \in RowsWith(k)} \in {{}} \cup {{v} : v \in Vals}
    BY DEF Held
  <2>1. CASE RowsWith(k) = {}
    BY <2>1
  <2>2. CASE RowsWith(k) # {}
    <3>1. PICK n \in RowsWith(k) : TRUE
      BY <2>2
    <3>2. \A i \in RowsWith(k) : i = n
      BY SheetsAssumption DEF Init, RowsWith
    <3>3. rows[n] \in SheetRow
      BY <1>1 DEF IInv, TypeOK, RowsWith
    <3>4. rows[n].val \in Vals
      BY <3>3 DEF SheetRow
    <3>5. {rows[i].val : i \in RowsWith(k)} = {rows[n].val}
      BY <3>1, <3>2
    <3> QED BY <3>4, <3>5
  <2> QED BY <2>1, <2>2
<1>4. Busy = [c \in Clients |-> FALSE]
  BY DEF Init, Busy
<1> QED BY <1>2, <1>3, <1>4 DEF Init, Store!StoreInit

\* Every step of the client is a step of the store or leaves it alone.
LEMMA NextRefines == IInv /\ IInv' /\ [Next]_vars => [Store!StoreNext]_(Store!storeVars)
<1> SUFFICES ASSUME IInv, IInv', [Next]_vars PROVE [Store!StoreNext]_(Store!storeVars)
  OBVIOUS
<1>1. TypeOK
  BY DEF IInv
<1>2. ASSUME NEW c \in Clients, Fail(c) PROVE Store!Work(c)
  <2>1. /\ pc[c] # "idle" /\ UNCHANGED <<rows, call, wrote, doubted>>
        /\ Retry(c) \/ Return(c, "error")
    BY <1>2 DEF Fail
  <2>2. Busy[c] /\ UNCHANGED Held
    BY <1>1, <2>1, BusySteps, HeldSame
  <2>3. \/ UNCHANGED <<Busy, answer>>
        \/ /\ Busy' = [Busy EXCEPT ![c] = FALSE]
           /\ answer' = [answer EXCEPT ![c] = "error"]
    BY <1>1, <2>1, RetryRefines
  <2> QED BY <2>1, <2>2, <2>3 DEF Store!Work
<1>3. ASSUME NEW c \in Clients, NEW row \in SheetRow, Upsert(c, row) \/ AppendRow(c, row)
      PROVE  Store!Begin(c)
  <2>1. PICK request \in {"read", "append"} :
           /\ Calling(c, row, request) /\ doubted \subseteq doubted'
    BY <1>3 DEF Upsert, AppendRow
  <2>2. /\ pc[c] = "idle" /\ pc' = [pc EXCEPT ![c] = request] /\ rows' = rows
        /\ call' = [call EXCEPT ![c] = row]
        /\ answer' = [answer EXCEPT ![c] = "none"]
        /\ wrote' = [wrote EXCEPT ![c] = FALSE]
    BY <2>1 DEF Calling, Request
  <2>3. ~Busy[c] /\ Busy' = [Busy EXCEPT ![c] = TRUE] /\ UNCHANGED Held
    BY <1>1, <2>2, BusySteps, HeldSame
  <2>4. \E k \in Keys, v \in Vals : row = [key |-> k, val |-> v]
    BY DEF SheetRow
  <2> QED BY <2>1, <2>2, <2>3, <2>4 DEF Store!Begin
<1>4. ASSUME NEW c \in Clients, Read(c) PROVE Store!Work(c)
  <2>1. PICK next \in {"append", "update"} : pc' = [pc EXCEPT ![c] = next]
    BY <1>4 DEF Read, Request
  <2>2. /\ pc[c] = "read" /\ UNCHANGED <<rows, call, answer, wrote>>
        /\ doubted \subseteq doubted'
    BY <1>4 DEF Read
  <2>3. Busy[c] /\ UNCHANGED <<Busy, Held>>
    BY <1>1, <2>1, <2>2, BusySteps, HeldSame
  <2> QED BY <2>2, <2>3 DEF Store!Work
<1>5. ASSUME NEW c \in Clients, Update(c) \/ Add(c) PROVE Store!Work(c)
  <2>1. /\ pc[c] # "idle" /\ wrote' = [wrote EXCEPT ![c] = TRUE]
        /\ UNCHANGED call /\ doubted \subseteq doubted'
        /\ Return(c, "ok") \/ Retry(c)
    BY <1>5 DEF Update, Add, Done
  <2>2. Busy[c] /\ wrote'[c]
    BY <1>1, <2>1, BusySteps DEF TypeOK
  <2>3. Store!Put(call[c].key, call[c].val)
    BY <1>5, HeldWritten
  <2>4. \/ UNCHANGED <<Busy, answer>>
        \/ /\ Busy' = [Busy EXCEPT ![c] = FALSE]
           /\ \E a \in {"ok", "error"} : answer' = [answer EXCEPT ![c] = a]
    <3>1. CASE Return(c, "ok")
      BY <1>1, <2>1, <3>1, BusySteps DEF Return, Request
    <3>2. CASE Retry(c)
      BY <1>1, <2>1, <3>2, RetryRefines
    <3> QED BY <2>1, <3>1, <3>2
  <2> QED BY <2>1, <2>2, <2>3, <2>4 DEF Store!Work
<1>6. CASE UNCHANGED vars
  <2>1. UNCHANGED <<Held, Busy>>
    BY <1>6, HeldSame DEF vars, Busy
  <2> QED BY <1>6, <2>1 DEF vars, Store!storeVars
<1>7. CASE Next
  BY <1>2, <1>3, <1>4, <1>5, <1>7 DEF Next, Progress, Store!StoreNext
<1> QED BY <1>6, <1>7

\* SheetsClient implements KeyedStore (upsert_row, sheets_client.py:178-208): a call
\* writes only its own value under its own key, returns normally only after it did,
\* and a key outside doubt is a register.
THEOREM ClientIsStore == Spec => ImplementsStore
<1>1. Init => Store!StoreInit
  BY InitRefines
<1> QED BY <1>1, InvIInv, NextRefines, PTL DEF Spec, ImplementsStore, Store!StoreSpec
=============================================================================
