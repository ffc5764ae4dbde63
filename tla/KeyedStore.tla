------------------------------- MODULE KeyedStore -------------------------------
(* What SheetsClient promises its callers (src/src/clients/sheets_client.py,  *)
(* upsert_row's docstring): a store of values by key, where a call writes its *)
(* own value under its own key, any number of times until it returns, and     *)
(* returns normally only after it did.  A key that is in doubt may hold       *)
(* several values.                                                            *)
CONSTANTS Clients, Keys, Vals

VARIABLES
    store,     \* per key: the values on the sheet
    doubted,   \* keys in doubt
    call,      \* per client: the key and value of its call
    busy,      \* per client: the call has not returned
    wrote,     \* per client: the call has written
    answer     \* per client: how its last call ended

storeVars == <<store, doubted, call, busy, wrote, answer>>

Begin(c) ==
    /\ ~busy[c]
    /\ \E k \in Keys, v \in Vals : call' = [call EXCEPT ![c] = [key |-> k, val |-> v]]
    /\ busy' = [busy EXCEPT ![c] = TRUE]
    /\ wrote' = [wrote EXCEPT ![c] = FALSE]
    /\ answer' = [answer EXCEPT ![c] = "none"]
    /\ doubted \subseteq doubted' /\ UNCHANGED store

\* Outside doubt the key holds the written value and no other.
Put(k, v) ==
    /\ v \in store'[k] /\ store'[k] \subseteq store[k] \cup {v}
    /\ k \in doubted' \/ store'[k] = {v}
    /\ store' = [store EXCEPT ![k] = store'[k]]

Work(c) ==
    /\ busy[c]
    /\ \/ UNCHANGED <<store, wrote>>
       \/ Put(call[c].key, call[c].val) /\ wrote' = [wrote EXCEPT ![c] = TRUE]
    /\ \/ UNCHANGED <<busy, answer>>
       \/ /\ busy' = [busy EXCEPT ![c] = FALSE]
          /\ \E a \in {"ok", "error"} :
                /\ a = "ok" => wrote'[c]
                /\ answer' = [answer EXCEPT ![c] = a]
    /\ doubted \subseteq doubted' /\ UNCHANGED call

StoreInit ==
    /\ store \in [Keys -> {{}} \cup {{v} : v \in Vals}] /\ doubted = {}
    /\ call \in [Clients -> [key : Keys, val : Vals]]
    /\ busy = [c \in Clients |-> FALSE] /\ wrote = [c \in Clients |-> FALSE]
    /\ answer = [c \in Clients |-> "none"]

StoreNext == \E c \in Clients : Begin(c) \/ Work(c)

StoreSpec == StoreInit /\ [][StoreNext]_storeVars
=============================================================================
