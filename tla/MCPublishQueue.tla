--------------------------- MODULE MCPublishQueue ---------------------------
(* PublishQueue on small sheets: a thread of a parent and its replies, and a  *)
(* single post that stands before or after it in the sheet.                   *)
EXTENDS PublishQueue, TLC

CONSTANTS parent, reply, single, t1, c0

MCRows   == {parent, reply, single}
MCParent == (parent :> parent) @@ (reply :> parent) @@ (single :> single)
MCSeqNo  == (parent :> 0) @@ (reply :> 1) @@ (single :> 0)
MCRowNo  == (parent :> 1) @@ (reply :> 2) @@ (single :> 3)

\* The same sheet without the single post, for runs that overlap.
PairRows   == {parent, reply}
PairParent == [r \in PairRows |-> parent]
PairSeqNo  == (parent :> 0) @@ (reply :> 1)
PairRowNo  == (parent :> 1) @@ (reply :> 2)

\* scheduled_at cells as generate_drafts writes them, as the dashboard does, and
\* one that cannot be read.
Early == [at |-> 0, form |-> "iso"]
Later == [at |-> 1, form |-> "dash"]
Never == [at |-> 0, form |-> "bad"]
OneCell  == {Early}
TwoCells == {Early, Later}
AnyCells == {Early, Later, Never}

MCDrafts == [r \in MCRows |-> [text |-> t1, scheduled_at |-> Early, feedback |-> c0]]
PairDrafts == [r \in PairRows |-> [text |-> t1, scheduled_at |-> Early, feedback |-> c0]]

Interchangeable == Permutations(Runs)
=============================================================================
