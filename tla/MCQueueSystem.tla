---------------------------- MODULE MCQueueSystem ----------------------------
(* QueueSystem on the sheets of MCPublishQueue: a thread and a single post.   *)
EXTENDS QueueSystem, TLC

CONSTANTS parent, reply, single, t1, c0

MCRows   == {parent, reply, single}
MCParent == (parent :> parent) @@ (reply :> parent) @@ (single :> single)
MCSeqNo  == (parent :> 0) @@ (reply :> 1) @@ (single :> 0)
MCRowNo  == (parent :> 1) @@ (reply :> 2) @@ (single :> 3)

Written == [at |-> 0, form |-> "iso"]
Typed   == [at |-> 0, form |-> "dash"]
MCCells  == {Written, Typed}
MCDrafts == [r \in MCRows |-> [text |-> t1, scheduled_at |-> Written, feedback |-> c0]]
=============================================================================
