------------------------------- MODULE PostCall -------------------------------
(* What publishing one text on Threads looks like to the publisher            *)
(* (create_post, wait_until_finished and publish_post in a row), without      *)
(* requests, retries or containers: a call is prepared, then published; it    *)
(* goes live at most once, only after it reached its publication, and maybe   *)
(* after it raised; it returns a media id only when that post is live.        *)
(* PublishQueue takes a call as these steps.                                  *)
EXTENDS Naturals, Sequences

VARIABLES
    stage,    \* of the current call: "idle", "preparing", "publishing"
    call,     \* its number
    open,     \* calls whose publication may still be carried out
    live,     \* the calls that are live, in the order they went out
    answer    \* how the last call ended: [kind, id], the id an index into live

postVars == <<stage, call, open, live, answer>>

Live == {live[i] : i \in DOMAIN live}
NoAnswer == [kind |-> "none", id |-> 0]
Raised == [kind |-> "error", id |-> 0]

PostInit == stage = "idle" /\ call = 0 /\ open = {} /\ live = <<>> /\ answer = NoAnswer

Begin ==
    /\ stage = "idle" /\ stage' = "preparing"
    /\ call' = call + 1 /\ answer' = NoAnswer
    /\ UNCHANGED <<open, live>>

Ready ==
    /\ stage = "preparing" /\ stage' = "publishing"
    /\ open' = open \cup {call}
    /\ UNCHANGED <<call, live, answer>>

\* Nothing was asked to be published, so nothing will be.
GiveUp ==
    /\ stage = "preparing" /\ stage' = "idle"
    /\ answer' = Raised
    /\ UNCHANGED <<call, open, live>>

GoLive(c) == c \in open /\ c \notin Live /\ live' = Append(live, c)

\* The call ends; a request that it leaves on its way may still publish later.
Publish ==
    /\ stage = "publishing" /\ stage' = "idle"
    /\ GoLive(call) \/ UNCHANGED live
    /\ open' \in {open, open \ {call}}
    /\ \/ answer' = Raised
       \/ \E i \in DOMAIN live' : live'[i] = call /\ answer' = [kind |-> "ok", id |-> i]
    /\ UNCHANGED call

\* A request on its way is carried out, or comes too late to change anything.
Late ==
    \E c \in open :
        /\ GoLive(c) \/ UNCHANGED live
        /\ open' \in {open, open \ {c}}
        /\ UNCHANGED <<stage, call, answer>>

PostNext == Begin \/ Ready \/ GiveUp \/ Publish \/ Late

PostSpec == PostInit /\ [][PostNext]_postVars
=============================================================================
