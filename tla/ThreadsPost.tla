------------------------------ MODULE ThreadsPost ------------------------------
(* Publishing one text on Threads: create_post, wait_until_finished and       *)
(* publish_post in a row (src/clients/threads_client.py, and publish_queue.py *)
(* which polls), each a request that _retry_policy sends again.               *)
(*                                                                            *)
(* A request whose answer does not come may have been carried out, may be     *)
(* carried out later, after the client has sent it again or given up, or      *)
(* never.  Of Threads (external) it is assumed that it publishes FINISHED     *)
(* containers only, and a container once: publishing it again is refused or   *)
(* answered with the id of the post.                                          *)
EXTENDS Naturals, Sequences

CONSTANTS
    MaxAttempts,   \* stop_after_attempt
    MaxChecks,     \* PUBLISH_STATUS_MAX_CHECKS
    MaxCalls       \* bound: how many texts are published, one after the other

ASSUME AttemptsAssumption ==
    MaxAttempts \in Nat \ {0} /\ MaxChecks \in Nat \ {0} /\ MaxCalls \in Nat

VARIABLES
    pc,             \* the call: "idle", "create", "poll", "publish"
    call,           \* its number
    tries,          \* which attempt its request is at
    checks,         \* which check wait_until_finished is at
    creation,       \* creation_id, an index into box
    box,            \* the containers on Threads: [call, status]
    posts,          \* the containers that are live, in order; a media id is an index
    strayCreates,   \* create requests that may still be carried out: their calls
    strayPublishes, \* publish requests that may still be carried out: their containers
    answer          \* how the last call ended: [kind, id]

client  == <<pc, call, tries, checks, creation, answer>>
strays  == <<strayCreates, strayPublishes>>
threads == <<box, posts, strays>>
vars    == <<client, threads>>

NoAnswer == [kind |-> "none", id |-> 0]
Raised == [kind |-> "error", id |-> 0]
Statuses == {"IN_PROGRESS", "FINISHED", "ERROR", "EXPIRED", "PUBLISHED"}
Failures == {"ERROR", "EXPIRED"}

Init ==
    /\ pc = "idle" /\ call = 0 /\ tries = 1 /\ checks = 1 /\ creation = 0
    /\ box = <<>> /\ posts = <<>> /\ strayCreates = {} /\ strayPublishes = {}
    /\ answer = NoAnswer

-----------------------------------------------------------------------------
\* The call.

\* The next request of the call.
GoOn(stage) ==
    /\ pc' = stage /\ tries' = 1
    /\ UNCHANGED <<call, answer>>

Return(a) ==
    /\ pc' = "idle" /\ answer' = a
    /\ tries' = 1 /\ checks' = 1 /\ creation' = 0
    /\ UNCHANGED call

SendAgain == tries' = tries + 1 /\ UNCHANGED <<pc, call, checks, creation, answer>>

\* Mutant: the retry is around the three requests and not around each.
RetryAll ==
    \/ /\ tries < MaxAttempts
       /\ tries' = tries + 1 /\ pc' = "create" /\ UNCHANGED <<call, checks, creation, answer>>
    \/ tries >= MaxAttempts /\ Return(Raised)
\* Mutant: the error of the last attempt is not raised again.
RetryThenReturn ==
    \/ tries < MaxAttempts /\ SendAgain
    \/ tries >= MaxAttempts /\ Return([kind |-> "ok", id |-> creation])
\* Mutant: one attempt too many.
RetryOnceMore ==
    \/ tries <= MaxAttempts /\ SendAgain
    \/ tries > MaxAttempts /\ Return(Raised)

\* _retry_policy after a transient failure.
Retry ==
    \/ tries < MaxAttempts /\ SendAgain
    \/ tries >= MaxAttempts /\ Return(Raised)

Begin ==
    /\ pc = "idle" /\ call < MaxCalls
    /\ pc' = "create" /\ call' = call + 1 /\ answer' = NoAnswer
    /\ UNCHANGED <<tries, checks, creation, threads>>

\* 429, 5xx or no connection: the request is not carried out, and is sent again.
AttemptFails ==
    /\ pc # "idle" /\ Retry
    /\ UNCHANGED threads

\* Any other status, an empty text, or an answer to a poll that is no JSON.
Rejected ==
    /\ pc # "idle" /\ Return(Raised)
    /\ UNCHANGED threads

\* No answer in time.  A request that reads leaves nothing behind.
TimedOut ==
    /\ pc # "idle" /\ Retry
    /\ strayCreates' = strayCreates \cup {c \in {call} : pc = "create"}
    /\ strayPublishes' = strayPublishes \cup {c \in {creation} : pc = "publish"}
    /\ UNCHANGED <<box, posts>>

NewContainer(c) == box' = Append(box, [call |-> c, status |-> "IN_PROGRESS"])

Create ==
    /\ pc = "create" /\ NewContainer(call)
    /\ creation' = Len(box) + 1
    /\ GoOn("poll") /\ UNCHANGED <<checks, posts, strays>>

\* The answer has no id, or is no JSON: no retry, the container is left alone.
CreateUnreadable ==
    /\ pc = "create" /\ NewContainer(call)
    /\ Return(Raised)
    /\ UNCHANGED <<posts, strays>>

\* The last check that does not see FINISHED raises.
Wait ==
    \/ /\ checks < MaxChecks /\ checks' = checks + 1
       /\ GoOn("poll") /\ UNCHANGED creation
    \/ checks >= MaxChecks /\ Return(Raised)

\* Mutant: the number of checks has no limit.
PollForever ==
    /\ pc = "poll"
    /\ \E status \in {box[creation].status, ""} :
          \/ status = "FINISHED" /\ GoOn("publish") /\ UNCHANGED <<checks, creation>>
          \/ status \in Failures /\ Return(Raised)
          \/ status \notin Failures \cup {"FINISHED"} /\ GoOn("poll") /\ UNCHANGED <<checks, creation>>
    /\ UNCHANGED threads

\* One check of wait_until_finished; an answer may come without a status.
Poll ==
    /\ pc = "poll"
    /\ \E status \in {box[creation].status, ""} :
          \/ status = "FINISHED" /\ GoOn("publish") /\ UNCHANGED <<checks, creation>>
          \/ status \in Failures /\ Return(Raised)
          \/ status \notin Failures \cup {"FINISHED"} /\ Wait
    /\ UNCHANGED threads

\* Threads carries out a publish request, or sees that it has done so already.
Accept(c) ==
    \/ /\ box[c].status = "FINISHED"
       /\ box' = [box EXCEPT ![c].status = "PUBLISHED"]
       /\ posts' = Append(posts, c)
    \/ box[c].status = "PUBLISHED" /\ UNCHANGED <<box, posts>>

\* Mutant: the creation id is returned.
MediaIdOfContainer(c) == {c}

\* The id in Threads' answer.
MediaId(c) == {i \in DOMAIN posts' : posts'[i] = c}

Publish ==
    /\ pc = "publish" /\ Accept(creation)
    /\ \E i \in MediaId(creation) : Return([kind |-> "ok", id |-> i])
    /\ UNCHANGED strays

PublishUnreadable ==
    /\ pc = "publish" /\ Accept(creation)
    /\ Return(Raised)
    /\ UNCHANGED strays

-----------------------------------------------------------------------------
\* Threads (external).

Process(c) ==
    /\ \/ box[c].status = "IN_PROGRESS" /\ box' = [box EXCEPT ![c].status = "FINISHED"]
       \/ box[c].status = "IN_PROGRESS" /\ box' = [box EXCEPT ![c].status = "ERROR"]
       \/ box[c].status = "FINISHED" /\ box' = [box EXCEPT ![c].status = "EXPIRED"]
    /\ UNCHANGED <<client, posts, strays>>

CreateLate(c) ==
    /\ NewContainer(c) /\ strayCreates' = strayCreates \ {c}
    /\ UNCHANGED <<client, posts, strayPublishes>>

PublishLate(c) ==
    /\ Accept(c) /\ strayPublishes' = strayPublishes \ {c}
    /\ UNCHANGED <<client, strayCreates>>

Server ==
    \/ \E c \in DOMAIN box : Process(c)
    \/ \E c \in strayCreates : CreateLate(c)
    \/ \E c \in strayPublishes : PublishLate(c)

CallStep ==
    \/ AttemptFails \/ Rejected \/ TimedOut
    \/ Create \/ CreateUnreadable \/ Poll \/ Publish \/ PublishUnreadable

Next == Begin \/ CallStep \/ Server

Spec == Init /\ [][Next]_vars

\* The process that made the call keeps running: every request has a timeout
\* (REQUEST_TIMEOUT).  Nothing is assumed of Threads.
FairSpec == Spec /\ WF_vars(CallStep)

-----------------------------------------------------------------------------
\* Every variable holds a value the code can give it; no request is tried more
\* than MaxAttempts times and no container polled more than MaxChecks times.
TypeOK ==
    /\ pc \in {"idle", "create", "poll", "publish"}
    /\ call \in Nat
    /\ tries \in 1..MaxAttempts
    /\ checks \in 1..MaxChecks
    /\ box \in Seq([call : Nat, status : Statuses])
    /\ creation \in 0..Len(box)
    /\ pc \in {"poll", "publish"} => creation # 0
    /\ posts \in Seq(DOMAIN box)
    /\ strayCreates \subseteq Nat
    /\ strayPublishes \subseteq DOMAIN box
    /\ answer \in [kind : {"none", "ok", "error"}, id : Nat]

\* Whatever is retried, lost, late or given up, one call puts at most one post on
\* the feed ("Exponential backoff", threads_client.py:45, must not double-post):
\* the containers that repeated create requests leave behind never go live.
OneLive ==
    \A i, j \in DOMAIN posts : box[posts[i]].call = box[posts[j]].call => i = j

\* The media id that publish_post returns, which is recorded as posted_post_id and
\* used as the reply target of a thread, is that of a live post of this call.
ReturnedIsLive ==
    answer.kind = "ok" => /\ answer.id \in DOMAIN posts
                          /\ box[posts[answer.id]].call = call

\* Every call returns or raises, whatever Threads does.
CallsEnd == pc # "idle" ~> pc = "idle"

-----------------------------------------------------------------------------
\* The call as the publisher sees it.
Seen == INSTANCE PostCall
            WITH stage <- CASE pc = "idle" -> "idle"
                            [] pc \in {"create", "poll"} -> "preparing"
                            [] pc = "publish" -> "publishing",
                 open <- {box[c].call : c \in strayPublishes}
                            \cup {n \in {call} : pc = "publish"},
                 live <- [i \in DOMAIN posts |-> box[posts[i]].call]

\* The three requests with their retries are the call that PublishQueue reckons
\* with: a failed preparation leaves nothing that can go live, a failed
\* publication may be live or become so, a returned id is live.
ImplementsPostCall == Seen!PostSpec
=============================================================================
