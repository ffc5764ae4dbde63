--------------------------- MODULE ThreadsPostProofs ---------------------------
(* ThreadsPost for any number of attempts, checks and calls: at most one post *)
(* goes live per call, a returned id is live, and PostCall is implemented.    *)
EXTENDS ThreadsPost, SequenceTheorems, TLAPS

Container == [call : Nat, status : Statuses]

\* The containers that are live, or whose publication was asked for and is not
\* known to have failed.
Asked ==
    strayPublishes \cup {posts[i] : i \in DOMAIN posts}
        \cup {c \in {creation} : pc = "publish"}

\* Nothing on Threads, or on its way there, is from a later call.
FromCalls ==
    /\ \A c \in DOMAIN box : box[c].call <= call
    /\ \A n \in strayCreates : n <= call

\* A container is PUBLISHED when it is live, and it is live once.
LiveIsPublished ==
    /\ \A i \in DOMAIN posts : box[posts[i]].status = "PUBLISHED"
    /\ \A i, j \in DOMAIN posts : posts[i] = posts[j] => i = j

\* The container that is polled and published is of the call.
OwnContainer ==
    pc \in {"poll", "publish"} => creation \in DOMAIN box /\ box[creation].call = call

\* Why a call puts one post on the feed: however many containers it made, the
\* publication of one of them only is ever asked for, and not before it is polled.
OneAsked ==
    /\ \A c, d \in Asked : box[c].call = box[d].call => c = d
    /\ pc \in {"create", "poll"} => \A c \in Asked : box[c].call # call

IInv ==
    /\ TypeOK /\ FromCalls /\ LiveIsPublished /\ OwnContainer /\ OneAsked
    /\ ReturnedIsLive

-----------------------------------------------------------------------------
\* What a step does on Threads.
Untouched == UNCHANGED <<box, posts>>
Opens(n) == NewContainer(n) /\ UNCHANGED posts
Moves(c, status) ==
    /\ box[c].status # "PUBLISHED" /\ status # "PUBLISHED"
    /\ box' = [box EXCEPT ![c].status = status]
    /\ UNCHANGED posts
GoesLive(c) ==
    /\ box[c].status # "PUBLISHED"
    /\ box' = [box EXCEPT ![c].status = "PUBLISHED"]
    /\ posts' = Append(posts, c)

Acts ==
    \/ Untouched
    \/ \E n \in Nat : Opens(n)
    \/ \E c \in DOMAIN box, status \in Statuses : Moves(c, status)
    \/ \E c \in DOMAIN box : GoesLive(c)

\* The sequences of ThreadsPost are functions on 1..Len.
LEMMA Domains ==
    ASSUME TypeOK
    PROVE  /\ Len(box) \in Nat /\ DOMAIN box = 1..Len(box)
           /\ Len(posts) \in Nat /\ DOMAIN posts = 1..Len(posts)
           /\ \A c \in DOMAIN box : box[c] \in Container
           /\ \A i \in DOMAIN posts : posts[i] \in DOMAIN box
<1>1. box \in Seq(Container) /\ posts \in Seq(DOMAIN box)
  BY DEF TypeOK, Container
<1>2. /\ Len(box) \in Nat /\ DOMAIN box = 1..Len(box)
      /\ Len(posts) \in Nat /\ DOMAIN posts = 1..Len(posts)
  BY <1>1, LenProperties
<1> QED BY <1>1, <1>2, ElementOfSeq

\* Containers stay, with their calls, and so do posts.
LEMMA ActsKeep ==
    ASSUME TypeOK, Acts
    PROVE  /\ box' \in Seq(Container) /\ posts' \in Seq(DOMAIN box')
           /\ Len(box) <= Len(box') /\ Len(box') \in Nat
           /\ DOMAIN box' = 1..Len(box') /\ DOMAIN box \subseteq DOMAIN box'
           /\ \A c \in DOMAIN box : box'[c].call = box[c].call
           /\ DOMAIN posts' = 1..Len(posts') /\ DOMAIN posts \subseteq DOMAIN posts'
           /\ \A i \in DOMAIN posts : posts'[i] = posts[i]
<1>0. /\ box \in Seq(Container) /\ posts \in Seq(DOMAIN box)
      /\ Len(box) \in Nat /\ DOMAIN box = 1..Len(box)
      /\ Len(posts) \in Nat /\ DOMAIN posts = 1..Len(posts)
      /\ \A c \in DOMAIN box : box[c] \in Container
  BY Domains DEF TypeOK, Container
<1>1. CASE Untouched
  BY <1>0, <1>1 DEF Untouched
<1>2. ASSUME NEW n \in Nat, Opens(n)
      PROVE  /\ box' \in Seq(Container) /\ Len(box') = Len(box) + 1 /\ UNCHANGED posts
             /\ \A c \in 1..Len(box) : box'[c] = box[c]
  <2>1. [call |-> n, status |-> "IN_PROGRESS"] \in Container
    BY DEF Container, Statuses
  <2> QED BY <1>0, <1>2, <2>1, AppendProperties DEF Opens, NewContainer
<1>3. CASE \E n \in Nat : Opens(n)
  <2>1. /\ box' \in Seq(Container) /\ Len(box') = Len(box) + 1 /\ UNCHANGED posts
        /\ \A c \in 1..Len(box) : box'[c] = box[c]
    BY <1>2, <1>3
  <2>2. DOMAIN box' = 1..Len(box') BY <2>1, LenProperties
  <2>3. posts \in Seq(DOMAIN box') BY <1>0, <2>1, <2>2, SeqMonotonic
  <2> QED BY <1>0, <2>1, <2>2, <2>3
<1>4. ASSUME NEW c \in DOMAIN box, NEW status \in Statuses,
             box' = [box EXCEPT ![c].status = status]
      PROVE  /\ box' \in Seq(Container) /\ Len(box') = Len(box)
             /\ DOMAIN box' = DOMAIN box
             /\ \A d \in DOMAIN box : box'[d].call = box[d].call
  <2> DEFINE e == [box[c] EXCEPT !.status = status]
  <2>1. e \in Container /\ e.call = box[c].call BY <1>0 DEF Container
  <2>2. box' = [box EXCEPT ![c] = e] BY <1>0, <1>4
  <2> HIDE DEF e
  <2> QED BY <1>0, <2>1, <2>2, ExceptSeq
<1>5. CASE \E c \in DOMAIN box, status \in Statuses : Moves(c, status)
  <2>1. PICK c \in DOMAIN box, status \in Statuses : Moves(c, status)
    BY <1>5
  <2>2. box' = [box EXCEPT ![c].status = status] /\ UNCHANGED posts
    BY <2>1 DEF Moves
  <2>3. /\ box' \in Seq(Container) /\ Len(box') = Len(box) /\ DOMAIN box' = DOMAIN box
        /\ \A d \in DOMAIN box : box'[d].call = box[d].call
    BY <2>2, <1>4
  <2> QED BY <1>0, <2>2, <2>3
<1>6. ASSUME NEW c \in DOMAIN box, GoesLive(c)
      PROVE  /\ box' \in Seq(Container) /\ Len(box') = Len(box)
             /\ DOMAIN box' = DOMAIN box
             /\ \A d \in DOMAIN box : box'[d].call = box[d].call
             /\ posts' \in Seq(DOMAIN box) /\ Len(posts') = Len(posts) + 1
             /\ \A i \in 1..Len(posts) : posts'[i] = posts[i]
  <2>1. "PUBLISHED" \in Statuses BY DEF Statuses
  <2>2. box' = [box EXCEPT ![c].status = "PUBLISHED"] /\ posts' = Append(posts, c)
    BY <1>6 DEF GoesLive
  <2>3. /\ box' \in Seq(Container) /\ Len(box') = Len(box) /\ DOMAIN box' = DOMAIN box
        /\ \A d \in DOMAIN box : box'[d].call = box[d].call
    BY <2>1, <2>2, <1>4
  <2>4. /\ posts' \in Seq(DOMAIN box) /\ Len(posts') = Len(posts) + 1
        /\ \A i \in 1..Len(posts) : posts'[i] = posts[i]
    BY <1>0, <2>2, AppendProperties
  <2> QED BY <2>3, <2>4
<1>7. CASE \E c \in DOMAIN box : GoesLive(c)
  <2>1. /\ posts' \in Seq(DOMAIN box) /\ Len(posts') = Len(posts) + 1
        /\ DOMAIN box' = DOMAIN box /\ Len(box') = Len(box) /\ box' \in Seq(Container)
        /\ \A d \in DOMAIN box : box'[d].call = box[d].call
        /\ \A i \in 1..Len(posts) : posts'[i] = posts[i]
    BY <1>6, <1>7
  <2>2. DOMAIN posts' = 1..Len(posts') BY <2>1, LenProperties
  <2> QED BY <1>0, <2>1, <2>2
<1> QED BY <1>1, <1>3, <1>5, <1>7 DEF Acts
-----------------------------------------------------------------------------
\* What an attempt makes of the call: the same request again, or an exception.
Stays == UNCHANGED <<pc, call, creation, answer>>
Raises == pc' = "idle" /\ creation' = 0 /\ answer' = Raised /\ call' = call
Counted == tries' \in 1..MaxAttempts /\ checks' \in 1..MaxChecks

LEMMA ReturnEffect ==
    ASSUME TypeOK, NEW a, Return(a)
    PROVE  /\ Counted /\ pc' = "idle" /\ creation' = 0 /\ answer' = a /\ call' = call
           /\ a = Raised => Raises
BY AttemptsAssumption DEF Return, Counted, Raises

LEMMA RetryEffect ==
    ASSUME TypeOK, Retry
    PROVE  Counted /\ (Stays \/ Raises)
<1>1. CASE tries < MaxAttempts /\ SendAgain
  BY <1>1, AttemptsAssumption DEF SendAgain, Counted, Stays, TypeOK
<1>2. CASE Return(Raised)
  BY <1>2, ReturnEffect
<1> QED BY <1>1, <1>2 DEF Retry

\* Calls, counters and ids keep their types.
ClientTypes ==
    /\ pc' \in {"idle", "create", "poll", "publish"} /\ call' \in Nat /\ Counted
    /\ creation' \in 0..Len(box') /\ (pc' \in {"poll", "publish"} => creation' # 0)
    /\ answer' \in [kind : {"none", "ok", "error"}, id : Nat]

LEMMA TypesKept ==
    ASSUME TypeOK, Acts, ClientTypes,
           strayCreates' \subseteq Nat, strayPublishes' \subseteq DOMAIN box
    PROVE  TypeOK'
BY ActsKeep DEF ClientTypes, Counted, TypeOK, Container

LEMMA StaysTypes ==
    ASSUME TypeOK, Acts, Counted, Stays \/ Raises
    PROVE  ClientTypes
<1>1. 0 \in 0..Len(box') /\ creation \in 0..Len(box') BY ActsKeep, Domains DEF TypeOK
<1>2. Raised \in [kind : {"none", "ok", "error"}, id : Nat] BY DEF Raised
<1> QED BY <1>1, <1>2 DEF Stays, Raises, ClientTypes, TypeOK

\* A step that asks for no other container keeps OneAsked.
LEMMA AskedShrinks ==
    ASSUME IInv, Acts, call' = call, Asked' \subseteq Asked,
           pc' \in {"create", "poll"} => pc \in {"create", "poll"}
    PROVE  OneAsked'
<1>1. Asked \subseteq DOMAIN box BY Domains DEF Asked, IInv, TypeOK, OwnContainer
<1>2. \A c \in Asked : box'[c].call = box[c].call BY <1>1, ActsKeep DEF IInv
<1> QED BY <1>2 DEF IInv, OneAsked

\* Containers that appear are of a call that was made.
LEMMA CallsKept ==
    ASSUME IInv, Acts, call' \in Nat, call' >= call,
           \A n \in Nat : Opens(n) => n <= call,
           strayCreates' \subseteq strayCreates \cup {call}
    PROVE  FromCalls'
<1>1. TypeOK /\ FromCalls /\ call \in Nat BY DEF IInv, TypeOK
<1>2. ASSUME NEW n \in strayCreates' PROVE n <= call'
  <2>1. n \in Nat /\ n <= call BY <1>1 DEF FromCalls, TypeOK
  <2> QED BY <1>1, <2>1
<1>3. \A c \in DOMAIN box : box'[c].call <= call'
  <2>1. \A c \in DOMAIN box : box[c].call \in Nat BY <1>1, Domains DEF Container
  <2> QED BY <1>1, <2>1, ActsKeep DEF FromCalls
<1>4. CASE \E n \in Nat : Opens(n)
  <2>1. PICK n \in Nat : Opens(n) BY <1>4
  <2>2. /\ box' = Append(box, [call |-> n, status |-> "IN_PROGRESS"])
        /\ box \in Seq(Container) /\ [call |-> n, status |-> "IN_PROGRESS"] \in Container
    BY <2>1, <1>1 DEF Opens, NewContainer, TypeOK, Container, Statuses
  <2>3. DOMAIN box' = DOMAIN box \cup {Len(box) + 1} /\ box'[Len(box) + 1].call = n
    BY <2>2, <1>1, AppendProperties, ActsKeep, Domains
  <2> QED BY <1>1, <1>2, <1>3, <2>1, <2>3 DEF FromCalls
<1>5. CASE DOMAIN box' = DOMAIN box
  BY <1>2, <1>3, <1>5 DEF FromCalls
<1>6. ASSUME NEW c \in DOMAIN box, NEW status, box' = [box EXCEPT ![c].status = status]
      PROVE  DOMAIN box' = DOMAIN box
  BY <1>6
<1>7. DOMAIN box' = DOMAIN box \/ \E n \in Nat : Opens(n)
  BY <1>6 DEF Acts, Untouched, Moves, GoesLive
<1> QED BY <1>4, <1>5, <1>7

\* A container goes live when it is not PUBLISHED yet, and is PUBLISHED then.
LEMMA LiveKept ==
    ASSUME IInv, Acts
    PROVE  LiveIsPublished'
<1>1. /\ TypeOK /\ LiveIsPublished /\ \A i \in DOMAIN posts : posts[i] \in DOMAIN box
      /\ DOMAIN posts = 1..Len(posts) /\ Len(posts) \in Nat /\ posts \in Seq(DOMAIN box)
      /\ DOMAIN box = 1..Len(box) /\ Len(box) \in Nat
      /\ \A c \in DOMAIN box : box[c] \in Container
  BY Domains DEF IInv, TypeOK
<1>2. CASE Untouched
  BY <1>1, <1>2 DEF Untouched, LiveIsPublished
<1>3. CASE \E n \in Nat : Opens(n)
  <2>1. PICK n \in Nat : Opens(n) BY <1>3
  <2>2. /\ box' = Append(box, [call |-> n, status |-> "IN_PROGRESS"])
        /\ box \in Seq(Container) /\ [call |-> n, status |-> "IN_PROGRESS"] \in Container
        /\ UNCHANGED posts
    BY <2>1, <1>1 DEF Opens, NewContainer, TypeOK, Container, Statuses
  <2>3. \A c \in DOMAIN box : box'[c] = box[c] BY <2>2, <1>1, AppendProperties
  <2> QED BY <1>1, <2>2, <2>3 DEF LiveIsPublished
<1>4. CASE \E c \in DOMAIN box, status \in Statuses : Moves(c, status)
  <2>1. PICK c \in DOMAIN box, status \in Statuses : Moves(c, status) BY <1>4
  <2>2. /\ \A d \in DOMAIN box : d # c => box'[d] = box[d]
        /\ \A i \in DOMAIN posts : posts[i] # c
        /\ UNCHANGED posts
    BY <1>1, <2>1 DEF Moves, LiveIsPublished
  <2> QED BY <1>1, <2>2 DEF LiveIsPublished
<1>5. CASE \E c \in DOMAIN box : GoesLive(c)
  <2>1. PICK c \in DOMAIN box : GoesLive(c) BY <1>5
  <2>2. /\ \A d \in DOMAIN box : d # c => box'[d] = box[d]
        /\ box'[c].status = "PUBLISHED"
        /\ \A i \in DOMAIN posts : posts[i] # c
    BY <1>1, <2>1 DEF GoesLive, LiveIsPublished, Container
  <2>3. /\ Len(posts') = Len(posts) + 1 /\ posts'[Len(posts) + 1] = c
        /\ \A i \in 1..Len(posts) : posts'[i] = posts[i]
        /\ DOMAIN posts' = 1..Len(posts')
    BY <1>1, <2>1, AppendProperties, ActsKeep DEF GoesLive
  <2> QED BY <1>1, <2>2, <2>3 DEF LiveIsPublished
<1> QED BY <1>2, <1>3, <1>4, <1>5 DEF Acts

\* A returned id stays that of a live post of the call.
LEMMA ReturnedKept ==
    ASSUME IInv, Acts, call' = call, answer' = answer \/ answer' = Raised
    PROVE  ReturnedIsLive'
<1>1. \A i \in DOMAIN posts : posts[i] \in DOMAIN box BY Domains DEF IInv
<1>2. CASE answer' = Raised BY <1>2 DEF Raised, ReturnedIsLive
<1>3. CASE answer' = answer BY <1>1, <1>3, ActsKeep DEF ReturnedIsLive, IInv
<1> QED BY <1>2, <1>3
-----------------------------------------------------------------------------
\* Nothing is on Threads and no call was made.
LEMMA InitIInv == Init => IInv
<1> SUFFICES ASSUME Init PROVE IInv
  OBVIOUS
<1>1. /\ box = <<>> /\ posts = <<>> /\ strayCreates = {} /\ strayPublishes = {}
      /\ pc = "idle" /\ call = 0 /\ tries = 1 /\ checks = 1 /\ creation = 0
      /\ answer = NoAnswer
  BY DEF Init
<1>2. box \in Seq([call : Nat, status : Statuses]) /\ Len(box) = 0
  BY <1>1, EmptySeq
<1>3. posts \in Seq(DOMAIN box) /\ DOMAIN posts = {} /\ DOMAIN box = {}
  BY <1>1, EmptySeq
<1>4. TypeOK
  BY <1>1, <1>2, <1>3, AttemptsAssumption DEF TypeOK, NoAnswer
<1>5. FromCalls /\ LiveIsPublished /\ OwnContainer /\ OneAsked
  BY <1>1, <1>3 DEF FromCalls, LiveIsPublished, OwnContainer, OneAsked, Asked
<1>6. ReturnedIsLive BY <1>1 DEF ReturnedIsLive, NoAnswer
<1> QED BY <1>4, <1>5, <1>6 DEF IInv

\* No container that is live or asked for is of the call that begins.
LEMMA BeginStep == ASSUME IInv, Begin PROVE IInv'
<1>1. /\ TypeOK /\ pc = "idle" /\ pc' = "create" /\ call' = call + 1
      /\ answer' = NoAnswer /\ UNCHANGED <<tries, checks, creation, threads>>
      /\ call \in Nat
  BY DEF IInv, Begin, TypeOK
<1>2. Acts BY <1>1 DEF Acts, Untouched, threads
<1>3. ClientTypes
  BY <1>1 DEF ClientTypes, Counted, TypeOK, NoAnswer, threads
<1>4. TypeOK' BY <1>1, <1>2, <1>3, TypesKept DEF TypeOK, threads, strays
<1>5. Asked' = Asked /\ Asked \subseteq DOMAIN box
  BY <1>1, Domains DEF Asked, TypeOK, threads, strays
<1>6. \A c \in Asked : box[c].call \in Nat /\ box[c].call <= call
  BY <1>1, <1>5, Domains DEF IInv, FromCalls, Container
<1>7. OneAsked'
  BY <1>1, <1>5, <1>6 DEF IInv, OneAsked, threads
<1>8. FromCalls'
  BY <1>1, Domains DEF IInv, FromCalls, TypeOK, Container, threads, strays
<1>9. LiveIsPublished' BY <1>2, LiveKept
<1>10. OwnContainer' /\ ReturnedIsLive'
  BY <1>1 DEF OwnContainer, ReturnedIsLive, NoAnswer
<1> QED BY <1>4, <1>7, <1>8, <1>9, <1>10 DEF IInv

\* A step of Threads, or an attempt that leaves the call as it was or ends it with
\* an exception: what is asked for afterwards was asked for before.
LEMMA CalmStep ==
    ASSUME IInv, Acts, Counted, Stays \/ Raises,
           \A n \in Nat : Opens(n) => n <= call,
           strayCreates' \subseteq strayCreates \cup {call},
           strayPublishes' \subseteq strayPublishes \cup {c \in {creation} : pc = "publish"},
           {posts'[i] : i \in DOMAIN posts'} \subseteq Asked
    PROVE  IInv'
<1>1. TypeOK /\ call' = call /\ call \in Nat BY DEF IInv, Stays, Raises, TypeOK
<1>2. strayCreates' \subseteq Nat /\ strayPublishes' \subseteq DOMAIN box
  BY <1>1 DEF TypeOK, IInv, OwnContainer
<1>3. TypeOK' BY <1>1, <1>2, StaysTypes, TypesKept
<1>4. FromCalls' BY <1>1, CallsKept
<1>5. LiveIsPublished' BY LiveKept
<1>6. OwnContainer' BY <1>1, ActsKeep DEF IInv, OwnContainer, Stays, Raises
<1>7. Asked' \subseteq Asked BY DEF Asked, Stays, Raises
<1>8. OneAsked' BY <1>1, <1>7, AskedShrinks DEF Stays, Raises
<1>9. ReturnedIsLive' BY <1>1, ReturnedKept DEF Stays, Raises
<1> QED BY <1>3, <1>4, <1>5, <1>6, <1>8, <1>9 DEF IInv

\* A request that fails, is refused or is not answered.
LEMMA FailStep == ASSUME IInv, AttemptFails \/ Rejected \/ TimedOut PROVE IInv'
<1>1. TypeOK /\ Untouched BY DEF IInv, AttemptFails, Rejected, TimedOut, threads, Untouched
<1>2. Counted /\ (Stays \/ Raises)
  BY <1>1, RetryEffect, ReturnEffect DEF AttemptFails, Rejected, TimedOut
<1>3. /\ strayCreates' \subseteq strayCreates \cup {call}
      /\ strayPublishes' \subseteq strayPublishes \cup {c \in {creation} : pc = "publish"}
  BY DEF AttemptFails, Rejected, TimedOut, threads, strays
<1>4. Acts /\ {posts'[i] : i \in DOMAIN posts'} \subseteq Asked
  BY <1>1 DEF Acts, Untouched, Asked
<1>5. \A n \in Nat : ~Opens(n)
  <2> SUFFICES ASSUME NEW n \in Nat, Opens(n) PROVE FALSE
    OBVIOUS
  <2>1. box' = Append(box, [call |-> n, status |-> "IN_PROGRESS"]) /\ box' = box
        /\ [call |-> n, status |-> "IN_PROGRESS"] \in Container /\ box \in Seq(Container)
    BY <1>1 DEF Opens, NewContainer, Untouched, Container, Statuses, TypeOK
  <2> QED BY <2>1, AppendProperties, LenProperties
<1> QED BY <1>2, <1>3, <1>4, <1>5, CalmStep

\* A container of the call, which is polled next.
LEMMA CreateStep == ASSUME IInv, Create PROVE IInv'
<1>1. /\ TypeOK /\ pc = "create" /\ pc' = "poll" /\ call' = call /\ answer' = answer
      /\ NewContainer(call) /\ creation' = Len(box) + 1 /\ tries' = 1
      /\ UNCHANGED <<checks, posts, strayCreates, strayPublishes>> /\ call \in Nat
  BY DEF IInv, Create, GoOn, strays, TypeOK
<1>2. Acts BY <1>1 DEF Acts, Opens
<1>3. /\ box' = Append(box, [call |-> call, status |-> "IN_PROGRESS"])
      /\ [call |-> call, status |-> "IN_PROGRESS"] \in Container /\ box \in Seq(Container)
  BY <1>1 DEF NewContainer, Container, Statuses, TypeOK
<1>4. Len(box') = Len(box) + 1 /\ box'[Len(box) + 1].call = call /\ Len(box) \in Nat
      /\ DOMAIN box' = 1..Len(box')
  BY <1>2, <1>3, <1>1, AppendProperties, ActsKeep, LenProperties
<1>5. ClientTypes
  BY <1>1, <1>4, AttemptsAssumption DEF ClientTypes, Counted, TypeOK
<1>6. TypeOK' BY <1>1, <1>2, <1>5, TypesKept DEF TypeOK
<1>7. \A n \in Nat : Opens(n) => n <= call
  <2> SUFFICES ASSUME NEW n \in Nat, Opens(n) PROVE n <= call
    OBVIOUS
  <2>1. box' = Append(box, [call |-> n, status |-> "IN_PROGRESS"])
        /\ [call |-> n, status |-> "IN_PROGRESS"] \in Container
    BY DEF Opens, NewContainer, Container, Statuses
  <2>2. box'[Len(box) + 1].call = n BY <2>1, <1>3, AppendProperties
  <2> QED BY <2>2, <1>4, <1>1
<1>8. FromCalls' BY <1>1, <1>2, <1>7, CallsKept
<1>9. OwnContainer' BY <1>1, <1>4 DEF OwnContainer
<1>10. OneAsked' BY <1>1, <1>2, AskedShrinks DEF Asked
<1> QED BY <1>1, <1>2, <1>6, <1>8, <1>9, <1>10, LiveKept, ReturnedKept DEF IInv
\* The container that an append makes is of the call it says.
LEMMA OpensCall ==
    ASSUME TypeOK, NEW n \in Nat, NewContainer(n)
    PROVE  \A m \in Nat : Opens(m) => m = n
<1> SUFFICES ASSUME NEW m \in Nat, Opens(m) PROVE m = n
  OBVIOUS
<1>1. /\ box' = Append(box, [call |-> n, status |-> "IN_PROGRESS"])
      /\ box' = Append(box, [call |-> m, status |-> "IN_PROGRESS"])
      /\ [call |-> n, status |-> "IN_PROGRESS"] \in Container
      /\ [call |-> m, status |-> "IN_PROGRESS"] \in Container /\ box \in Seq(Container)
  BY DEF Opens, NewContainer, Container, Statuses, TypeOK
<1>2. box'[Len(box) + 1].call = n /\ box'[Len(box) + 1].call = m
  BY <1>1, AppendProperties
<1> QED BY <1>2

\* A container of the call that nobody asks to publish.
LEMMA CreateUnreadableStep == ASSUME IInv, CreateUnreadable PROVE IInv'
<1>1. /\ TypeOK /\ Return(Raised) /\ NewContainer(call)
      /\ UNCHANGED <<posts, strayCreates, strayPublishes>> /\ call \in Nat
  BY DEF IInv, CreateUnreadable, strays, TypeOK
<1>2. Counted /\ Raises BY <1>1, ReturnEffect
<1>3. Acts BY <1>1 DEF Acts, Opens
<1>4. \A n \in Nat : Opens(n) => n <= call BY <1>1, OpensCall
<1>5. {posts'[i] : i \in DOMAIN posts'} \subseteq Asked BY <1>1 DEF Asked
<1> QED BY <1>1, <1>2, <1>3, <1>4, <1>5, CalmStep

\* A step that leaves the containers alone appends none.
LEMMA NoneOpened ==
    ASSUME TypeOK, DOMAIN box' = DOMAIN box
    PROVE  \A n \in Nat : ~Opens(n)
<1> SUFFICES ASSUME NEW n \in Nat, Opens(n) PROVE FALSE
  OBVIOUS
<1>1. box' = Append(box, [call |-> n, status |-> "IN_PROGRESS"])
      /\ [call |-> n, status |-> "IN_PROGRESS"] \in Container /\ box \in Seq(Container)
  BY DEF Opens, NewContainer, Container, Statuses, TypeOK
<1>2. /\ Len(box') = Len(box) + 1 /\ DOMAIN box' = 1..Len(box')
      /\ Len(box) \in Nat /\ DOMAIN box = 1..Len(box)
  BY <1>1, AppendProperties, LenProperties
<1>3. 1..(Len(box) + 1) = 1..Len(box) BY <1>2
<1>4. \A m \in Nat : 1..(m + 1) # 1..m
  <2> TAKE m \in Nat
  <2>1. m + 1 \in 1..(m + 1) /\ m + 1 \notin 1..m OBVIOUS
  <2> QED BY <2>1
<1> QED BY <1>2, <1>3, <1>4

\* The one step after which another container may be asked for: it is the call's own,
\* and no other of the call was asked for.
LEMMA PollStep == ASSUME IInv, Poll PROVE IInv'
<1>1. /\ TypeOK /\ pc = "poll" /\ Untouched /\ UNCHANGED <<strayCreates, strayPublishes>>
      /\ creation \in DOMAIN box /\ box[creation].call = call /\ call \in Nat
  BY DEF IInv, Poll, threads, strays, Untouched, TypeOK, OwnContainer
<1>2. Acts /\ {posts'[i] : i \in DOMAIN posts'} \subseteq Asked
  BY <1>1 DEF Acts, Untouched, Asked
<1>3. \A n \in Nat : ~Opens(n) BY <1>1, NoneOpened DEF Untouched
<1>4. CASE GoOn("publish") /\ UNCHANGED <<checks, creation>>
  <2>1. /\ pc' = "publish" /\ tries' = 1
        /\ UNCHANGED <<call, answer, checks, creation, box, posts>>
    BY <1>1, <1>4 DEF GoOn, Untouched
  <2>2. ClientTypes BY <1>1, <2>1, AttemptsAssumption DEF ClientTypes, Counted, TypeOK
  <2>3. TypeOK' BY <1>1, <1>2, <2>2, TypesKept DEF TypeOK
  <2>4. FromCalls' /\ LiveIsPublished' /\ OwnContainer' /\ ReturnedIsLive'
    BY <1>1, <2>1 DEF IInv, FromCalls, LiveIsPublished, OwnContainer, ReturnedIsLive
  <2>5. Asked' = Asked \cup {creation} BY <1>1, <2>1 DEF Asked
  <2>6. OneAsked' BY <1>1, <2>1, <2>5 DEF IInv, OneAsked
  <2> QED BY <2>3, <2>4, <2>6 DEF IInv
<1>5. CASE Return(Raised)
  BY <1>1, <1>2, <1>3, <1>5, ReturnEffect, CalmStep
<1>6. CASE checks < MaxChecks /\ checks' = checks + 1 /\ GoOn("poll") /\ UNCHANGED creation
  <2>1. Stays BY <1>1, <1>6 DEF GoOn, Stays
  <2>2. Counted BY <1>1, <1>6, AttemptsAssumption DEF GoOn, Counted, TypeOK
  <2> QED BY <1>1, <1>2, <1>3, <2>1, <2>2, CalmStep
<1> QED BY <1>4, <1>5, <1>6 DEF Poll, Wait

\* What accepting a publish request does: at most, the container goes live.
LEMMA AcceptEffect ==
    ASSUME TypeOK, NEW c \in DOMAIN box, Accept(c)
    PROVE  /\ Acts /\ DOMAIN box' = DOMAIN box
           /\ GoesLive(c) \/ (Untouched /\ box[c].status = "PUBLISHED")
           /\ \A i \in DOMAIN posts' : i \in DOMAIN posts \/ posts'[i] = c
           /\ {posts'[i] : i \in DOMAIN posts'} \subseteq {posts[i] : i \in DOMAIN posts} \cup {c}
<1>1. GoesLive(c) \/ (Untouched /\ box[c].status = "PUBLISHED")
  BY DEF Accept, GoesLive, Untouched
<1>2. Acts BY <1>1 DEF Acts
<1>3. DOMAIN box' = DOMAIN box BY <1>1 DEF GoesLive, Untouched
<1>4. CASE GoesLive(c)
  <2>1. /\ posts' = Append(posts, c) /\ posts \in Seq(DOMAIN box)
        /\ DOMAIN posts' = 1..Len(posts') /\ Len(posts) \in Nat
        /\ DOMAIN posts = 1..Len(posts)
    BY <1>2, <1>4, ActsKeep, Domains DEF GoesLive, TypeOK
  <2>2. /\ Len(posts') = Len(posts) + 1 /\ posts'[Len(posts) + 1] = c
        /\ \A i \in 1..Len(posts) : posts'[i] = posts[i]
    BY <2>1, AppendProperties
  <2> QED BY <1>1, <1>2, <1>3, <2>1, <2>2
<1>5. CASE Untouched
  BY <1>1, <1>2, <1>3, <1>5 DEF Untouched
<1> QED BY <1>1, <1>4, <1>5

\* The request that ends the call: its container is live, whatever is returned.
LEMMA PublishStep == ASSUME IInv, Publish \/ PublishUnreadable PROVE IInv'
<1>1. /\ TypeOK /\ pc = "publish" /\ Accept(creation)
      /\ UNCHANGED <<strayCreates, strayPublishes>>
      /\ creation \in DOMAIN box /\ box[creation].call = call /\ call \in Nat
  BY DEF IInv, Publish, PublishUnreadable, strays, TypeOK, OwnContainer
<1>2. /\ Acts /\ DOMAIN box' = DOMAIN box
      /\ {posts'[i] : i \in DOMAIN posts'} \subseteq Asked
  BY <1>1, AcceptEffect DEF Asked
<1>3. \A n \in Nat : ~Opens(n) BY <1>1, <1>2, NoneOpened
<1>4. CASE Return(Raised)
  BY <1>1, <1>2, <1>3, <1>4, ReturnEffect, CalmStep
<1>5. CASE \E i \in MediaId(creation) : Return([kind |-> "ok", id |-> i])
  <2>1. PICK i \in DOMAIN posts' : posts'[i] = creation /\ Return([kind |-> "ok", id |-> i])
    BY <1>5 DEF MediaId
  <2>2. /\ Counted /\ pc' = "idle" /\ creation' = 0 /\ call' = call
        /\ answer' = [kind |-> "ok", id |-> i]
    BY <1>1, <2>1, ReturnEffect
  <2>3. i \in Nat /\ 0 \in 0..Len(box') BY <1>1, <1>2, <2>1, ActsKeep
  <2>4. ClientTypes BY <1>1, <2>2, <2>3 DEF ClientTypes
  <2>5. TypeOK' BY <1>1, <1>2, <2>4, TypesKept DEF TypeOK
  <2>6. FromCalls' BY <1>1, <1>2, <1>3, <2>2, CallsKept
  <2>7. Asked' \subseteq Asked BY <1>1, <1>2, <2>2 DEF Asked
  <2>8. OneAsked' BY <1>2, <2>2, <2>7, AskedShrinks
  <2>9. ReturnedIsLive' BY <1>1, <1>2, <2>1, <2>2, ActsKeep DEF ReturnedIsLive
  <2> QED BY <1>2, <2>2, <2>5, <2>6, <2>8, <2>9, LiveKept DEF IInv, OwnContainer
<1> QED BY <1>4, <1>5 DEF Publish, PublishUnreadable

\* Threads carries out what was asked for, or processes a container.
LEMMA ServerStep == ASSUME IInv, Server PROVE IInv'
<1>1. TypeOK /\ call \in Nat BY DEF IInv, TypeOK
<1>2. Counted /\ Stays BY <1>1 DEF Server, Process, CreateLate, PublishLate, client, Counted,
                                   Stays, TypeOK
<1>3. ASSUME NEW c \in DOMAIN box, Process(c) PROVE IInv'
  <2>1. /\ \E status \in Statuses : Moves(c, status)
        /\ UNCHANGED <<posts, strayCreates, strayPublishes>> /\ DOMAIN box' = DOMAIN box
    BY <1>3 DEF Process, Moves, Statuses, strays
  <2>2. Acts /\ {posts'[i] : i \in DOMAIN posts'} \subseteq Asked BY <2>1 DEF Acts, Asked
  <2>3. \A n \in Nat : ~Opens(n) BY <1>1, <2>1, NoneOpened
  <2> QED BY <1>2, <2>1, <2>2, <2>3, CalmStep
<1>4. ASSUME NEW n \in strayCreates, CreateLate(n) PROVE IInv'
  <2>1. /\ NewContainer(n) /\ UNCHANGED <<posts, strayPublishes>>
        /\ strayCreates' \subseteq strayCreates /\ n \in Nat /\ n <= call
    BY <1>1, <1>4 DEF CreateLate, IInv, FromCalls, TypeOK
  <2>2. Acts /\ {posts'[i] : i \in DOMAIN posts'} \subseteq Asked BY <2>1 DEF Acts, Opens, Asked
  <2>3. \A m \in Nat : Opens(m) => m <= call BY <1>1, <2>1, OpensCall
  <2> QED BY <1>2, <2>1, <2>2, <2>3, CalmStep
<1>5. ASSUME NEW c \in strayPublishes, PublishLate(c) PROVE IInv'
  <2>1. /\ Accept(c) /\ c \in DOMAIN box /\ strayPublishes' \subseteq strayPublishes
        /\ UNCHANGED strayCreates
    BY <1>1, <1>5 DEF PublishLate, TypeOK
  <2>2. Acts /\ DOMAIN box' = DOMAIN box /\ {posts'[i] : i \in DOMAIN posts'} \subseteq Asked
    BY <1>1, <2>1, <1>5, AcceptEffect DEF Asked
  <2>3. \A n \in Nat : ~Opens(n) BY <1>1, <2>2, NoneOpened
  <2> QED BY <1>2, <2>1, <2>2, <2>3, CalmStep
<1> QED BY <1>3, <1>4, <1>5 DEF Server

\* Nothing else happens.
LEMMA NextIInv == IInv /\ [Next]_vars => IInv'
<1> SUFFICES ASSUME IInv, [Next]_vars PROVE IInv'
  OBVIOUS
<1>1. CASE CallStep
  BY <1>1, FailStep, CreateStep, CreateUnreadableStep, PollStep, PublishStep DEF CallStep
<1>2. CASE UNCHANGED vars
  BY <1>2 DEF vars, client, threads, strays, IInv, TypeOK, FromCalls, LiveIsPublished,
              OwnContainer, OneAsked, Asked, ReturnedIsLive
<1> QED BY <1>1, <1>2, BeginStep, ServerStep DEF Next

LEMMA Invariance == Spec => []IInv
BY InitIInv, NextIInv, PTL DEF Spec

\* No request is tried, and no container polled, more often than the settings say.
THEOREM PostTypeCorrect == Spec => []TypeOK
BY Invariance, PTL DEF IInv

\* One call puts at most one post on the feed, however its requests are retried,
\* lost and carried out late.
THEOREM OnePostPerCall == Spec => []OneLive
<1>1. IInv => OneLive
  BY DEF IInv, OneAsked, LiveIsPublished, OneLive, Asked
<1> QED BY <1>1, Invariance, PTL

\* The id that is recorded is that of a live post of the call.
THEOREM ReturnedPostIsLive == Spec => []ReturnedIsLive
BY Invariance, PTL DEF IInv
-----------------------------------------------------------------------------
\* The variables of PostCall, as Seen takes them.
Stage == CASE pc = "idle" -> "idle"
           [] pc \in {"create", "poll"} -> "preparing"
           [] pc = "publish" -> "publishing"
Strayed == {box[c].call : c \in strayPublishes}
Open == Strayed \cup {n \in {call} : pc = "publish"}
LiveCalls == [i \in DOMAIN posts |-> box[posts[i]].call]

\* Intervals from 1 have one length.
LEMMA SameLength == \A m, n \in Nat : 1..m = 1..n => m = n
<1> SUFFICES ASSUME NEW m \in Nat, NEW n \in Nat, 1..m = 1..n PROVE m = n
  OBVIOUS
<1>1. n = 0 \/ n \in 1..m BY n \in 1..n \/ n = 0
<1>2. m = 0 \/ m \in 1..n BY m \in 1..m \/ m = 0
<1> QED BY <1>1, <1>2

\* A function on 1..n is a sequence of length n.
LEMMA SeqOfFunction ==
    ASSUME NEW n \in Nat, NEW f \in [1..n -> Nat]
    PROVE  f \in Seq(Nat) /\ Len(f) = n
<1>1. f \in Seq(Nat) BY SeqDef
<1>2. Len(f) \in Nat /\ DOMAIN f = 1..Len(f) BY <1>1, LenProperties
<1>3. 1..Len(f) = 1..n BY <1>2
<1> QED BY <1>1, <1>2, <1>3, SameLength

\* What is live stays so; a container that goes live adds its call.
LEMMA LiveUnchanged ==
    ASSUME TypeOK, Acts, posts' = posts
    PROVE  LiveCalls' = LiveCalls
<1>1. \A i \in DOMAIN posts : box'[posts[i]].call = box[posts[i]].call
  BY Domains, ActsKeep
<1> QED BY <1>1 DEF LiveCalls

LEMMA LiveAppends ==
    ASSUME TypeOK, TypeOK', NEW c \in DOMAIN box, GoesLive(c)
    PROVE  LiveCalls' = Append(LiveCalls, box[c].call)
<1>1. Acts BY DEF Acts
<1>2. /\ posts' = Append(posts, c) /\ posts \in Seq(DOMAIN box)
      /\ \A i \in DOMAIN posts : posts[i] \in DOMAIN box
      /\ \A d \in DOMAIN box : box'[d].call = box[d].call
      /\ Len(posts) \in Nat /\ DOMAIN posts = 1..Len(posts)
      /\ DOMAIN posts' = 1..Len(posts')
      /\ box[c].call \in Nat
  BY <1>1, Domains, ActsKeep DEF GoesLive, TypeOK, Container
<1>3. /\ Len(posts') = Len(posts) + 1 /\ posts'[Len(posts) + 1] = c
      /\ \A i \in 1..Len(posts) : posts'[i] = posts[i]
  BY <1>2, AppendProperties
<1>4. LiveCalls \in Seq(Nat) /\ Len(LiveCalls) = Len(posts)
  <2>1. \A i \in DOMAIN posts : box[posts[i]].call \in Nat BY Domains DEF Container
  <2>2. LiveCalls \in [1..Len(posts) -> Nat] BY <1>2, <2>1 DEF LiveCalls
  <2> QED BY <1>2, <2>2, SeqOfFunction
<1>5. LiveCalls' \in Seq(Nat) /\ Len(LiveCalls') = Len(posts')
  <2>1. \A i \in DOMAIN posts' : posts'[i] \in DOMAIN box
    BY <1>2, <1>3
  <2>2. \A i \in DOMAIN posts' : box'[posts'[i]].call \in Nat
    BY <1>2, <2>1, Domains DEF Container
  <2>3. LiveCalls' \in [1..Len(posts') -> Nat] BY <1>2, <2>2 DEF LiveCalls
  <2>4. Len(posts') \in Nat BY <1>2, <1>3
  <2> QED BY <2>3, <2>4, SeqOfFunction
<1> DEFINE after == Append(LiveCalls, box[c].call)
<1>6. /\ after \in Seq(Nat) /\ Len(after) = Len(posts) + 1
      /\ after[Len(posts) + 1] = box[c].call
      /\ \A i \in 1..Len(posts) : after[i] = LiveCalls[i]
  BY <1>2, <1>4, AppendProperties
<1>7. \A i \in 1..Len(posts) : LiveCalls'[i] = LiveCalls[i]
  BY <1>2, <1>3 DEF LiveCalls
<1>8. LiveCalls'[Len(posts) + 1] = box[c].call
  BY <1>2, <1>3 DEF LiveCalls
<1> HIDE DEF after
<1>9. \A i \in 1..Len(LiveCalls') : LiveCalls'[i] = after[i]
  <2> SUFFICES ASSUME NEW i \in 1..(Len(posts) + 1) PROVE LiveCalls'[i] = after[i]
    BY <1>3, <1>5
  <2>1. i \in 1..Len(posts) \/ i = Len(posts) + 1 BY <1>2
  <2> QED BY <2>1, <1>6, <1>7, <1>8
<1>10. LiveCalls' = after BY <1>3, <1>5, <1>6, <1>9, SeqEqual
<1> QED BY <1>10 DEF after
\* A step in which PostCall sees nothing, as the call goes on.
Quiet == Stage' = Stage /\ Open' = Open /\ UNCHANGED <<call, LiveCalls, answer>>

LEMMA QuietStutters == Quiet => UNCHANGED Seen!postVars
BY DEF Quiet, Stage, Open, Strayed, LiveCalls, Seen!postVars

\* A call that ends with an exception: it gave up its preparation, or its
\* publication is no longer asked for, or is still on its way.
LEMMA RaiseImplements ==
    ASSUME IInv, Raises, pc # "idle", UNCHANGED LiveCalls,
           Strayed' \in {Strayed, Strayed \cup {n \in {call} : pc = "publish"}}
    PROVE  Seen!PostNext
<1>1. /\ pc \in {"create", "poll", "publish"} /\ pc' = "idle" /\ call' = call
      /\ answer' = Seen!Raised
  BY DEF IInv, TypeOK, Raises, Raised, Seen!Raised
<1>2. CASE pc \in {"create", "poll"}
  <2>1. Stage = "preparing" /\ Stage' = "idle" BY <1>1, <1>2 DEF Stage
  <2>2. Open' = Open BY <1>1, <1>2 DEF Open
  <2> QED BY <1>1, <2>1, <2>2 DEF Stage, Open, Strayed, LiveCalls, Seen!PostNext, Seen!GiveUp
<1>3. CASE pc = "publish"
  <2>1. Stage = "publishing" /\ Stage' = "idle" BY <1>1, <1>3 DEF Stage
  <2>2. Open' \in {Open, Open \ {call}}
    <3>1. Open = Strayed \cup {call} /\ Open' = Strayed' BY <1>1, <1>3 DEF Open
    <3> QED BY <1>3, <3>1
  <2> QED BY <1>1, <2>1, <2>2 DEF Stage, Open, Strayed, LiveCalls, Seen!PostNext, Seen!Publish
<1> QED BY <1>1, <1>2, <1>3

\* A publication that is carried out, now or late: of a call that asked for it and is
\* not live yet, or is live already.
LEMMA AcceptImplements ==
    ASSUME IInv, TypeOK', NEW c \in Asked, Accept(c)
    PROVE  \/ UNCHANGED LiveCalls
           \/ /\ \A i \in DOMAIN LiveCalls : LiveCalls[i] # box[c].call
              /\ LiveCalls' = Append(LiveCalls, box[c].call)
<1>1. TypeOK /\ c \in DOMAIN box
  BY Domains DEF IInv, Asked, TypeOK, OwnContainer
<1>2. Acts /\ (GoesLive(c) \/ Untouched) BY <1>1, AcceptEffect
<1>3. CASE Untouched BY <1>1, <1>2, <1>3, LiveUnchanged DEF Untouched
<1>4. CASE GoesLive(c)
  <2>1. LiveCalls' = Append(LiveCalls, box[c].call) BY <1>1, <1>4, LiveAppends
  <2>2. ASSUME NEW i \in DOMAIN posts PROVE box[posts[i]].call # box[c].call
    <3>1. posts[i] \in Asked /\ posts[i] # c
      BY <1>4 DEF Asked, GoesLive, IInv, LiveIsPublished
    <3> QED BY <3>1 DEF IInv, OneAsked
  <2>3. \A i \in DOMAIN LiveCalls : LiveCalls[i] # box[c].call BY <2>2 DEF LiveCalls
  <2> QED BY <2>1, <2>3
<1> QED BY <1>2, <1>3, <1>4

\* A request that fails, is refused or is not answered.
LEMMA FailImplements ==
    ASSUME IInv, AttemptFails \/ Rejected \/ TimedOut
    PROVE  Seen!PostNext \/ UNCHANGED Seen!postVars
<1>1. /\ TypeOK /\ OwnContainer /\ Untouched /\ pc # "idle"
      /\ strayPublishes' = strayPublishes
            \/ strayPublishes' = strayPublishes \cup {c \in {creation} : pc = "publish"}
  BY DEF IInv, AttemptFails, Rejected, TimedOut, threads, strays, Untouched
<1>2. Stays \/ Raises
  BY <1>1, RetryEffect, ReturnEffect DEF AttemptFails, Rejected, TimedOut
<1>3. UNCHANGED LiveCalls BY <1>1 DEF Untouched, LiveCalls
<1>4. Strayed' \in {Strayed, Strayed \cup {n \in {call} : pc = "publish"}}
  BY <1>1 DEF Strayed, Untouched, OwnContainer
<1>5. CASE Stays
  <2>1. Stage' = Stage /\ Open' = Open BY <1>4, <1>5 DEF Stays, Stage, Open
  <2> QED BY <1>3, <1>5, <2>1, QuietStutters DEF Stays, Quiet
<1>6. CASE Raises
  BY <1>1, <1>3, <1>4, <1>6, RaiseImplements
<1> QED BY <1>2, <1>5, <1>6

\* A container that is made: PostCall goes on preparing, or gives up.
LEMMA CreateImplements ==
    ASSUME IInv, Create \/ CreateUnreadable
    PROVE  Seen!PostNext \/ UNCHANGED Seen!postVars
<1>1. /\ TypeOK /\ pc = "create" /\ NewContainer(call) /\ UNCHANGED <<posts, strayPublishes>>
      /\ call \in Nat
  BY DEF IInv, Create, CreateUnreadable, strays, TypeOK
<1>2. Acts BY <1>1 DEF Acts, Opens
<1>3. UNCHANGED LiveCalls BY <1>1, <1>2, LiveUnchanged
<1>4. UNCHANGED Strayed BY <1>1, <1>2, ActsKeep DEF Strayed, TypeOK
<1>5. CASE Create
  <2>1. pc' = "poll" /\ call' = call /\ answer' = answer BY <1>5 DEF Create, GoOn
  <2>2. Stage' = Stage /\ Open' = Open BY <1>1, <1>4, <2>1 DEF Stage, Open
  <2> QED BY <1>3, <2>1, <2>2, QuietStutters DEF Quiet
<1>6. CASE CreateUnreadable
  <2>1. Raises BY <1>1, <1>6, ReturnEffect DEF CreateUnreadable
  <2> QED BY <1>1, <1>3, <1>4, <2>1, RaiseImplements
<1> QED BY <1>5, <1>6

\* A check: the container is ready, or failed, or is asked for again.
LEMMA PollImplements ==
    ASSUME IInv, Poll
    PROVE  Seen!PostNext \/ UNCHANGED Seen!postVars
<1>1. TypeOK /\ pc = "poll" /\ UNCHANGED <<box, posts, strayPublishes>>
  BY DEF IInv, Poll, threads, strays
<1>2. UNCHANGED <<LiveCalls, Strayed>> BY <1>1 DEF LiveCalls, Strayed
<1>3. CASE GoOn("publish") /\ UNCHANGED <<checks, creation>>
  <2>1. pc' = "publish" /\ call' = call /\ answer' = answer BY <1>3 DEF GoOn
  <2>2. Stage = "preparing" /\ Stage' = "publishing" BY <1>1, <2>1 DEF Stage
  <2>3. Open' = Open \cup {call} BY <1>1, <1>2, <2>1 DEF Open
  <2> QED BY <1>2, <2>1, <2>2, <2>3
          DEF Stage, Open, Strayed, LiveCalls, Seen!PostNext, Seen!Ready
<1>4. CASE Return(Raised)
  BY <1>1, <1>2, <1>4, ReturnEffect, RaiseImplements
<1>5. CASE GoOn("poll")
  <2>1. Stage' = Stage /\ Open' = Open /\ UNCHANGED <<call, answer>>
    BY <1>1, <1>2, <1>5 DEF GoOn, Stage, Open
  <2> QED BY <1>2, <2>1, QuietStutters DEF Quiet
<1> QED BY <1>3, <1>4, <1>5 DEF Poll, Wait
\* The publication is carried out: the post is live, and its id is returned or not.
LEMMA PublishImplements ==
    ASSUME IInv, TypeOK', Publish \/ PublishUnreadable
    PROVE  Seen!PostNext
<1>1. /\ TypeOK /\ pc = "publish" /\ Accept(creation) /\ UNCHANGED strayPublishes
      /\ creation \in DOMAIN box /\ box[creation].call = call /\ creation \in Asked
  BY DEF IInv, Publish, PublishUnreadable, strays, OwnContainer, Asked
<1>2. Acts BY <1>1, AcceptEffect
<1>3. \/ UNCHANGED LiveCalls
      \/ /\ \A i \in DOMAIN LiveCalls : LiveCalls[i] # call
         /\ LiveCalls' = Append(LiveCalls, call)
  BY <1>1, AcceptImplements
<1>4. UNCHANGED Strayed BY <1>1, <1>2, ActsKeep DEF Strayed, TypeOK
<1>5. PICK a : Return(a) /\ (a = Raised \/ \E i \in MediaId(creation) : a = [kind |-> "ok", id |-> i])
  BY DEF Publish, PublishUnreadable
<1>6. pc' = "idle" /\ call' = call /\ answer' = a BY <1>1, <1>5, ReturnEffect
<1>7. Stage = "publishing" /\ Stage' = "idle" BY <1>1, <1>6 DEF Stage
<1>8. Open = Strayed \cup {call} /\ Open' = Strayed BY <1>1, <1>4, <1>6 DEF Open
<1>9. call \in Open /\ Open' \in {Open, Open \ {call}} BY <1>8
<1>10. \/ answer' = Seen!Raised
       \/ \E i \in DOMAIN LiveCalls' : /\ LiveCalls'[i] = call
                                       /\ answer' = [kind |-> "ok", id |-> i]
  <2>1. CASE a = Raised BY <1>6, <2>1 DEF Raised, Seen!Raised
  <2>2. ASSUME NEW i \in MediaId(creation), a = [kind |-> "ok", id |-> i]
        PROVE  /\ i \in DOMAIN LiveCalls' /\ LiveCalls'[i] = call
               /\ answer' = [kind |-> "ok", id |-> i]
    BY <1>1, <1>2, <1>6, <2>2, ActsKeep DEF MediaId, LiveCalls
  <2> QED BY <1>5, <2>1, <2>2
<1>11. (\A i \in DOMAIN LiveCalls : LiveCalls[i] # call) => call \notin Seen!Live
  BY DEF LiveCalls, Seen!Live
<1>12. UNCHANGED LiveCalls \/ Seen!GoLive(call)
  BY <1>3, <1>9, <1>11 DEF Open, Strayed, LiveCalls, Seen!GoLive
<1>13. Seen!Publish
  BY <1>6, <1>7, <1>9, <1>10, <1>12 DEF Stage, Open, Strayed, LiveCalls, Seen!Publish
<1> QED BY <1>13 DEF Seen!PostNext

\* The publication of call n is carried out late.
LEMMA LateIs ==
    ASSUME NEW n \in Open, Open' \in {Open, Open \ {n}}, Stage' = Stage,
           UNCHANGED LiveCalls \/ Seen!GoLive(n), UNCHANGED <<call, answer>>
    PROVE  Seen!Late
<1> SUFFICES \E m \in Open : /\ Seen!GoLive(m) \/ UNCHANGED LiveCalls
                             /\ Open' \in {Open, Open \ {m}}
                             /\ UNCHANGED <<Stage, call, answer>>
  BY DEF Stage, Open, Strayed, LiveCalls, Seen!Late
<1> QED OBVIOUS

\* What Threads does: only a late publication is seen.
LEMMA ServerImplements ==
    ASSUME IInv, TypeOK', Server
    PROVE  Seen!PostNext \/ UNCHANGED Seen!postVars
<1>1. /\ TypeOK /\ UNCHANGED <<pc, call, creation, answer>> /\ call \in Nat
      /\ OwnContainer
  BY DEF IInv, Server, Process, CreateLate, PublishLate, client, TypeOK
<1>2. Stage' = Stage BY <1>1 DEF Stage
<1>3. ASSUME Acts, UNCHANGED <<posts, strayPublishes>>
      PROVE  UNCHANGED Seen!postVars
  <2>1. UNCHANGED <<LiveCalls, Strayed>>
    <3>1. LiveCalls' = LiveCalls BY <1>1, <1>3, LiveUnchanged
    <3>2. \A c \in strayPublishes : box'[c].call = box[c].call
      BY <1>1, <1>3, ActsKeep DEF TypeOK
    <3>3. Strayed' = Strayed BY <1>3, <3>2 DEF Strayed
    <3> QED BY <3>1, <3>3
  <2>2. Open' = Open BY <1>1, <2>1 DEF Open
  <2> QED BY <1>1, <1>2, <2>1, <2>2, QuietStutters DEF Quiet
<1>4. ASSUME NEW c \in DOMAIN box, Process(c) PROVE UNCHANGED Seen!postVars
  <2>1. Acts /\ UNCHANGED <<posts, strayPublishes>>
    BY <1>4 DEF Process, Acts, Moves, Statuses, strays
  <2> QED BY <1>3, <2>1
<1>5. ASSUME NEW n \in strayCreates, CreateLate(n) PROVE UNCHANGED Seen!postVars
  <2>1. Acts /\ UNCHANGED <<posts, strayPublishes>>
    BY <1>1, <1>5 DEF CreateLate, Acts, Opens, TypeOK
  <2> QED BY <1>3, <2>1
<1>6. ASSUME NEW c \in strayPublishes, PublishLate(c) PROVE Seen!PostNext
  <2>1. PICK n : n = box[c].call OBVIOUS
  <2>2. /\ Accept(c) /\ c \in DOMAIN box /\ c \in Asked
        /\ strayPublishes' = strayPublishes \ {c}
    BY <1>1, <1>6 DEF PublishLate, TypeOK, Asked
  <2>3. Acts BY <1>1, <2>2, AcceptEffect
  <2>4. \/ UNCHANGED LiveCalls
        \/ /\ \A i \in DOMAIN LiveCalls : LiveCalls[i] # n
           /\ LiveCalls' = Append(LiveCalls, n)
    BY <2>1, <2>2, AcceptImplements
  <2>5. Strayed' \subseteq Strayed /\ Strayed \ {n} \subseteq Strayed' /\ n \in Strayed
    <3>1. \A d \in strayPublishes : box'[d].call = box[d].call
      BY <1>1, <2>3, ActsKeep DEF TypeOK
    <3> QED BY <2>1, <2>2, <3>1 DEF Strayed
  <2>6. Open' \subseteq Open /\ Open \ {n} \subseteq Open' /\ n \in Open
    BY <1>1, <2>5 DEF Open
  <2>7. Open' \in {Open, Open \ {n}} BY <2>6
  <2>8. (\A i \in DOMAIN LiveCalls : LiveCalls[i] # n) => n \notin Seen!Live
    BY DEF LiveCalls, Seen!Live
  <2>9. UNCHANGED LiveCalls \/ Seen!GoLive(n)
    BY <2>4, <2>6, <2>8 DEF Open, Strayed, LiveCalls, Seen!GoLive
  <2>10. UNCHANGED <<call, answer>> BY <1>1
  <2>11. Seen!Late BY <1>2, <2>6, <2>7, <2>9, <2>10, LateIs
  <2> QED BY <2>11 DEF Seen!PostNext
<1> QED BY <1>4, <1>5, <1>6 DEF Server

\* A call begins in PostCall too.
LEMMA BeginImplements ==
    ASSUME IInv, Begin
    PROVE  Seen!PostNext
<1>1. /\ pc = "idle" /\ pc' = "create" /\ call' = call + 1 /\ answer' = NoAnswer
      /\ UNCHANGED <<box, posts, strayPublishes>>
  BY DEF Begin, threads, strays
<1>2. Stage = "idle" /\ Stage' = "preparing" BY <1>1 DEF Stage
<1>3. Open' = Open /\ LiveCalls' = LiveCalls BY <1>1 DEF Open, Strayed, LiveCalls
<1>4. Seen!Begin
  BY <1>1, <1>2, <1>3 DEF Stage, Open, Strayed, LiveCalls, NoAnswer, Seen!NoAnswer, Seen!Begin
<1> QED BY <1>4 DEF Seen!PostNext

LEMMA InitImplements == Init => Seen!PostInit
<1> SUFFICES ASSUME Init PROVE Seen!PostInit
  OBVIOUS
<1>1. /\ pc = "idle" /\ call = 0 /\ answer = NoAnswer /\ strayPublishes = {} /\ posts = <<>>
  BY DEF Init
<1>2. Stage = "idle" /\ Open = {} BY <1>1 DEF Stage, Open, Strayed
<1>3. LiveCalls = <<>>
  <2>1. posts \in Seq(Nat) /\ Len(posts) = 0 BY <1>1, EmptySeq
  <2>2. DOMAIN posts = 1..0 BY <2>1, LenProperties
  <2>3. LiveCalls \in [1..0 -> Nat] BY <2>2 DEF LiveCalls
  <2>4. LiveCalls \in Seq(Nat) /\ Len(LiveCalls) = 0 BY <2>3, SeqOfFunction
  <2> QED BY <2>4, EmptySeq
<1> QED BY <1>1, <1>2, <1>3
        DEF Stage, Open, Strayed, LiveCalls, NoAnswer, Seen!NoAnswer, Seen!PostInit

LEMMA StepImplements ==
    ASSUME IInv, IInv', [Next]_vars
    PROVE  Seen!PostNext \/ UNCHANGED Seen!postVars
<1>1. TypeOK' BY DEF IInv
<1>2. CASE CallStep
  BY <1>1, <1>2, FailImplements, CreateImplements, PollImplements, PublishImplements
     DEF CallStep
<1>3. CASE UNCHANGED vars
  <2>1. UNCHANGED <<pc, call, box, posts, strayPublishes, answer>>
    BY <1>3 DEF vars, client, threads, strays
  <2>2. Quiet BY <2>1 DEF Quiet, Stage, Open, Strayed, LiveCalls
  <2> QED BY <2>2, QuietStutters
<1> QED BY <1>1, <1>2, <1>3, BeginImplements, ServerImplements DEF Next

\* The three requests, each with its retries and its late answers, are the call that
\* the publisher reckons with.
THEOREM PostCallImplemented == Spec => ImplementsPostCall
<1>1. Init => Seen!PostInit BY InitImplements
<1>2. IInv /\ IInv' /\ [Next]_vars => [Seen!PostNext]_Seen!postVars
  BY StepImplements
<1> QED BY <1>1, <1>2, Invariance, PTL DEF Spec, ImplementsPostCall, Seen!PostSpec
=============================================================================
