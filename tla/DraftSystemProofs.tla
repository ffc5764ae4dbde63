--------------------------- MODULE DraftSystemProofs ---------------------------
(* DraftSystem for any generations, notes, answers and faults: what a doubled *)
(* queue_id comes from and what it can do, and that notes are kept, called *)
(* used only when their generation is whole, and not taken up again.          *)
EXTENDS DraftSystem, SequenceTheorems, WellFoundedInduction, TLAPS

Pick == [row : Nat \ {0}, note : Notes]
Batch == [stamp : Nat, notes : SUBSET Pick, drafts : Seq(Nat)]

\* Types, those of the variables DraftTypeOK does not name included.
Types ==
    /\ notes \in Seq(NoteRow) /\ queue \in Seq(QueueRow) /\ now \in Nat
    /\ made \in Seq(Batch)
    /\ pc \in [Jobs -> {"idle", "call", "append", "mark"}]
    /\ batch \in [Jobs -> Nat]
    /\ picked \in [Jobs -> SUBSET Pick]
    /\ drafts \in [Jobs -> Seq(Nat)]
    /\ at \in [Jobs -> (Nat \ {0}) \X Nat]
    /\ written \subseteq (Nat \ {0}) \X (Nat \ {0}) \X Nat
    /\ resent \subseteq written /\ people \in Nat

\* A row of the notes sheet with a status has a note.
StatusOfNote ==
    \A i \in DOMAIN notes : notes[i].status \in {"new", "used"} => notes[i].note \in Notes

\* Every job at work has a batch of its own, and nothing is left of the others.
OwnBatch ==
    /\ \A j \in Jobs : /\ batch[j] <= Len(made) /\ (pc[j] = "idle" <=> batch[j] = 0)
                       /\ pc[j] = "idle" => picked[j] = {}
                       /\ pc[j] \in {"idle", "call"} => drafts[j] = <<>> /\ at[j] = <<1, 0>>
    /\ \A j, k \in Jobs : batch[j] = batch[k] /\ batch[j] # 0 => j = k
    /\ \A w \in written : w[1] <= Len(made)

\* The row at a is before the row at b in an answer.
Earlier(a, b) == a[1] < b[1] \/ (a[1] = b[1] /\ a[2] < b[2])

\* A job appends the rows of its answer in order: it has written those before the
\* one it is at, and no other.
ProgressOf(j) ==
    /\ pc[j] = "call" => made[batch[j]].drafts = <<>>
    /\ pc[j] \in {"append", "mark"} =>
          /\ drafts[j] = made[batch[j]].drafts /\ drafts[j] # <<>> /\ Len(drafts[j]) <= Count
          /\ \A d \in DOMAIN drafts[j] : \A n \in 0..drafts[j][d] :
                Earlier(<<d, n>>, at[j]) => <<batch[j], d, n>> \in written
    /\ pc[j] = "append" => /\ at[j][1] \in DOMAIN drafts[j]
                           /\ at[j][2] <= drafts[j][at[j][1]]
    /\ pc[j] = "mark" => at[j][1] = Len(drafts[j]) + 1
    /\ pc[j] # "idle" =>
          \A w \in written : w[1] = batch[j] => Earlier(<<w[2], w[3]>>, at[j])
Progress == \A j \in Jobs : ProgressOf(j)

\* The id that the rows of draft s[2], reply s[3] of batch s[1] have.
IdOf(s) == <<made[s[1]].stamp, s[2], s[3]>>

\* A row has the id of the text that is on it.
Stamped == \A i \in DOMAIN queue : queue[i].src \in written /\ queue[i].id = IdOf(queue[i].src)

\* The notes of a job are those of its prompt, and as long as nobody has changed them
\* by hand they are on the rows it knows them by.
PickedHeld ==
    \A j \in Jobs : \A p \in picked[j] :
        /\ p \in made[batch[j]].notes
        /\ j \notin astray => p.row \in DOMAIN notes /\ notes[p.row].note = p.note

\* A row that a job has read is one it is going to mark, or is used.
NoneForgotten ==
    \A j \in Jobs \ (missed \cup astray) : pc[j] # "idle" =>
        \A p \in made[batch[j]].notes \ picked[j] :
            p.row \in DOMAIN notes /\ notes[p.row] = [note |-> p.note, status |-> "used"]

\* What was appended is of an answer, and its row, in its thread if it is of one, is
\* on the sheet unless a twin was written over it.
OnSheet ==
    /\ \A i \in DOMAIN queue : queue[i].seq = queue[i].id[3]
    /\ \A s \in written :
          /\ s[2] \in DOMAIN made[s[1]].drafts
          /\ \E k \in DOMAIN queue :
                /\ queue[k].id = IdOf(s)
                /\ made[s[1]].drafts[s[2]] > 0 => queue[k].threaded \/ Doubled(IdOf(s))

\* What is live is on a row that is posted, unless its id is doubled.
LiveMarked ==
    /\ live \subseteq written /\ twice \subseteq live
    /\ \A s \in live : Doubled(IdOf(s))
          \/ \E i \in DOMAIN queue : queue[i].id = IdOf(s) /\ queue[i].status = "posted"

IInv ==
    /\ Types /\ StatusOfNote /\ OwnBatch /\ Progress /\ Stamped /\ PickedHeld
    /\ IdsExplained /\ UsedMeansAppended /\ LiveMarked /\ GoesOutOnce
    /\ NoneForgotten /\ OnSheet /\ ThreadsFromParent
    /\ missed \cup astray \subseteq UnderWay

-----------------------------------------------------------------------------
\* The ways a job's step changes the sheets and the history.
Wrote(j) == pc[j] = "append" /\ \E c \in Copies(Row(j)) : Appended(j, c)
Unwritten == UNCHANGED <<queue, written, resent>>
Leaves(j) ==
    /\ pc[j] # "idle" /\ End(j) /\ (Wrote(j) \/ Unwritten)
    /\ UNCHANGED <<notes, now, made, people>>
Marks(j) == \E p \in picked[j] : Marked(j, p)
Human == (\E n \in Notes : AddNote(n)) \/ NotesByHand

\* The steps that the proofs tell apart.
LEMMA Steps ==
    ASSUME DraftNext
    PROVE  \/ \E j \in Jobs : /\ Start(j) \/ Answer(j) \/ AppendRow(j) \/ MarkNote(j)
                                 \/ MarkFails(j) \/ Leaves(j)
                             /\ UNCHANGED feed
           \/ Human /\ UNCHANGED feed
           \/ (Reviewer \/ Publisher) /\ UNCHANGED <<notes, now, job, past, people>>
<1>1. ASSUME NEW j \in Jobs, JobStep(j)
      PROVE  \/ Start(j) \/ Answer(j) \/ AppendRow(j) \/ MarkNote(j) \/ MarkFails(j)
             \/ Leaves(j)
  <2>1. ASSUME NoAnswer(j) PROVE Leaves(j)
    BY <2>1 DEF NoAnswer, Leaves, Unwritten, sheets
  <2>2. ASSUME AppendFails(j) PROVE Leaves(j)
    BY <2>2 DEF AppendFails, Leaves, Unwritten, sheets
  <2>3. ASSUME AppendUnacknowledged(j) PROVE Leaves(j)
    BY <2>3 DEF AppendUnacknowledged, Leaves, Wrote, sheets
  <2>4. ASSUME Finish(j) PROVE Leaves(j)
    BY <2>4 DEF Finish, Leaves, Unwritten, sheets
  <2>5. ASSUME Crash(j) PROVE Leaves(j)
    BY <2>5 DEF Crash, Leaves, Unwritten, sheets
  <2> QED BY <1>1, <2>1, <2>2, <2>3, <2>4, <2>5 DEF JobStep
<1>2. ASSUME Reviewer PROVE UNCHANGED <<notes, now, job, past, people>>
  BY <1>2 DEF Reviewer, Review, ApproveInSheet
<1>3. ASSUME Publisher PROVE UNCHANGED <<notes, now, job, past, people>>
  BY <1>3 DEF Publisher, Publish
<1> QED BY <1>1, <1>2, <1>3 DEF DraftNext, GenerateNext, Human

\* What the model answered, as far as it is used, is at least one draft.
LEMMA SomeDrafts ==
    ASSUME NEW a \in Answers
    PROVE  /\ FirstDrafts(a) \in Seq(Nat) /\ FirstDrafts(a) # <<>>
           /\ Len(FirstDrafts(a)) <= Count
<1>1. a \in Seq(Nat) /\ a # <<>> BY AnswersAssumption
<1>2. PICK m \in Nat : m = IF Len(a) < Count THEN Len(a) ELSE Count
  BY <1>1, LenProperties, CountAssumption
<1>3. 1 <= m /\ m <= Len(a) /\ m <= Count
  BY <1>1, <1>2, LenProperties, EmptySeq, CountAssumption
<1>4. /\ SubSeq(a, 1, m) \in Seq(Nat) /\ Len(SubSeq(a, 1, m)) = m
  BY <1>1, <1>3, SubSeqProperties, LenProperties
<1>5. FirstDrafts(a) = SubSeq(a, 1, m) BY <1>2 DEF FirstDrafts
<1> QED BY <1>3, <1>4, <1>5, EmptySeq

\* The notes a job takes are of the sheet.
LEMMA PicksOfSheet ==
    ASSUME Types, StatusOfNote
    PROVE  /\ NotesToUse \subseteq Pick
           /\ \A p \in NotesToUse : /\ p.row \in DOMAIN notes /\ notes[p.row].note = p.note
                                   /\ notes[p.row].status = "new"
<1>1. /\ Len(notes) \in Nat /\ DOMAIN notes = 1..Len(notes)
      /\ \A i \in DOMAIN notes : notes[i] \in NoteRow
  BY LenProperties, ElementOfSeq DEF Types
<1>2. ASSUME NEW p \in NotesToUse
      PROVE  /\ p \in Pick /\ p.row \in DOMAIN notes /\ notes[p.row].note = p.note
             /\ notes[p.row].status = "new"
  <2>1. PICK i \in NewRows : p = [row |-> i, note |-> notes[i].note]
    BY DEF NotesToUse
  <2>2. i \in DOMAIN notes /\ notes[i].status = "new" BY <2>1 DEF NewRows
  <2>3. notes[i].note \in Notes BY <2>2 DEF StatusOfNote
  <2> QED BY <1>1, <2>1, <2>2, <2>3 DEF Pick
<1> QED BY <1>2

\* Batches stay, with their stamps, their notes and, once there, their answers.
MadeKept ==
    /\ made' \in Seq(Batch) /\ Len(made') \in Nat /\ Len(made) <= Len(made')
    /\ DOMAIN made' = 1..Len(made')
    /\ \A b \in 1..Len(made) :
          /\ made'[b].stamp = made[b].stamp /\ made'[b].notes = made[b].notes
          /\ made[b].drafts # <<>> => made'[b].drafts = made[b].drafts

LEMMA MadeIsKept ==
    ASSUME Types, StatusOfNote, OwnBatch, Progress, DraftNext
    PROVE  MadeKept
<1>0. /\ made \in Seq(Batch) /\ Len(made) \in Nat /\ DOMAIN made = 1..Len(made)
      /\ \A b \in 1..Len(made) : made[b] \in Batch
  BY LenProperties, ElementOfSeq DEF Types
<1>1. ASSUME UNCHANGED made PROVE MadeKept
  BY <1>0, <1>1 DEF MadeKept
<1>2. ASSUME NEW j \in Jobs, Start(j) PROVE MadeKept
  <2> DEFINE b == [stamp |-> now', notes |-> NotesToUse, drafts |-> <<>>]
  <2>1. made' = Append(made, b) BY <1>2 DEF Start
  <2>2. b \in Batch
    <3>1. now' \in Nat BY <1>2, BoundsAssumption DEF Start, Types
    <3>2. NotesToUse \subseteq Pick BY PicksOfSheet
    <3>3. <<>> \in Seq(Nat) BY EmptySeq
    <3> QED BY <3>1, <3>2, <3>3 DEF Batch
  <2> HIDE DEF b
  <2>3. /\ made' \in Seq(Batch) /\ Len(made') = Len(made) + 1
        /\ \A i \in 1..Len(made) : made'[i] = made[i]
    BY <1>0, <2>1, <2>2, AppendProperties
  <2>4. DOMAIN made' = 1..Len(made') BY <2>3, LenProperties
  <2> QED BY <1>0, <2>3, <2>4 DEF MadeKept
<1>3. ASSUME NEW j \in Jobs, Answer(j) PROVE MadeKept
  <2>1. PICK a \in Answers : made' = [made EXCEPT ![batch[j]].drafts = FirstDrafts(a)]
    BY <1>3 DEF Answer
  <2>2. batch[j] \in 1..Len(made) /\ made[batch[j]].drafts = <<>>
    BY <1>3, <1>0 DEF Answer, OwnBatch, Progress, ProgressOf, Types
  <2> DEFINE e == [made[batch[j]] EXCEPT !.drafts = FirstDrafts(a)]
  <2>3. /\ e \in Batch /\ e.stamp = made[batch[j]].stamp /\ e.notes = made[batch[j]].notes
    BY <1>0, <2>2, SomeDrafts DEF Batch
  <2>4. made' = [made EXCEPT ![batch[j]] = e] BY <2>1, <2>2, <1>0
  <2> HIDE DEF e
  <2>5. /\ made' \in Seq(Batch) /\ Len(made') = Len(made)
        /\ \A i \in 1..Len(made) : made'[i] = IF i = batch[j] THEN e ELSE made[i]
    BY <1>0, <2>2, <2>3, <2>4, ExceptSeq
  <2>6. DOMAIN made' = 1..Len(made') BY <2>5, LenProperties
  <2> QED BY <1>0, <2>2, <2>3, <2>5, <2>6 DEF MadeKept
<1>4. ASSUME NEW j \in Jobs, AppendRow(j) \/ MarkNote(j) \/ MarkFails(j) \/ Leaves(j)
      PROVE  UNCHANGED made
  BY <1>4 DEF AppendRow, MarkNote, MarkFails, Marked, Leaves
<1>5. ASSUME Human PROVE UNCHANGED made
  BY <1>5 DEF Human, AddNote, NotesByHand, DeleteNote, EditNote, ByHand, past
<1>6. ASSUME UNCHANGED past PROVE UNCHANGED made BY <1>6 DEF past
<1> QED BY <1>1, <1>2, <1>3, <1>4, <1>5, <1>6, Steps

LEMMA Triple ==
    ASSUME NEW x \in Nat, NEW a \in Nat \X Nat
    PROVE  <<x>> \o a = <<x, a[1], a[2]>>
<1>1. PICK m \in Nat, n \in Nat : a = <<m, n>> OBVIOUS
<1> DEFINE u == <<x>>
           v == <<m, n>>
           t == <<x, m, n>>
<1>2. u \in Seq(Nat) /\ v \in Seq(Nat) /\ t \in Seq(Nat) OBVIOUS
<1>3. Len(u) = 1 /\ Len(v) = 2 /\ Len(t) = 3 OBVIOUS
<1>4. u[1] = x /\ v[1] = m /\ v[2] = n /\ t[1] = x /\ t[2] = m /\ t[3] = n OBVIOUS
<1> HIDE DEF u, v, t
<1>5. /\ u \o v \in Seq(Nat) /\ Len(u \o v) = Len(u) + Len(v)
      /\ \A i \in 1..(Len(u) + Len(v)) :
            (u \o v)[i] = IF i <= Len(u) THEN u[i] ELSE v[i - Len(u)]
  BY <1>2, ConcatProperties, Zenon
<1> DEFINE w == u \o v
<1>6. /\ w \in Seq(Nat) /\ Len(w) = Len(u) + Len(v)
      /\ \A i \in 1..(Len(u) + Len(v)) : w[i] = IF i <= Len(u) THEN u[i] ELSE v[i - Len(u)]
  BY <1>5
<1> HIDE DEF w
<1>7. Len(w) = 3 /\ \A i \in 1..3 : w[i] = t[i]
  <2>1. Len(w) = 3 BY <1>3, <1>6
  <2>2. w[1] = t[1] BY <1>3, <1>4, <1>6
  <2>3. w[2] = t[2] BY <1>3, <1>4, <1>6
  <2>4. w[3] = t[3] BY <1>3, <1>4, <1>6
  <2>5. \A i \in 1..3 : i = 1 \/ i = 2 \/ i = 3 OBVIOUS
  <2> QED BY <2>1, <2>2, <2>3, <2>4, <2>5
<1>8. w = t BY <1>2, <1>3, <1>6, <1>7, SeqEqual
<1> QED BY <1>1, <1>8 DEF u, v, t, w

\* Where a job goes after the row it is at.
LEMMA OnToNext ==
    ASSUME Types, Progress, NEW j \in Jobs, pc[j] = "append"
    PROVE  /\ NextRow(j) \in (Nat \ {0}) \X Nat
           /\ NextRow(j)[1] <= Len(drafts[j]) + 1
           /\ NextRow(j)[1] <= Len(drafts[j]) => NextRow(j)[2] <= drafts[j][NextRow(j)[1]]
           /\ \A d \in DOMAIN drafts[j] : \A n \in 0..drafts[j][d] :
                 Earlier(<<d, n>>, NextRow(j)) => Earlier(<<d, n>>, at[j]) \/ <<d, n>> = at[j]
           /\ \A d, n \in Nat : Earlier(<<d, n>>, at[j]) => Earlier(<<d, n>>, NextRow(j))
           /\ Earlier(at[j], NextRow(j))
<1>0. at[j] \in (Nat \ {0}) \X Nat BY DEF Types
<1>1. PICK d \in Nat \ {0}, n \in Nat : at[j] = <<d, n>> BY <1>0
<1>2. /\ d \in DOMAIN drafts[j] /\ n <= drafts[j][d] /\ drafts[j] \in Seq(Nat)
  BY <1>1 DEF Progress, ProgressOf, Types
<1>3. /\ DOMAIN drafts[j] = 1..Len(drafts[j]) /\ Len(drafts[j]) \in Nat
      /\ \A e \in DOMAIN drafts[j] : drafts[j][e] \in Nat
  BY <1>2, LenProperties, ElementOfSeq
<1>4. NextRow(j) = IF n < drafts[j][d] THEN <<d, n + 1>> ELSE <<d + 1, 0>>
  BY <1>1 DEF NextRow
<1>5. CASE n < drafts[j][d]
  <2>1. NextRow(j) = <<d, n + 1>> BY <1>4, <1>5
  <2> QED BY <2>1, <1>1, <1>2, <1>3, <1>5 DEF Earlier
<1>6. CASE ~(n < drafts[j][d])
  <2>1. NextRow(j) = <<d + 1, 0>> BY <1>4, <1>6
  <2>2. n = drafts[j][d] BY <1>2, <1>3, <1>6
  <2>3. \A e \in DOMAIN drafts[j] : \A m \in 0..drafts[j][e] :
           Earlier(<<e, m>>, NextRow(j)) => Earlier(<<e, m>>, at[j]) \/ <<e, m>> = at[j]
    <3> SUFFICES ASSUME NEW e \in DOMAIN drafts[j], NEW m \in 0..drafts[j][e],
                        Earlier(<<e, m>>, NextRow(j))
                 PROVE  Earlier(<<e, m>>, at[j]) \/ <<e, m>> = at[j]
      OBVIOUS
    <3>1. e \in Nat /\ m \in Nat /\ m <= drafts[j][e] /\ e < d + 1
      BY <2>1, <1>3 DEF Earlier
    <3>2. CASE e < d BY <3>2, <1>1 DEF Earlier
    <3>3. CASE e = d BY <3>1, <3>3, <2>2, <1>1, <1>3 DEF Earlier
    <3> QED BY <3>1, <3>2, <3>3
  <2>4. \A e, m \in Nat : Earlier(<<e, m>>, at[j]) => Earlier(<<e, m>>, NextRow(j))
    BY <2>1, <1>1 DEF Earlier
  <2> QED BY <2>1, <2>3, <2>4, <1>1, <1>2, <1>3 DEF Earlier
<1> QED BY <1>5, <1>6

-----------------------------------------------------------------------------
\* The sheets are functions on 1..Len.
LEMMA Sheets ==
    ASSUME Types
    PROVE  /\ Len(notes) \in Nat /\ DOMAIN notes = 1..Len(notes)
           /\ \A i \in DOMAIN notes : notes[i] \in NoteRow
           /\ Len(queue) \in Nat /\ DOMAIN queue = 1..Len(queue)
           /\ \A i \in DOMAIN queue : queue[i] \in QueueRow
           /\ Len(made) \in Nat /\ DOMAIN made = 1..Len(made)
           /\ \A b \in DOMAIN made : made[b] \in Batch
BY LenProperties, ElementOfSeq DEF Types

LEMMA LeastOf ==
    ASSUME NEW S \in SUBSET Nat, S # {}
    PROVE  \E n \in S : \A m \in S : n <= m
<1>1. IsWellFoundedOn(OpToRel(<, Nat), Nat) BY NatLessThanWellFounded
<1>2. PICK n \in S : \A m \in S : ~(<<m, n>> \in OpToRel(<, Nat))
  BY <1>1, WFMin, Zenon
<1>3. \A m \in S : ~(m < n) BY <1>2 DEF OpToRel
<1> QED BY <1>3

\* A write finds a row that has the id.
LEMMA FirstHasId ==
    ASSUME Types, NEW i \in DOMAIN queue
    PROVE  /\ FirstWith(queue[i].id) \in DOMAIN queue
           /\ queue[FirstWith(queue[i].id)].id = queue[i].id
           /\ FirstWith(queue[i].id) # i => Doubled(queue[i].id)
<1> DEFINE id == queue[i].id
           S == {k \in DOMAIN queue : queue[k].id = id}
           P(f) == queue[f].id = id /\ \A k \in DOMAIN queue : queue[k].id = id => f <= k
<1>1. DOMAIN queue \subseteq Nat BY Sheets
<1>2. S \in SUBSET Nat /\ S # {} BY <1>1
<1>3. PICK f \in S : \A k \in S : f <= k BY <1>2, LeastOf
<1>4. f \in DOMAIN queue /\ P(f) BY <1>3
<1>5. FirstWith(id) = CHOOSE g \in DOMAIN queue : P(g) BY DEF FirstWith
<1> HIDE DEF P
<1>6. FirstWith(id) \in DOMAIN queue /\ P(FirstWith(id)) BY <1>4, <1>5, Zenon
<1> QED BY <1>6 DEF P, Doubled

\* Rows stay where they are with their ids, and what changes is that one gets the
\* text or all of a row with its id, for the sake of a row with its id that is not posted.
MadeOf(r, f) ==
    /\ r.id = queue[f].id
    /\ \E k \in DOMAIN queue : queue[k].id = queue[f].id /\ r.src = queue[k].src
    /\ \E k \in DOMAIN queue :
          queue[k].id = queue[f].id /\ r.seq = queue[k].seq /\ r.threaded = queue[k].threaded
    /\ \/ r = queue[f]
       \/ \E k \in DOMAIN queue : queue[k].id = queue[f].id /\ queue[k].status # "posted"
Rewritten ==
    /\ queue' \in Seq(QueueRow) /\ DOMAIN queue' = DOMAIN queue
    /\ \A f \in DOMAIN queue : MadeOf(queue'[f], f)

LEMMA FunctionsAreSheets ==
    ASSUME NEW n \in Nat, NEW S, NEW f \in [1..n -> S]
    PROVE  f \in Seq(S) /\ DOMAIN f = 1..n /\ Len(f) = n
<1>1. f \in Seq(S) BY SeqDef
<1>2. PICK m \in Nat : m = Len(f) /\ DOMAIN f = 1..m BY <1>1, LenProperties
<1>3. 1..m = 1..n BY <1>2
<1>4. m = n
  <2>1. CASE m < n BY <2>1, <1>3
  <2>2. CASE n < m BY <2>2, <1>3
  <2> QED BY <2>1, <2>2
<1> QED BY <1>1, <1>2, <1>4

LEMMA CardRows ==
    ASSUME NEW i \in DOMAIN queue, NEW k \in Card(i)
    PROVE  k \in DOMAIN queue /\ queue[k].status = "draft"
BY DEF Card, InThread

LEMMA ChainRows ==
    ASSUME NEW i \in DOMAIN queue, queue[i].status = "approved", NEW k \in Chain(i)
    PROVE  k \in DOMAIN queue /\ queue[k].status = "approved"
<1>1. CASE queue[i].threaded BY <1>1 DEF Chain, InThread
<1>2. CASE ~queue[i].threaded BY <1>2 DEF Chain
<1> QED BY <1>1, <1>2

LEMMA ReviewRewrites ==
    ASSUME Types, NEW i \in DOMAIN queue, NEW status \in {"approved", "draft"}, Review(i, status)
    PROVE  Rewritten
<1> DEFINE Hit(f, k) == FirstWith(queue[k].id) = f
           K(f) == CHOOSE k \in Card(i) : Hit(f, k)
           New(f) == IF \E k \in Card(i) : Hit(f, k)
                     THEN [queue[f] EXCEPT !.status = status, !.src = queue[K(f)].src]
                     ELSE queue[f]
<1>0. /\ Len(queue) \in Nat /\ DOMAIN queue = 1..Len(queue)
      /\ \A f \in DOMAIN queue : queue[f] \in QueueRow
  BY Sheets
<1>1. queue' = [f \in DOMAIN queue |-> New(f)] BY DEF Review
<1>2. ASSUME NEW f \in DOMAIN queue
      PROVE  /\ New(f) \in QueueRow /\ MadeOf(New(f), f)
  <2>1. CASE ~\E k \in Card(i) : Hit(f, k)
    BY <2>1, <1>0 DEF MadeOf
  <2>2. CASE \E k \in Card(i) : Hit(f, k)
    <3> HIDE DEF Hit
    <3>1. K(f) \in Card(i) /\ Hit(f, K(f)) BY <2>2, Zenon
    <3> DEFINE k == K(f)
    <3>2. k \in Card(i) /\ Hit(f, k) BY <3>1
    <3>3. New(f) = [queue[f] EXCEPT !.status = status, !.src = queue[k].src] BY <2>2
    <3> HIDE DEF K, New, k
    <3>4. k \in DOMAIN queue /\ queue[k].status = "draft" BY <3>2, CardRows
    <3>5. queue[k].id = queue[f].id BY <3>2, <3>4, FirstHasId DEF Hit
    <3>6. queue[k].src \in Nat \X Nat \X Nat BY <3>4, <1>0 DEF QueueRow
    <3> DEFINE s == queue[k].src
    <3>7. s \in Nat \X Nat \X Nat /\ queue[f] \in QueueRow /\ status \in {"draft", "approved", "posted"}
      BY <3>6, <1>0
    <3>8. New(f) = [queue[f] EXCEPT !.status = status, !.src = s] BY <3>3
    <3>11. s = queue[k].src OBVIOUS
    <3> HIDE DEF s
    <3>9. /\ New(f) \in QueueRow /\ New(f).id = queue[f].id /\ New(f).src = s
          /\ New(f).seq = queue[f].seq /\ New(f).threaded = queue[f].threaded
      BY <3>7, <3>8 DEF QueueRow
    <3> QED BY <3>9, <3>4, <3>5, <3>11 DEF MadeOf
  <2> QED BY <2>1, <2>2
<1> HIDE DEF New
<1>3. queue' \in [1..Len(queue) -> QueueRow] BY <1>0, <1>1, <1>2
<1>4. queue' \in Seq(QueueRow) /\ DOMAIN queue' = DOMAIN queue
  BY <1>0, <1>3, FunctionsAreSheets
<1>5. \A f \in DOMAIN queue : queue'[f] = New(f) BY <1>1
<1>7. \A f \in DOMAIN queue : MadeOf(queue'[f], f) BY <1>2, <1>5
<1> QED BY <1>4, <1>7 DEF Rewritten

LEMMA ApprovalRewrites ==
    ASSUME Types, NEW i \in DOMAIN queue, ApproveInSheet(i)
    PROVE  Rewritten
<1> DEFINE e == [queue[i] EXCEPT !.status = "approved"]
<1>0. /\ Len(queue) \in Nat /\ DOMAIN queue = 1..Len(queue)
      /\ \A f \in DOMAIN queue : queue[f] \in QueueRow
  BY Sheets
<1>1. queue[i].status = "draft" /\ queue' = [queue EXCEPT ![i] = e]
  BY DEF ApproveInSheet
<1>3. /\ e \in QueueRow /\ e.id = queue[i].id /\ e.src = queue[i].src
      /\ e.seq = queue[i].seq /\ e.threaded = queue[i].threaded
  BY <1>0 DEF QueueRow
<1> HIDE DEF e
<1>4. queue' \in Seq(QueueRow) /\ DOMAIN queue' = DOMAIN queue
      /\ \A f \in DOMAIN queue : queue'[f] = IF f = i THEN e ELSE queue[f]
  BY <1>0, <1>1, <1>3, ExceptSeq DEF Types
<1> QED BY <1>1, <1>3, <1>4 DEF Rewritten, MadeOf

LEMMA PublishRewrites ==
    ASSUME Types, NEW i \in DOMAIN queue, Publish(i)
    PROVE  /\ Rewritten
           /\ \A k \in Chain(i) : \E f \in DOMAIN queue :
                 queue'[f].id = queue[k].id /\ queue'[f].status = "posted"
<1> DEFINE Hit(f, k) == FirstWith(queue[k].id) = f
           K(f) == CHOOSE k \in Chain(i) : Hit(f, k)
           New(f) == IF \E k \in Chain(i) : Hit(f, k)
                     THEN [queue[K(f)] EXCEPT !.status = "posted"]
                     ELSE queue[f]
<1>0. /\ Len(queue) \in Nat /\ DOMAIN queue = 1..Len(queue)
      /\ \A f \in DOMAIN queue : queue[f] \in QueueRow
  BY Sheets
<1>1. queue[i].status = "approved" /\ queue' = [f \in DOMAIN queue |-> New(f)] BY DEF Publish
<1>2. ASSUME NEW f \in DOMAIN queue
      PROVE  /\ New(f) \in QueueRow /\ MadeOf(New(f), f)
             /\ (\E k \in Chain(i) : Hit(f, k)) => New(f).status = "posted"
  <2>1. CASE ~\E k \in Chain(i) : Hit(f, k)
    BY <2>1, <1>0 DEF MadeOf
  <2>2. CASE \E k \in Chain(i) : Hit(f, k)
    <3> HIDE DEF Hit
    <3>1. K(f) \in Chain(i) /\ Hit(f, K(f)) BY <2>2, Zenon
    <3> DEFINE k == K(f)
    <3>2. k \in Chain(i) /\ Hit(f, k) BY <3>1
    <3>3. New(f) = [queue[k] EXCEPT !.status = "posted"] BY <2>2
    <3> HIDE DEF K, New, k
    <3>4. k \in DOMAIN queue /\ queue[k].status = "approved" BY <3>2, <1>1, ChainRows
    <3>5. queue[k].id = queue[f].id BY <3>2, <3>4, FirstHasId DEF Hit
    <3>6. queue[k] \in QueueRow /\ queue[k].src \in Nat \X Nat \X Nat BY <3>4, <1>0 DEF QueueRow
    <3> DEFINE r == queue[k]
    <3>7. r \in QueueRow /\ New(f) = [r EXCEPT !.status = "posted"]
          /\ r.src \in Nat \X Nat \X Nat /\ r = queue[k]
      BY <3>6, <3>3
    <3> HIDE DEF r
    <3>8. "posted" \in {"draft", "approved", "posted"} OBVIOUS
    <3>9. /\ New(f) \in QueueRow /\ New(f).id = r.id /\ New(f).src = r.src /\ New(f).status = "posted"
          /\ New(f).seq = r.seq /\ New(f).threaded = r.threaded
      BY <3>7, <3>8 DEF QueueRow
    <3> QED BY <3>9, <3>7, <3>4, <3>5 DEF MadeOf
  <2> QED BY <2>1, <2>2
<1> HIDE DEF New
<1>3. queue' \in [1..Len(queue) -> QueueRow] BY <1>0, <1>1, <1>2
<1>4. queue' \in Seq(QueueRow) /\ DOMAIN queue' = DOMAIN queue
  BY <1>0, <1>3, FunctionsAreSheets
<1>5. \A f \in DOMAIN queue : queue'[f] = New(f) BY <1>1
<1>6. ASSUME NEW k \in Chain(i)
      PROVE  \E f \in DOMAIN queue : queue'[f].id = queue[k].id /\ queue'[f].status = "posted"
  <2>1. k \in DOMAIN queue BY <1>1, ChainRows
  <2>2. FirstWith(queue[k].id) \in DOMAIN queue
        /\ queue[FirstWith(queue[k].id)].id = queue[k].id
    BY <2>1, FirstHasId
  <2>3. PICK f \in DOMAIN queue : Hit(f, k) /\ queue[f].id = queue[k].id BY <2>2
  <2> HIDE DEF Hit
  <2>4. New(f).status = "posted" /\ New(f).id = queue[f].id BY <2>3, <1>2 DEF MadeOf
  <2> QED BY <2>3, <2>4, <1>5
<1>7. \A f \in DOMAIN queue : MadeOf(queue'[f], f) BY <1>2, <1>5
<1>8. Rewritten BY <1>4, <1>7 DEF Rewritten
<1> QED BY <1>6, <1>8

\* What an append adds: a row that no one has written before, once or twice.
LEMMA AppendAdds ==
    ASSUME Types, OwnBatch, Progress, NEW j \in Jobs, Wrote(j)
    PROVE  \E w \in (Nat \ {0}) \X (Nat \ {0}) \X Nat :
              /\ w = <<batch[j], at[j][1], at[j][2]>>
              /\ w \notin written /\ written' = written \cup {w}
              /\ resent \subseteq resent' /\ resent' \subseteq written'
              /\ queue' \in Seq(QueueRow) /\ DOMAIN queue \subseteq DOMAIN queue'
              /\ \A i \in DOMAIN queue : queue'[i] = queue[i]
              /\ \E i \in DOMAIN queue' : i \notin DOMAIN queue
              /\ \A i \in DOMAIN queue' \ DOMAIN queue :
                    /\ queue'[i].src = w /\ queue'[i].id = IdOf(w) /\ queue'[i].status = "draft"
                    /\ queue'[i].seq = w[3] /\ queue'[i].threaded = (drafts[j][w[2]] > 0)
                    /\ \A k \in DOMAIN queue : k < i
                    /\ \A k \in DOMAIN queue' \ DOMAIN queue : i # k => w \in resent'
<1>0. pc[j] = "append" /\ queue \in Seq(QueueRow) BY DEF Wrote, Types
<1>1. PICK c \in Copies(Row(j)) : Appended(j, c) BY DEF Wrote
<1>2. at[j] \in (Nat \ {0}) \X Nat /\ batch[j] \in 1..Len(made) /\ Len(made) \in Nat
  BY <1>0, Sheets DEF OwnBatch, Types
<1>3. PICK b \in Nat \ {0}, d \in Nat \ {0}, n \in Nat : batch[j] = b /\ at[j] = <<d, n>>
  BY <1>2
<1> DEFINE w == <<b, d, n>>
<1>4. w \in (Nat \ {0}) \X (Nat \ {0}) \X Nat OBVIOUS
<1>5. <<batch[j]>> \o at[j] = w BY <1>3, Triple
<1>6. w \notin written
  <2> SUFFICES ASSUME w \in written PROVE FALSE OBVIOUS
  <2>1. Earlier(<<w[2], w[3]>>, at[j]) BY <1>0, <1>3 DEF Progress, ProgressOf
  <2> QED BY <2>1, <1>3 DEF Earlier
<1>7. made[b].stamp \in Nat BY <1>2, <1>3, Sheets DEF Batch
<1>8. Id(j) = IdOf(w)
  <2>1. Id(j) = <<made[b].stamp>> \o at[j] BY <1>3 DEF Id
  <2>2. Id(j) = <<made[b].stamp, d, n>> BY <2>1, <1>3, <1>7, Triple
  <2> QED BY <2>2 DEF IdOf
<1>9. /\ Row(j) \in QueueRow /\ Row(j).src = w /\ Row(j).id = IdOf(w)
      /\ Row(j).status = "draft" /\ Row(j).seq = n /\ Row(j).threaded = (drafts[j][d] > 0)
  <2>1. Row(j) = [id |-> IdOf(w), seq |-> n, threaded |-> drafts[j][d] > 0,
                  status |-> "draft", src |-> w]
    BY <1>3, <1>5, <1>8 DEF Row
  <2>2. IdOf(w) \in Nat \X Nat \X Nat BY <1>7 DEF IdOf
  <2>3. (drafts[j][d] > 0) \in BOOLEAN
    <3>1. d \in DOMAIN drafts[j] /\ drafts[j] \in Seq(Nat)
      BY <1>0, <1>3 DEF Progress, ProgressOf, Types
    <3>2. drafts[j][d] \in Nat BY <3>1, LenProperties, ElementOfSeq
    <3> QED BY <3>2
  <2> HIDE DEF w
  <2> QED BY <2>1, <2>2, <2>3, <1>4 DEF QueueRow
<1>10. /\ c \in Seq(QueueRow)
       /\ (Len(c) = 1 /\ c[1] = Row(j)) \/ (Len(c) = 2 /\ c[1] = Row(j) /\ c[2] = Row(j))
  <2>0. PICK r \in QueueRow : r = Row(j) BY <1>9
  <2>1. c = <<r>> \/ c = <<r, r>> BY <2>0 DEF Copies
  <2>2. CASE c = <<r>> BY <2>2, <2>0
  <2>3. CASE c = <<r, r>> BY <2>3, <2>0
  <2> QED BY <2>1, <2>2, <2>3
<1>11. /\ queue' = queue \o c /\ written' = written \cup {w}
       /\ resent' = IF Len(c) > 1 THEN resent \cup {w} ELSE resent
  BY <1>1, <1>5 DEF Appended
<1>12. /\ queue \o c \in Seq(QueueRow) /\ Len(queue \o c) = Len(queue) + Len(c)
       /\ \A i \in 1..(Len(queue) + Len(c)) :
             (queue \o c)[i] = IF i <= Len(queue) THEN queue[i] ELSE c[i - Len(queue)]
  BY <1>0, <1>10, ConcatProperties, Zenon
<1>13. /\ queue' \in Seq(QueueRow) /\ Len(queue') = Len(queue) + Len(c)
       /\ \A i \in 1..(Len(queue) + Len(c)) :
             queue'[i] = IF i <= Len(queue) THEN queue[i] ELSE c[i - Len(queue)]
  BY <1>11, <1>12
<1>14. /\ Len(queue) \in Nat /\ DOMAIN queue = 1..Len(queue)
       /\ DOMAIN queue' = 1..Len(queue')
  BY <1>13, Sheets, LenProperties
<1>15. \A i \in DOMAIN queue : queue'[i] = queue[i]
  <2> SUFFICES ASSUME NEW i \in DOMAIN queue PROVE queue'[i] = queue[i] OBVIOUS
  <2>1. i \in Nat /\ 1 <= i /\ i <= Len(queue) BY <1>14
  <2> QED BY <2>1, <1>10, <1>13, <1>14
<1>16. ASSUME NEW i \in DOMAIN queue' \ DOMAIN queue PROVE queue'[i] = Row(j)
  <2>1. i \in Nat /\ Len(queue) < i /\ i <= Len(queue) + Len(c)
    BY <1>10, <1>13, <1>14
  <2>2. queue'[i] = c[i - Len(queue)] BY <2>1, <1>10, <1>13, <1>14
  <2> QED BY <2>1, <2>2, <1>10, <1>14
<1>17. ASSUME NEW i \in DOMAIN queue' \ DOMAIN queue,
              NEW k \in DOMAIN queue' \ DOMAIN queue, i # k
       PROVE  w \in resent'
  <2>1. Len(c) = 2
    <3> SUFFICES ASSUME Len(c) = 1 PROVE FALSE BY <1>10
    <3>1. i = Len(queue) + 1 BY <1>13, <1>14
    <3>2. k = Len(queue) + 1 BY <1>13, <1>14
    <3> QED BY <3>1, <3>2, <1>17
  <2> QED BY <2>1, <1>11
<1>18. /\ DOMAIN queue \subseteq DOMAIN queue' /\ Len(queue) + 1 \in DOMAIN queue'
       /\ Len(queue) + 1 \notin DOMAIN queue
       /\ \A i \in DOMAIN queue' \ DOMAIN queue : \A k \in DOMAIN queue : k < i
  BY <1>10, <1>13, <1>14
<1>19. resent \subseteq resent' /\ resent' \subseteq written'
  BY <1>11 DEF Types
<1>20. w = <<batch[j], at[j][1], at[j][2]>> /\ w[2] = d /\ w[3] = n BY <1>3
<1> HIDE DEF w
<1> QED BY <1>4, <1>6, <1>9, <1>11, <1>13, <1>15, <1>16, <1>17, <1>18, <1>19, <1>20

\* Writing a row of the notes sheet touches no other row.
LEMMA PutOne ==
    ASSUME Types, NEW r \in Nat \ {0}, NEW x \in NoteRow
    PROVE  /\ Put(notes, r, x) \in Seq(NoteRow)
           /\ DOMAIN notes \subseteq DOMAIN Put(notes, r, x)
           /\ r \in DOMAIN notes => DOMAIN Put(notes, r, x) = DOMAIN notes
           /\ \A i \in DOMAIN Put(notes, r, x) :
                 \/ i = r /\ Put(notes, r, x)[i] = x
                 \/ i # r /\ i \in DOMAIN notes /\ Put(notes, r, x)[i] = notes[i]
                 \/ Put(notes, r, x)[i].status = Blank
<1>1. /\ Len(notes) \in Nat /\ DOMAIN notes = 1..Len(notes)
      /\ \A i \in DOMAIN notes : notes[i] \in NoteRow
  BY Sheets
<1>2. PICK m \in Nat : m = IF r > Len(notes) THEN r ELSE Len(notes) BY <1>1
<1> DEFINE blank == [note |-> Blank, status |-> Blank]
           p == [i \in 1..m |-> IF i = r THEN x ELSE IF i <= Len(notes) THEN notes[i] ELSE blank]
<1>3. Put(notes, r, x) = p BY <1>2 DEF Put
<1>4. blank \in NoteRow /\ blank.status = Blank BY DEF NoteRow
<1> HIDE DEF blank
<1>5. p \in [1..m -> NoteRow]
  <2> SUFFICES ASSUME NEW i \in 1..m
               PROVE  (IF i = r THEN x ELSE IF i <= Len(notes) THEN notes[i] ELSE blank) \in NoteRow
    OBVIOUS
  <2>1. i \in Nat /\ 1 <= i OBVIOUS
  <2>2. i <= Len(notes) => i \in DOMAIN notes BY <2>1, <1>1
  <2> QED BY <2>2, <1>1, <1>4
<1>6. \A i \in 1..m : \/ i = r /\ p[i] = x
                      \/ i # r /\ i \in DOMAIN notes /\ p[i] = notes[i]
                      \/ p[i].status = Blank
  <2> SUFFICES ASSUME NEW i \in 1..m
               PROVE  \/ i = r /\ p[i] = x
                      \/ i # r /\ i \in DOMAIN notes /\ p[i] = notes[i]
                      \/ p[i].status = Blank
    OBVIOUS
  <2>1. i \in Nat /\ 1 <= i OBVIOUS
  <2>2. i <= Len(notes) => i \in DOMAIN notes BY <2>1, <1>1
  <2> QED BY <2>2, <1>4
<1> HIDE DEF p
<1>7. p \in Seq(NoteRow) /\ DOMAIN p = 1..m BY <1>5, FunctionsAreSheets
<1>8. DOMAIN notes \subseteq 1..m /\ (r \in DOMAIN notes => 1..m = DOMAIN notes)
  <2>1. PICK l \in Nat : l = Len(notes) /\ DOMAIN notes = 1..l BY <1>1
  <2>2. m = IF r > l THEN r ELSE l BY <2>1, <1>2
  <2>3. l <= m /\ (r <= l => m = l) BY <2>2
  <2>4. 1..l \subseteq 1..m BY <2>3
  <2>5. r \in 1..l => m = l BY <2>3
  <2> QED BY <2>1, <2>4, <2>5
<1> QED BY <1>3, <1>6, <1>7, <1>8

LEMMA OneLess ==
    ASSUME Types, NEW r \in DOMAIN notes
    PROVE  /\ Without(notes, r) \in Seq(NoteRow)
           /\ \A i \in DOMAIN Without(notes, r) :
                 \E k \in DOMAIN notes : Without(notes, r)[i] = notes[k]
           /\ \A i \in DOMAIN Without(notes, r) :
                 /\ i \in Nat /\ (IF i < r THEN i ELSE i + 1) \in DOMAIN notes
                 /\ Without(notes, r)[i] = notes[IF i < r THEN i ELSE i + 1]
<1>1. /\ Len(notes) \in Nat /\ DOMAIN notes = 1..Len(notes)
      /\ \A i \in DOMAIN notes : notes[i] \in NoteRow
  BY Sheets
<1>0. r \in Nat /\ 1 <= r /\ r <= Len(notes) BY <1>1
<1>2. PICK m \in Nat : m = Len(notes) - 1
  <2>1. PICK l \in Nat : l = Len(notes) BY <1>1
  <2>2. l - 1 \in Nat BY <2>1, <1>0
  <2> QED BY <2>1, <2>2
<1> DEFINE p == [i \in 1..m |-> IF i < r THEN notes[i] ELSE notes[i + 1]]
<1>3. Without(notes, r) = p BY <1>2 DEF Without
<1>4. \A i \in 1..m : \E k \in DOMAIN notes : p[i] = notes[k]
  <2> SUFFICES ASSUME NEW i \in 1..m PROVE \E k \in DOMAIN notes : p[i] = notes[k] OBVIOUS
  <2>1. i \in DOMAIN notes /\ i + 1 \in DOMAIN notes BY <1>1, <1>2
  <2>2. p[i] = notes[i] \/ p[i] = notes[i + 1] OBVIOUS
  <2> QED BY <2>1, <2>2
<1>5. p \in [1..m -> NoteRow] BY <1>1, <1>4
<1>7. \A i \in 1..m : /\ i \in Nat /\ (IF i < r THEN i ELSE i + 1) \in DOMAIN notes
                      /\ p[i] = notes[IF i < r THEN i ELSE i + 1]
  BY <1>0, <1>1, <1>2
<1> HIDE DEF p
<1>6. p \in Seq(NoteRow) /\ DOMAIN p = 1..m BY <1>5, FunctionsAreSheets
<1> QED BY <1>3, <1>4, <1>6, <1>7

LEMMA NewNote ==
    ASSUME NEW n \in Notes, NEW t \in {"new", "used"}
    PROVE  [note |-> n, status |-> t] \in NoteRow
BY DEF NoteRow

\* A note is appended, once or twice, and the rows before it stay.
LEMMA AddKeeps ==
    ASSUME Types, NEW n \in Notes, AddNote(n)
    PROVE  /\ notes' \in Seq(NoteRow) /\ DOMAIN notes \subseteq DOMAIN notes'
           /\ \A i \in DOMAIN notes : notes'[i] = notes[i]
           /\ \A i \in DOMAIN notes' \ DOMAIN notes :
                 notes'[i].note = n /\ notes'[i].status = "new"
<1>0. PICK x \in NoteRow : x = [note |-> n, status |-> "new"] BY NewNote
<1>1. PICK c \in Copies(x) : notes' = notes \o c BY <1>0 DEF AddNote
<1>2. c = <<x>> \/ c = <<x, x>> BY DEF Copies
<1>3. /\ c \in Seq(NoteRow) /\ Len(c) \in Nat /\ \A i \in 1..Len(c) : c[i] = x
  <2>1. CASE c = <<x>> BY <2>1
  <2>2. CASE c = <<x, x>> BY <2>2
  <2> QED BY <1>2, <2>1, <2>2
<1>4. /\ notes' \in Seq(NoteRow) /\ Len(notes') = Len(notes) + Len(c)
      /\ \A i \in 1..(Len(notes) + Len(c)) :
            notes'[i] = IF i <= Len(notes) THEN notes[i] ELSE c[i - Len(notes)]
  BY <1>1, <1>3, ConcatProperties DEF Types
<1>5. /\ Len(notes) \in Nat /\ DOMAIN notes = 1..Len(notes) /\ DOMAIN notes' = 1..Len(notes')
  BY <1>4, Sheets, LenProperties
<1>6. DOMAIN notes \subseteq DOMAIN notes' BY <1>3, <1>4, <1>5
<1>7. ASSUME NEW i \in DOMAIN notes PROVE notes'[i] = notes[i]
  <2>1. i \in 1..(Len(notes) + Len(c)) /\ i <= Len(notes) BY <1>3, <1>5
  <2> QED BY <2>1, <1>4
<1>8. ASSUME NEW i \in DOMAIN notes' \ DOMAIN notes PROVE notes'[i] = x
  <2>1. /\ i \in 1..(Len(notes) + Len(c)) /\ ~(i <= Len(notes)) /\ i - Len(notes) \in 1..Len(c)
    BY <1>3, <1>4, <1>5
  <2> QED BY <2>1, <1>3, <1>4
<1>9. x.note = n /\ x.status = "new" BY <1>0
<1> QED BY <1>4, <1>6, <1>7, <1>8, <1>9

\* A job marks the notes that it took.
LEMMA MarkWrites ==
    ASSUME Types, NEW j \in Jobs, MarkNote(j)
    PROVE  \E p \in picked[j] :
              /\ p \in Pick /\ notes' = Put(notes, p.row, [note |-> p.note, status |-> "used"])
              /\ [note |-> p.note, status |-> "used"] \in NoteRow
              /\ Marked(j, p)
<1>1. PICK p \in picked[j] : PutUsed(p) /\ Marked(j, p) BY DEF MarkNote
<1>2. p \in Pick BY DEF Types
<1> QED BY <1>1, <1>2, NewNote DEF PutUsed, Pick

LEMMA TypesStep ==
    ASSUME Types, StatusOfNote, OwnBatch, Progress, DraftNext
    PROVE  Types'
<1>1. made' \in Seq(Batch) /\ people' \in Nat
  <2>1. ASSUME Human PROVE people' \in {people, people + 1}
    BY <2>1 DEF Human, AddNote, NotesByHand, DeleteNote, EditNote, ByHand, PeopleWrite
  <2>2. ASSUME NEW j \in Jobs,
               Start(j) \/ Answer(j) \/ AppendRow(j) \/ MarkNote(j) \/ MarkFails(j) \/ Leaves(j)
        PROVE  people' = people
    BY <2>2 DEF Start, Answer, AppendRow, MarkNote, MarkFails, Marked, Leaves
  <2>3. people' \in {people, people + 1} BY <2>1, <2>2, Steps
  <2> QED BY <2>3, MadeIsKept DEF MadeKept, Types
<1>2. CASE (Reviewer \/ Publisher) /\ UNCHANGED <<notes, now, job, past, people>>
  <2>1. Rewritten
    BY <1>2, ReviewRewrites, ApprovalRewrites, PublishRewrites DEF Reviewer, Publisher
  <2> QED BY <1>1, <1>2, <2>1 DEF Types, Rewritten, job, past
<1>3. CASE Human /\ UNCHANGED feed
  <2>1. UNCHANGED <<queue, now, job, made, written, resent>>
    BY <1>3 DEF Human, AddNote, NotesByHand, DeleteNote, EditNote, ByHand, past
  <2>2. notes' \in Seq(NoteRow)
    <3>1. ASSUME NEW n \in Notes, AddNote(n) PROVE notes' \in Seq(NoteRow)
      BY <3>1, AddKeeps
    <3>2. ASSUME NEW i \in DOMAIN notes, DeleteNote(i) PROVE notes' \in Seq(NoteRow)
      BY <3>2, OneLess DEF DeleteNote
    <3>3. ASSUME NEW i \in DOMAIN notes, NEW n \in Notes, EditNote(i, n)
          PROVE  notes' \in Seq(NoteRow)
      <4>1. i \in Nat \ {0} BY Sheets
      <4>2. [note |-> n, status |-> "new"] \in NoteRow BY NewNote
      <4> QED BY <3>3, <4>1, <4>2, PutOne DEF EditNote
    <3> QED BY <1>3, <3>1, <3>2, <3>3 DEF Human, NotesByHand
  <2> QED BY <1>1, <2>1, <2>2 DEF Types, job
<1>4. ASSUME NEW j \in Jobs,
             Start(j) \/ Answer(j) \/ AppendRow(j) \/ MarkNote(j) \/ MarkFails(j) \/ Leaves(j)
      PROVE  Types'
  <2>1. CASE Start(j)
    <3>1. batch' = [batch EXCEPT ![j] = Len(made) + 1] /\ Len(made) + 1 \in Nat
      BY <2>1, Sheets DEF Start
    <3>2. picked' = [picked EXCEPT ![j] = NotesToUse] /\ NotesToUse \subseteq Pick
      BY <2>1, PicksOfSheet DEF Start
    <3>3. now' \in Nat BY <2>1, BoundsAssumption DEF Start, Types
    <3>4. pc' = [pc EXCEPT ![j] = "call"] BY <2>1 DEF Start
    <3>5. UNCHANGED <<notes, queue, drafts, at, written, resent>> BY <2>1 DEF Start, sheets
    <3> QED BY <1>1, <3>1, <3>2, <3>3, <3>4, <3>5 DEF Types
  <2>2. CASE Answer(j)
    <3>1. PICK a \in Answers : drafts' = [drafts EXCEPT ![j] = FirstDrafts(a)]
      BY <2>2 DEF Answer
    <3>2. FirstDrafts(a) \in Seq(Nat) BY SomeDrafts
    <3>3. pc' = [pc EXCEPT ![j] = "append"] BY <2>2 DEF Answer
    <3>4. UNCHANGED <<notes, queue, now, batch, picked, at, written, resent>>
      BY <2>2 DEF Answer, sheets
    <3> QED BY <1>1, <3>1, <3>2, <3>3, <3>4 DEF Types
  <2>3. CASE AppendRow(j)
    <3>1. Wrote(j) BY <2>3 DEF AppendRow, Wrote
    <3>2. /\ queue' \in Seq(QueueRow) /\ resent' \subseteq written'
          /\ written' \subseteq (Nat \ {0}) \X (Nat \ {0}) \X Nat
      BY <3>1, AppendAdds DEF Types
    <3>3. NextRow(j) \in (Nat \ {0}) \X Nat BY <2>3, OnToNext DEF AppendRow
    <3>4. at' = [at EXCEPT ![j] = NextRow(j)] BY <2>3 DEF AppendRow, Advance
    <3>5. pc' \in [Jobs -> {"idle", "call", "append", "mark"}]
      BY <2>3 DEF AppendRow, Advance, Types
    <3>6. UNCHANGED <<notes, now, batch, picked, drafts>> BY <2>3 DEF AppendRow
    <3> QED BY <1>1, <3>2, <3>3, <3>4, <3>5, <3>6 DEF Types
  <2>4. CASE MarkNote(j)
    <3>1. PICK p \in picked[j] :
             /\ p \in Pick /\ notes' = Put(notes, p.row, [note |-> p.note, status |-> "used"])
             /\ [note |-> p.note, status |-> "used"] \in NoteRow
             /\ Marked(j, p)
      BY <2>4, MarkWrites
    <3>2. p.row \in Nat \ {0} BY <3>1 DEF Pick
    <3>3. notes' \in Seq(NoteRow) BY <3>1, <3>2, PutOne
    <3> QED BY <1>1, <3>1, <3>3 DEF Types, Marked
  <2>5. CASE MarkFails(j)
    BY <1>1, <2>5 DEF MarkFails, Types, Marked
  <2>6. CASE Leaves(j)
    <3>1. /\ queue' \in Seq(QueueRow) /\ resent' \subseteq written'
          /\ written' \subseteq (Nat \ {0}) \X (Nat \ {0}) \X Nat
      BY <2>6, AppendAdds DEF Types, Leaves, Unwritten
    <3>2. <<1, 0>> \in (Nat \ {0}) \X Nat /\ <<>> \in Seq(Nat) BY EmptySeq
    <3>3. /\ pc' = [pc EXCEPT ![j] = "idle"] /\ batch' = [batch EXCEPT ![j] = 0]
          /\ picked' = [picked EXCEPT ![j] = {}] /\ drafts' = [drafts EXCEPT ![j] = <<>>]
          /\ at' = [at EXCEPT ![j] = <<1, 0>>] /\ UNCHANGED <<notes, now>>
      BY <2>6 DEF Leaves, End
    <3> QED BY <1>1, <3>1, <3>2, <3>3 DEF Types
  <2> QED BY <1>4, <2>1, <2>2, <2>3, <2>4, <2>5, <2>6
<1> QED BY <1>2, <1>3, <1>4, Steps

LEMMA StatusOfPut ==
    ASSUME Types, StatusOfNote, NEW r \in Nat \ {0}, NEW n \in Notes, NEW t \in {"new", "used"},
           notes' = Put(notes, r, [note |-> n, status |-> t])
    PROVE  StatusOfNote'
<1> DEFINE x == [note |-> n, status |-> t]
           q == Put(notes, r, x)
<1>1. x \in NoteRow /\ x.note \in Notes BY NewNote
<1>2. notes' = q OBVIOUS
<1> HIDE DEF x
<1>3. \A i \in DOMAIN q : \/ i = r /\ q[i] = x
                          \/ i # r /\ i \in DOMAIN notes /\ q[i] = notes[i]
                          \/ q[i].status = Blank
  BY <1>1, PutOne
<1> HIDE DEF q
<1>4. ASSUME NEW i \in DOMAIN q, q[i].status \in {"new", "used"}
      PROVE  q[i].note \in Notes
  <2>1. CASE q[i] = x BY <2>1, <1>1
  <2>2. CASE i \in DOMAIN notes /\ q[i] = notes[i] BY <2>2, <1>4 DEF StatusOfNote
  <2>3. CASE q[i].status = Blank BY <2>3, <1>4 DEF Blank
  <2> QED BY <1>3, <2>1, <2>2, <2>3
<1> QED BY <1>2, <1>4 DEF StatusOfNote

LEMMA StatusStep ==
    ASSUME Types, StatusOfNote, DraftNext
    PROVE  StatusOfNote'
<1>1. ASSUME UNCHANGED notes PROVE StatusOfNote'
  BY <1>1 DEF StatusOfNote
<1>2. ASSUME NEW j \in Jobs, MarkNote(j) PROVE StatusOfNote'
  <2>1. PICK p \in picked[j] :
           /\ p \in Pick /\ notes' = Put(notes, p.row, [note |-> p.note, status |-> "used"])
           /\ [note |-> p.note, status |-> "used"] \in NoteRow
    BY <1>2, MarkWrites
  <2>2. p.row \in Nat \ {0} /\ p.note \in Notes BY <2>1 DEF Pick
  <2> QED BY <2>1, <2>2, StatusOfPut
<1>3. ASSUME NEW n \in Notes, AddNote(n) PROVE StatusOfNote'
  BY <1>3, AddKeeps DEF StatusOfNote
<1>4. ASSUME NEW i \in DOMAIN notes, DeleteNote(i) PROVE StatusOfNote'
  BY <1>4, OneLess DEF DeleteNote, StatusOfNote
<1>5. ASSUME NEW i \in DOMAIN notes, NEW n \in Notes, EditNote(i, n) PROVE StatusOfNote'
  <2>1. i \in Nat \ {0} BY Sheets
  <2> QED BY <1>5, <2>1, StatusOfPut DEF EditNote
<1>6. ASSUME NEW j \in Jobs,
             Start(j) \/ Answer(j) \/ AppendRow(j) \/ MarkFails(j) \/ Leaves(j)
      PROVE  UNCHANGED notes
  BY <1>6 DEF Start, Answer, AppendRow, MarkFails, Leaves, sheets
<1> QED BY <1>1, <1>2, <1>3, <1>4, <1>5, <1>6, Steps DEF Human, NotesByHand

LEMMA BatchStep ==
    ASSUME Types, StatusOfNote, OwnBatch, Progress, missed \cup astray \subseteq UnderWay,
           DraftNext
    PROVE  OwnBatch' /\ (missed \cup astray \subseteq UnderWay)'
<1>0. /\ Len(made) \in Nat /\ Len(made') \in Nat /\ Len(made) <= Len(made')
      /\ \A j \in Jobs : batch[j] \in Nat
      /\ written \subseteq (Nat \ {0}) \X (Nat \ {0}) \X Nat
  BY Sheets, MadeIsKept DEF MadeKept, Types
<1>1. ASSUME UNCHANGED job, UNCHANGED <<written, missed>>, astray' \subseteq UnderWay
      PROVE  OwnBatch' /\ (missed \cup astray \subseteq UnderWay)'
  BY <1>0, <1>1 DEF OwnBatch, UnderWay, job
<1>2. CASE (Reviewer \/ Publisher) /\ UNCHANGED <<notes, now, job, past, people>>
  BY <1>1, <1>2 DEF past
<1>3. CASE Human /\ UNCHANGED feed
  BY <1>1, <1>3 DEF Human, AddNote, NotesByHand, DeleteNote, EditNote, ByHand, past
<1>4. ASSUME NEW j \in Jobs,
             Start(j) \/ Answer(j) \/ AppendRow(j) \/ MarkNote(j) \/ MarkFails(j) \/ Leaves(j)
      PROVE  OwnBatch' /\ (missed \cup astray \subseteq UnderWay)'
  <2>1. CASE Start(j)
    <3>1. /\ pc[j] = "idle" /\ pc' = [pc EXCEPT ![j] = "call"]
          /\ batch' = [batch EXCEPT ![j] = Len(made) + 1]
          /\ picked' = [picked EXCEPT ![j] = NotesToUse]
          /\ UNCHANGED <<drafts, at, written, missed, astray>>
      BY <2>1 DEF Start
    <3>2. Len(made') = Len(made) + 1
      <4> DEFINE b == [stamp |-> now', notes |-> NotesToUse, drafts |-> <<>>]
      <4>1. made' = Append(made, b) BY <2>1 DEF Start
      <4> HIDE DEF b
      <4>2. made \in Seq(Batch \cup {b}) BY SeqMonotonic DEF Types
      <4> QED BY <4>1, <4>2, AppendProperties
    <3> QED BY <1>0, <3>1, <3>2 DEF OwnBatch, UnderWay, Types
  <2>2. CASE Answer(j)
    BY <1>0, <2>2 DEF Answer, OwnBatch, UnderWay, Types
  <2>3. CASE AppendRow(j)
    <3>1. Wrote(j) /\ pc[j] = "append" BY <2>3 DEF AppendRow, Wrote
    <3>2. written' = written \cup {<<batch[j], at[j][1], at[j][2]>>} BY <3>1, AppendAdds
    <3>3. /\ pc' = [pc EXCEPT ![j] = IF NextRow(j)[1] > Len(drafts[j]) THEN "mark" ELSE "append"]
          /\ at' = [at EXCEPT ![j] = NextRow(j)]
          /\ UNCHANGED <<batch, picked, drafts, made, missed, astray>>
      BY <2>3 DEF AppendRow, Advance
    <3>4. pc'[j] \in {"append", "mark"} /\ \A k \in Jobs \ {j} : pc'[k] = pc[k]
      BY <3>3 DEF Types
    <3>5. \A k \in Jobs \ {j} : at'[k] = at[k] BY <3>3 DEF Types
    <3> QED BY <1>0, <3>1, <3>2, <3>3, <3>4, <3>5 DEF OwnBatch, UnderWay
  <2>4. CASE MarkNote(j)
    BY <1>0, <2>4 DEF MarkNote, Marked, OwnBatch, UnderWay, Types
  <2>5. CASE MarkFails(j)
    BY <1>0, <2>5 DEF MarkFails, Marked, OwnBatch, UnderWay, Types
  <2>6. CASE Leaves(j)
    <3>1. \A w \in written' : w[1] <= Len(made')
      <4>1. CASE Wrote(j)
        <5>1. written' = written \cup {<<batch[j], at[j][1], at[j][2]>>} BY <4>1, AppendAdds
        <5> QED BY <5>1, <1>0 DEF OwnBatch
      <4>2. CASE Unwritten BY <4>2, <1>0 DEF Unwritten, OwnBatch
      <4> QED BY <2>6, <4>1, <4>2 DEF Leaves
    <3>2. /\ pc' = [pc EXCEPT ![j] = "idle"] /\ batch' = [batch EXCEPT ![j] = 0]
          /\ picked' = [picked EXCEPT ![j] = {}] /\ drafts' = [drafts EXCEPT ![j] = <<>>]
          /\ at' = [at EXCEPT ![j] = <<1, 0>>]
          /\ missed' = missed \ {j} /\ astray' = astray \ {j}
      BY <2>6 DEF Leaves, End
    <3> QED BY <1>0, <3>1, <3>2 DEF OwnBatch, UnderWay, Types
  <2> QED BY <1>4, <2>1, <2>2, <2>3, <2>4, <2>5, <2>6
<1> QED BY <1>2, <1>3, <1>4, Steps

-----------------------------------------------------------------------------
\* What other jobs do does not touch a job's progress.
LEMMA OthersProgress ==
    ASSUME Types, OwnBatch, Progress, NEW j \in Jobs, NEW k \in Jobs \ {j},
           pc'[k] = pc[k], batch'[k] = batch[k], drafts'[k] = drafts[k], at'[k] = at[k],
           batch[k] \in DOMAIN made => made'[batch[k]].drafts = made[batch[k]].drafts,
           written \subseteq written', \A w \in written' \ written : w[1] = batch[j]
    PROVE  ProgressOf(k)'
<1>1. CASE pc[k] = "idle" BY <1>1 DEF ProgressOf
<1>2. CASE pc[k] # "idle"
  <2>1. batch[k] \in DOMAIN made /\ batch[k] # batch[j]
    BY <1>2, Sheets DEF OwnBatch, Types
  <2>2. made'[batch[k]].drafts = made[batch[k]].drafts BY <2>1
  <2>3. ProgressOf(k) BY DEF Progress
  <2>4. \A w \in written' : w[1] = batch[k] => w \in written BY <2>1
  <2> QED BY <2>1, <2>2, <2>3, <2>4 DEF ProgressOf
<1> QED BY <1>1, <1>2

\* A job that goes on to its next row has written the one it was at.
LEMMA AppendProgress ==
    ASSUME Types, OwnBatch, Progress, NEW j \in Jobs, AppendRow(j)
    PROVE  ProgressOf(j)'
<1>1. /\ pc[j] = "append" /\ Wrote(j)
      /\ at' = [at EXCEPT ![j] = NextRow(j)]
      /\ pc' = [pc EXCEPT ![j] = IF NextRow(j)[1] > Len(drafts[j]) THEN "mark" ELSE "append"]
      /\ UNCHANGED <<batch, drafts, made>>
  BY DEF AppendRow, Wrote, Advance
<1>2. PICK a \in (Nat \ {0}) \X Nat : a = NextRow(j) BY <1>1, OnToNext
<1>3. /\ at'[j] = a
      /\ pc'[j] = IF a[1] > Len(drafts[j]) THEN "mark" ELSE "append"
  BY <1>1, <1>2 DEF Types
<1>4. PICK w \in (Nat \ {0}) \X (Nat \ {0}) \X Nat :
         w = <<batch[j], at[j][1], at[j][2]>> /\ written' = written \cup {w}
  BY <1>1, AppendAdds
<1>5. ProgressOf(j) /\ drafts[j] \in Seq(Nat) BY DEF Progress, Types
<1>6. /\ DOMAIN drafts[j] = 1..Len(drafts[j]) /\ Len(drafts[j]) \in Nat
  BY <1>5, LenProperties
<1>7. /\ a[1] <= Len(drafts[j]) + 1 /\ a[1] \in Nat \ {0}
      /\ a[1] <= Len(drafts[j]) => a[2] <= drafts[j][a[1]]
      /\ \A d \in DOMAIN drafts[j] : \A n \in 0..drafts[j][d] :
            Earlier(<<d, n>>, a) => Earlier(<<d, n>>, at[j]) \/ <<d, n>> = at[j]
      /\ \A d, n \in Nat : Earlier(<<d, n>>, at[j]) => Earlier(<<d, n>>, a)
      /\ Earlier(at[j], a)
  BY <1>1, <1>2, OnToNext
<1>8. \A d \in DOMAIN drafts[j] : \A n \in 0..drafts[j][d] :
         Earlier(<<d, n>>, a) => <<batch[j], d, n>> \in written'
  <2> SUFFICES ASSUME NEW d \in DOMAIN drafts[j], NEW n \in 0..drafts[j][d],
                      Earlier(<<d, n>>, a)
               PROVE  <<batch[j], d, n>> \in written'
    OBVIOUS
  <2>1. CASE Earlier(<<d, n>>, at[j]) BY <2>1, <1>1, <1>4, <1>5 DEF ProgressOf
  <2>2. CASE <<d, n>> = at[j] BY <2>2, <1>4
  <2> QED BY <2>1, <2>2, <1>7
<1>9. \A v \in written' : v[1] = batch[j] => Earlier(<<v[2], v[3]>>, a)
  <2> SUFFICES ASSUME NEW v \in written', v[1] = batch[j] PROVE Earlier(<<v[2], v[3]>>, a)
    OBVIOUS
  <2>1. CASE v = w BY <2>1, <1>4, <1>7 DEF Earlier
  <2>2. CASE v \in written
    <3>1. Earlier(<<v[2], v[3]>>, at[j]) BY <2>2, <1>1, <1>5 DEF ProgressOf
    <3>2. v[2] \in Nat /\ v[3] \in Nat BY <2>2 DEF Types
    <3> QED BY <3>1, <3>2, <1>7
  <2> QED BY <2>1, <2>2, <1>4
<1>10. drafts'[j] = drafts[j] /\ batch'[j] = batch[j] /\ made' = made BY <1>1
<1>11. drafts[j] = made[batch[j]].drafts /\ drafts[j] # <<>> /\ Len(drafts[j]) <= Count
  BY <1>1, <1>5 DEF ProgressOf
<1>12. pc'[j] = "append" => a[1] \in DOMAIN drafts[j] /\ a[2] <= drafts[j][a[1]]
  <2> SUFFICES ASSUME pc'[j] = "append"
               PROVE  a[1] \in DOMAIN drafts[j] /\ a[2] <= drafts[j][a[1]]
    OBVIOUS
  <2>1. ~(a[1] > Len(drafts[j])) BY <1>3
  <2>2. a[1] <= Len(drafts[j]) BY <2>1, <1>6, <1>7
  <2> QED BY <2>2, <1>6, <1>7
<1>13. pc'[j] = "mark" => a[1] = Len(drafts[j]) + 1
  <2> SUFFICES ASSUME pc'[j] = "mark" PROVE a[1] = Len(drafts[j]) + 1 OBVIOUS
  <2>1. a[1] > Len(drafts[j]) BY <1>3
  <2> QED BY <2>1, <1>6, <1>7
<1>14. pc'[j] \in {"append", "mark"} BY <1>3
<1> QED BY <1>3, <1>8, <1>9, <1>10, <1>11, <1>12, <1>13, <1>14 DEF ProgressOf

LEMMA ProgressStep ==
    ASSUME Types, StatusOfNote, OwnBatch, Progress, DraftNext
    PROVE  Progress'
<1>0. /\ Len(made) \in Nat /\ DOMAIN made = 1..Len(made)
      /\ \A b \in DOMAIN made : made[b] \in Batch
  BY Sheets
<1>1. ASSUME UNCHANGED job, UNCHANGED <<made, written>> PROVE Progress'
  BY <1>1 DEF Progress, ProgressOf, job
<1>2. CASE (Reviewer \/ Publisher) /\ UNCHANGED <<notes, now, job, past, people>>
  BY <1>1, <1>2 DEF past
<1>3. CASE Human /\ UNCHANGED feed
  BY <1>1, <1>3 DEF Human, AddNote, NotesByHand, DeleteNote, EditNote, ByHand, past
<1>4. ASSUME NEW j \in Jobs,
             Start(j) \/ Answer(j) \/ AppendRow(j) \/ MarkNote(j) \/ MarkFails(j) \/ Leaves(j)
      PROVE  Progress'
  <2>0. ASSUME ProgressOf(j)',
               \A k \in Jobs \ {j} : /\ pc'[k] = pc[k] /\ batch'[k] = batch[k]
                                     /\ drafts'[k] = drafts[k] /\ at'[k] = at[k],
               \A k \in Jobs \ {j} : batch[k] \in DOMAIN made =>
                  made'[batch[k]].drafts = made[batch[k]].drafts,
               written \subseteq written', \A w \in written' \ written : w[1] = batch[j]
        PROVE  Progress'
    <3>1. ASSUME NEW k \in Jobs \ {j} PROVE ProgressOf(k)'
      BY <2>0, <3>1, OthersProgress
    <3> QED BY <2>0, <3>1 DEF Progress
  <2>1. CASE Start(j)
    <3> DEFINE b == [stamp |-> now', notes |-> NotesToUse, drafts |-> <<>>]
    <3>1. /\ pc' = [pc EXCEPT ![j] = "call"] /\ batch' = [batch EXCEPT ![j] = Len(made) + 1]
          /\ made' = Append(made, b) /\ UNCHANGED <<drafts, at, written>>
      BY <2>1 DEF Start
    <3>2. b.drafts = <<>> OBVIOUS
    <3> HIDE DEF b
    <3>3. made \in Seq(Batch \cup {b}) BY SeqMonotonic DEF Types
    <3>4. /\ made'[Len(made) + 1] = b
          /\ \A i \in 1..Len(made) : made'[i] = made[i]
      BY <3>1, <3>3, AppendProperties
    <3>5. ProgressOf(j)'
      <4>1. pc'[j] = "call" /\ batch'[j] = Len(made) + 1 BY <3>1 DEF Types
      <4>2. \A w \in written' : w[1] # Len(made) + 1
        BY <3>1, <1>0 DEF OwnBatch, Types
      <4> QED BY <4>1, <4>2, <3>2, <3>4 DEF ProgressOf
    <3>6. \A k \in Jobs \ {j} : pc'[k] = pc[k] /\ batch'[k] = batch[k]
      BY <3>1 DEF Types
    <3> QED BY <2>0, <3>1, <3>4, <3>5, <3>6, <1>0
  <2>2. CASE Answer(j)
    <3>1. PICK a \in Answers : /\ drafts' = [drafts EXCEPT ![j] = FirstDrafts(a)]
                               /\ made' = [made EXCEPT ![batch[j]].drafts = FirstDrafts(a)]
      BY <2>2 DEF Answer
    <3>2. PICK f \in Seq(Nat) : f = FirstDrafts(a) /\ f # <<>> /\ Len(f) <= Count
      BY SomeDrafts
    <3>3. /\ pc[j] = "call" /\ pc' = [pc EXCEPT ![j] = "append"]
          /\ UNCHANGED <<batch, at, written>>
      BY <2>2 DEF Answer
    <3>4. batch[j] \in DOMAIN made /\ at[j] = <<1, 0>>
      BY <3>3, <1>0 DEF OwnBatch, Types
    <3>5. /\ made'[batch[j]].drafts = f
          /\ \A i \in DOMAIN made : i # batch[j] => made'[i].drafts = made[i].drafts
      BY <3>1, <3>2, <3>4, <1>0 DEF Batch
    <3>6. pc'[j] = "append" /\ drafts'[j] = f BY <3>1, <3>2, <3>3 DEF Types
    <3>7. ProgressOf(j)'
      <4>1. DOMAIN f = 1..Len(f) /\ Len(f) \in Nat \ {0} BY <3>2, LenProperties, EmptySeq
      <4>2. f[1] \in Nat /\ 1 \in DOMAIN f BY <4>1, <3>2, ElementOfSeq
      <4>3. \A d \in DOMAIN f : \A n \in 0..f[d] : ~Earlier(<<d, n>>, <<1, 0>>)
        BY <4>1 DEF Earlier
      <4>4. \A w \in written : w[1] = batch[j] => Earlier(<<w[2], w[3]>>, at[j])
        BY <3>3 DEF Progress, ProgressOf
      <4>5. batch'[j] = batch[j] /\ at'[j] = <<1, 0>> /\ written' = written BY <3>3, <3>4
      <4> QED BY <4>2, <4>3, <4>4, <4>5, <3>2, <3>4, <3>5, <3>6 DEF ProgressOf
    <3>8. \A k \in Jobs \ {j} : /\ pc'[k] = pc[k] /\ batch'[k] = batch[k]
                                /\ drafts'[k] = drafts[k] /\ at'[k] = at[k]
      BY <3>1, <3>3 DEF Types
    <3>9. \A k \in Jobs \ {j} : batch[k] \in DOMAIN made =>
             made'[batch[k]].drafts = made[batch[k]].drafts
      BY <3>4, <3>5, <1>0 DEF OwnBatch, Types
    <3> QED BY <2>0, <3>3, <3>7, <3>8, <3>9
  <2>3. CASE AppendRow(j)
    <3>1. ProgressOf(j)' BY <2>3, AppendProgress
    <3>2. Wrote(j) BY <2>3 DEF AppendRow, Wrote
    <3>3. written' = written \cup {<<batch[j], at[j][1], at[j][2]>>} BY <3>2, AppendAdds
    <3>4. \A k \in Jobs \ {j} : /\ pc'[k] = pc[k] /\ batch'[k] = batch[k]
                                /\ drafts'[k] = drafts[k] /\ at'[k] = at[k]
      BY <2>3 DEF AppendRow, Advance, Types
    <3>5. made' = made BY <2>3 DEF AppendRow
    <3> QED BY <2>0, <3>1, <3>3, <3>4, <3>5
  <2>4. CASE MarkNote(j)
    BY <2>4 DEF MarkNote, Marked, Progress, ProgressOf
  <2>5. CASE MarkFails(j)
    BY <2>5 DEF MarkFails, Marked, Progress, ProgressOf
  <2>6. CASE Leaves(j)
    <3>1. written \subseteq written' /\ \A w \in written' \ written : w[1] = batch[j]
      <4>1. CASE Wrote(j)
        <5>1. written' = written \cup {<<batch[j], at[j][1], at[j][2]>>} BY <4>1, AppendAdds
        <5> QED BY <5>1
      <4>2. CASE Unwritten BY <4>2 DEF Unwritten
      <4> QED BY <2>6, <4>1, <4>2 DEF Leaves
    <3>2. /\ pc' = [pc EXCEPT ![j] = "idle"] /\ batch' = [batch EXCEPT ![j] = 0]
          /\ drafts' = [drafts EXCEPT ![j] = <<>>] /\ at' = [at EXCEPT ![j] = <<1, 0>>]
          /\ made' = made
      BY <2>6 DEF Leaves, End
    <3>3. pc'[j] = "idle" BY <3>2 DEF Types
    <3>4. ProgressOf(j)' BY <3>3 DEF ProgressOf
    <3>5. \A k \in Jobs \ {j} : /\ pc'[k] = pc[k] /\ batch'[k] = batch[k]
                                /\ drafts'[k] = drafts[k] /\ at'[k] = at[k]
      BY <3>2 DEF Types
    <3> QED BY <2>0, <3>1, <3>2, <3>4, <3>5
  <2> QED BY <1>4, <2>1, <2>2, <2>3, <2>4, <2>5, <2>6
<1> QED BY <1>2, <1>3, <1>4, Steps

-----------------------------------------------------------------------------
\* A job that read the notes as they are now marks its note in place.
LEMMA MarkInPlace ==
    ASSUME Types, PickedHeld, NEW j \in Jobs, MarkNote(j), j \notin astray
    PROVE  /\ DOMAIN notes' = DOMAIN notes
           /\ \A i \in DOMAIN notes : /\ notes'[i].note = notes[i].note
                                      /\ notes'[i].status \in {notes[i].status, "used"}
<1>1. PICK p \in picked[j] :
         /\ p \in Pick /\ notes' = Put(notes, p.row, [note |-> p.note, status |-> "used"])
         /\ [note |-> p.note, status |-> "used"] \in NoteRow
  BY MarkWrites
<1>2. p.row \in DOMAIN notes /\ notes[p.row].note = p.note BY DEF PickedHeld
<1> DEFINE x == [note |-> p.note, status |-> "used"]
<1>3. x \in NoteRow /\ x.note = p.note /\ x.status = "used" /\ notes' = Put(notes, p.row, x)
  BY <1>1
<1> HIDE DEF x
<1>4. /\ Len(notes) \in Nat /\ DOMAIN notes = 1..Len(notes) /\ p.row \in Nat \ {0}
  BY <1>1, Sheets DEF Pick
<1>5. \A i \in DOMAIN notes : notes'[i] = IF i = p.row THEN x ELSE notes[i]
  <2> SUFFICES ASSUME NEW i \in DOMAIN notes
               PROVE  notes'[i] = IF i = p.row THEN x ELSE notes[i]
    OBVIOUS
  <2> DEFINE n == IF p.row > Len(notes) THEN p.row ELSE Len(notes)
             r == p.row
  <2>1. i \in 1..n BY <1>4
  <2>2. Put(notes, r, x) =
           [k \in 1..n |-> IF k = r THEN x ELSE IF k <= Len(notes) THEN notes[k]
                           ELSE [note |-> Blank, status |-> Blank]]
    BY DEF Put
  <2>3. i <= Len(notes) BY <1>4
  <2> HIDE DEF n, r
  <2>4. notes'[i] = IF i = r THEN x ELSE notes[i] BY <1>3, <2>1, <2>2, <2>3 DEF r
  <2> QED BY <2>4 DEF r
<1>6. DOMAIN notes' = DOMAIN notes BY <1>2, <1>3, <1>4, PutOne
<1> QED BY <1>2, <1>3, <1>5, <1>6

LEMMA PickedStep ==
    ASSUME Types, StatusOfNote, OwnBatch, Progress, PickedHeld,
           missed \cup astray \subseteq UnderWay, DraftNext
    PROVE  PickedHeld'
<1>1. /\ MadeKept /\ Len(made) \in Nat
      /\ \A j \in Jobs : picked[j] # {} => batch[j] \in 1..Len(made) /\ j \in UnderWay
  BY MadeIsKept, Sheets DEF OwnBatch, UnderWay, Types
<1>2. ASSUME NEW j \in Jobs, NEW p \in picked[j], batch'[j] = batch[j]
      PROVE  p \in made'[batch'[j]].notes
  BY <1>1, <1>2 DEF MadeKept, PickedHeld
<1>3. CASE (Reviewer \/ Publisher) /\ UNCHANGED <<notes, now, job, past, people>>
  BY <1>3, <1>2 DEF PickedHeld, job, past
<1>4. CASE Human /\ UNCHANGED feed
  <2>1. UNCHANGED job
    BY <1>4 DEF Human, AddNote, NotesByHand, DeleteNote, EditNote, ByHand
  <2>2. CASE \E n \in Notes : AddNote(n)
    <3>1. PICK n \in Notes : AddNote(n) BY <2>2
    <3>2. astray' = astray BY <3>1 DEF AddNote, past
    <3> QED BY <3>1, <3>2, <2>1, <1>2, AddKeeps DEF PickedHeld, job
  <2>3. CASE NotesByHand
    <3>1. astray' = UnderWay BY <2>3 DEF NotesByHand, DeleteNote, EditNote, ByHand
    <3> QED BY <3>1, <2>1, <1>1, <1>2 DEF PickedHeld, job
  <2> QED BY <1>4, <2>2, <2>3 DEF Human
<1>5. ASSUME NEW j \in Jobs,
             Start(j) \/ Answer(j) \/ AppendRow(j) \/ MarkNote(j) \/ MarkFails(j) \/ Leaves(j)
      PROVE  PickedHeld'
  <2>1. CASE Start(j)
    <3> DEFINE b == [stamp |-> now', notes |-> NotesToUse, drafts |-> <<>>]
    <3>1. /\ batch' = [batch EXCEPT ![j] = Len(made) + 1] /\ made' = Append(made, b)
          /\ picked' = [picked EXCEPT ![j] = NotesToUse]
          /\ UNCHANGED <<notes, astray>>
      BY <2>1 DEF Start, sheets
    <3>2. b.notes = NotesToUse OBVIOUS
    <3> HIDE DEF b
    <3>3. made \in Seq(Batch \cup {b}) BY SeqMonotonic DEF Types
    <3>4. made'[Len(made) + 1] = b BY <3>1, <3>3, AppendProperties
    <3>5. /\ batch'[j] = Len(made) + 1 /\ picked'[j] = NotesToUse
          /\ \A k \in Jobs \ {j} : batch'[k] = batch[k] /\ picked'[k] = picked[k]
      BY <3>1 DEF Types
    <3>6. \A p \in picked'[j] : /\ p \in made'[batch'[j]].notes
                                /\ p.row \in DOMAIN notes' /\ notes'[p.row].note = p.note
      BY <3>1, <3>2, <3>4, <3>5, PicksOfSheet
    <3>7. ASSUME NEW k \in Jobs \ {j}, NEW p \in picked'[k]
          PROVE  /\ p \in made'[batch'[k]].notes
                 /\ k \notin astray' => p.row \in DOMAIN notes' /\ notes'[p.row].note = p.note
      BY <3>1, <3>5, <3>7, <1>2 DEF PickedHeld
    <3> QED BY <3>6, <3>7 DEF PickedHeld
  <2>2. CASE Answer(j)
    <3>1. UNCHANGED <<notes, batch, picked, astray>> BY <2>2 DEF Answer, sheets
    <3> QED BY <3>1, <1>2 DEF PickedHeld
  <2>3. CASE AppendRow(j)
    <3>1. UNCHANGED <<notes, batch, picked, astray>> BY <2>3 DEF AppendRow
    <3> QED BY <3>1, <1>2 DEF PickedHeld
  <2>4. CASE MarkNote(j)
    <3>1. /\ UNCHANGED batch /\ \A k \in Jobs : picked'[k] \subseteq picked[k]
      BY <2>4 DEF MarkNote, Marked, Types
    <3>2. CASE j \in astray
      <4>1. astray' = UnderWay BY <2>4, <3>2 DEF MarkNote
      <4> QED BY <4>1, <3>1, <1>1, <1>2 DEF PickedHeld
    <3>3. CASE j \notin astray
      <4>1. astray' = astray BY <2>4, <3>3 DEF MarkNote
      <4>2. /\ DOMAIN notes' = DOMAIN notes
            /\ \A i \in DOMAIN notes : notes'[i].note = notes[i].note
        BY <2>4, <3>3, MarkInPlace
      <4> QED BY <4>1, <4>2, <3>1, <1>2 DEF PickedHeld
    <3> QED BY <3>2, <3>3
  <2>5. CASE MarkFails(j)
    <3>1. /\ UNCHANGED <<notes, batch, astray>> /\ \A k \in Jobs : picked'[k] \subseteq picked[k]
      BY <2>5 DEF MarkFails, Marked, Types
    <3> QED BY <3>1, <1>2 DEF PickedHeld
  <2>6. CASE Leaves(j)
    <3>1. /\ notes' = notes /\ astray' = astray \ {j} /\ picked'[j] = {}
          /\ \A k \in Jobs \ {j} : batch'[k] = batch[k] /\ picked'[k] = picked[k]
      BY <2>6 DEF Leaves, End, Types
    <3> QED BY <3>1, <1>2 DEF PickedHeld
  <2> QED BY <1>5, <2>1, <2>2, <2>3, <2>4, <2>5, <2>6
<1> QED BY <1>3, <1>4, <1>5, Steps

LEMMA WrittenGrows ==
    ASSUME Types, OwnBatch, Progress, DraftNext
    PROVE  written \subseteq written' /\ resent \subseteq resent'
<1>1. ASSUME NEW j \in Jobs, Wrote(j) PROVE written \subseteq written' /\ resent \subseteq resent'
  BY <1>1, AppendAdds
<1>2. ASSUME NEW j \in Jobs, AppendRow(j) PROVE Wrote(j)
  BY <1>2 DEF AppendRow, Wrote
<1>3. ASSUME NEW j \in Jobs, Start(j) \/ Answer(j) \/ MarkNote(j) \/ MarkFails(j)
      PROVE  UNCHANGED <<written, resent>>
  BY <1>3 DEF Start, Answer, MarkNote, MarkFails, Marked
<1>4. ASSUME Human PROVE UNCHANGED <<written, resent>>
  BY <1>4 DEF Human, AddNote, NotesByHand, DeleteNote, EditNote, ByHand, past
<1> QED BY <1>1, <1>2, <1>3, <1>4, Steps DEF Leaves, Unwritten, past

\* The notes of prompts whose whole answer is on the sheet.
Drafted ==
    {n \in Notes :
        \E b \in DOMAIN made : /\ \E p \in made[b].notes : p.note = n
                               /\ made[b].drafts # <<>> /\ Whole(b)}

LEMMA DraftedStays ==
    ASSUME Types, StatusOfNote, OwnBatch, Progress, DraftNext
    PROVE  Drafted \subseteq Drafted'
<1> SUFFICES ASSUME NEW n \in Drafted PROVE n \in Drafted'
  OBVIOUS
<1>1. PICK b \in DOMAIN made :
         (\E p \in made[b].notes : p.note = n) /\ made[b].drafts # <<>> /\ Whole(b)
  BY DEF Drafted
<1>2. /\ b \in DOMAIN made' /\ made'[b].notes = made[b].notes
      /\ made'[b].drafts = made[b].drafts
  BY <1>1, MadeIsKept, Sheets DEF MadeKept
<1>3. Whole(b)' BY <1>1, <1>2, WrittenGrows DEF Whole
<1> QED BY <1>1, <1>2, <1>3 DEF Drafted

\* When a job marks its notes, its answer is on the sheet.
LEMMA MarksWhenDrafted ==
    ASSUME Types, OwnBatch, Progress, PickedHeld, NEW j \in Jobs, pc[j] = "mark",
           NEW p \in picked[j]
    PROVE  p.note \in Drafted
<1>0. p.note \in Notes BY DEF Types, Pick
<1>1. batch[j] \in DOMAIN made BY Sheets DEF OwnBatch, Types
<1>2. p \in made[batch[j]].notes BY DEF PickedHeld
<1>3. /\ drafts[j] = made[batch[j]].drafts /\ drafts[j] # <<>>
      /\ at[j][1] = Len(drafts[j]) + 1
      /\ \A d \in DOMAIN drafts[j] : \A n \in 0..drafts[j][d] :
            Earlier(<<d, n>>, at[j]) => <<batch[j], d, n>> \in written
  BY DEF Progress, ProgressOf
<1>4. DOMAIN drafts[j] = 1..Len(drafts[j]) /\ Len(drafts[j]) \in Nat
  BY LenProperties DEF Types
<1>5. \A d \in DOMAIN drafts[j] : d < at[j][1] BY <1>3, <1>4
<1>6. Whole(batch[j]) BY <1>3, <1>5 DEF Whole, Earlier
<1> QED BY <1>0, <1>1, <1>2, <1>3, <1>6 DEF Drafted

LEMMA UsedStep ==
    ASSUME Types, StatusOfNote, OwnBatch, Progress, PickedHeld, UsedMeansAppended, DraftNext
    PROVE  UsedMeansAppended'
<1>0. /\ \A i \in DOMAIN notes : notes[i].status = "used" => notes[i].note \in Drafted
      /\ Drafted \subseteq Drafted'
  BY DraftedStays DEF UsedMeansAppended, Drafted, StatusOfNote
<1> SUFFICES ASSUME NEW i \in DOMAIN notes', notes'[i].status = "used"
             PROVE  notes'[i].note \in Drafted'
  BY DEF UsedMeansAppended, Drafted
<1>1. CASE UNCHANGED notes
  BY <1>0, <1>1
<1>2. ASSUME NEW k \in DOMAIN notes, notes'[i] = notes[k] PROVE notes'[i].note \in Drafted'
  BY <1>0, <1>2
<1>3. ASSUME NEW j \in Jobs, MarkNote(j) PROVE notes'[i].note \in Drafted'
  <2>1. PICK p \in picked[j] :
           /\ p \in Pick /\ notes' = Put(notes, p.row, [note |-> p.note, status |-> "used"])
           /\ [note |-> p.note, status |-> "used"] \in NoteRow
    BY <1>3, MarkWrites
  <2> DEFINE x == [note |-> p.note, status |-> "used"]
  <2>2. x \in NoteRow /\ x.note = p.note /\ notes' = Put(notes, p.row, x) BY <2>1
  <2> HIDE DEF x
  <2>3. p.row \in Nat \ {0} BY <2>1 DEF Pick
  <2>4. \/ notes'[i] = x
        \/ i \in DOMAIN notes /\ notes'[i] = notes[i]
        \/ notes'[i].status = Blank
    BY <2>2, <2>3, PutOne
  <2>5. CASE notes'[i] = x
    <3>1. p.note \in Drafted BY <1>3, MarksWhenDrafted DEF MarkNote
    <3> QED BY <3>1, <1>0, <2>2, <2>5
  <2>6. CASE i \in DOMAIN notes /\ notes'[i] = notes[i] BY <2>6, <1>2
  <2> QED BY <2>4, <2>5, <2>6 DEF Blank
<1>4. ASSUME NEW n \in Notes, AddNote(n) PROVE notes'[i].note \in Drafted'
  BY <1>4, <1>2, AddKeeps
<1>5. ASSUME NEW r \in DOMAIN notes, DeleteNote(r) PROVE notes'[i].note \in Drafted'
  BY <1>5, <1>2, OneLess DEF DeleteNote
<1>6. ASSUME NEW r \in DOMAIN notes, NEW n \in Notes, EditNote(r, n)
      PROVE  notes'[i].note \in Drafted'
  <2> DEFINE x == [note |-> n, status |-> "new"]
  <2>1. x \in NoteRow /\ x.status = "new" BY NewNote
  <2>2. notes' = Put(notes, r, x) /\ r \in Nat \ {0} BY <1>6, Sheets DEF EditNote
  <2> HIDE DEF x
  <2>3. \/ notes'[i] = x
        \/ i \in DOMAIN notes /\ notes'[i] = notes[i]
        \/ notes'[i].status = Blank
    BY <2>1, <2>2, PutOne
  <2> QED BY <2>1, <2>3, <1>2 DEF Blank
<1>7. ASSUME NEW j \in Jobs,
             Start(j) \/ Answer(j) \/ AppendRow(j) \/ MarkFails(j) \/ Leaves(j)
      PROVE  UNCHANGED notes
  BY <1>7 DEF Start, Answer, AppendRow, MarkFails, Leaves, sheets
<1> QED BY <1>1, <1>3, <1>4, <1>5, <1>6, <1>7, Steps DEF Human, NotesByHand

-----------------------------------------------------------------------------
\* Two generations that began in the minute of the id.
Twin(id) ==
    \E b, c \in DOMAIN made : b # c /\ made[b].stamp = made[c].stamp /\ id[1] = made[b].stamp

LEMMA IdsStay ==
    ASSUME Types, StatusOfNote, OwnBatch, Progress, DraftNext
    PROVE  /\ \A s \in written : IdOf(s)' = IdOf(s)
           /\ \A id : Twin(id) => Twin(id)'
<1>1. /\ Len(made) \in Nat /\ DOMAIN made = 1..Len(made) /\ MadeKept
  BY Sheets, MadeIsKept
<1>2. \A s \in written : s[1] \in DOMAIN made BY <1>1 DEF OwnBatch, Types
<1>3. DOMAIN made \subseteq DOMAIN made' BY <1>1 DEF MadeKept
<1> QED BY <1>1, <1>2, <1>3 DEF MadeKept, IdOf, Twin

\* Rows with one id have one text, but for twins.
LEMMA SameId ==
    ASSUME Types, OwnBatch, Stamped,
           NEW i \in DOMAIN queue, NEW k \in DOMAIN queue, queue[i].id = queue[k].id
    PROVE  queue[i].src = queue[k].src \/ Twin(queue[i].id)
<1>1. queue[i].src \in written /\ queue[k].src \in written BY DEF Stamped
<1>0. /\ queue[i].src \in (Nat \ {0}) \X (Nat \ {0}) \X Nat
      /\ queue[k].src \in (Nat \ {0}) \X (Nat \ {0}) \X Nat
  BY <1>1 DEF Types
<1>2. PICK b, d \in Nat \ {0}, n \in Nat : queue[i].src = <<b, d, n>>
  BY <1>0
<1>3. PICK c, e \in Nat \ {0}, m \in Nat : queue[k].src = <<c, e, m>>
  BY <1>0
<1>4. /\ queue[i].id = <<made[b].stamp, d, n>> /\ queue[k].id = <<made[c].stamp, e, m>>
      /\ b \in DOMAIN made /\ c \in DOMAIN made
  BY <1>1, <1>2, <1>3, Sheets DEF Stamped, IdOf, OwnBatch
<1>5. d = e /\ n = m /\ made[b].stamp = made[c].stamp
  <2>1. PICK x, y : x = made[b].stamp /\ y = made[c].stamp OBVIOUS
  <2>2. <<x, d, n>> = <<y, e, m>> BY <2>1, <1>4
  <2> QED BY <2>1, <2>2
<1>6. CASE b = c BY <1>6, <1>2, <1>3, <1>5
<1>7. CASE b # c
  <2>1. queue[i].id[1] = made[b].stamp BY <1>4
  <2> QED BY <2>1, <1>4, <1>5, <1>7 DEF Twin
<1> QED BY <1>6, <1>7

LEMMA RewrittenIds ==
    ASSUME Types, OwnBatch, Stamped, IdsExplained, Rewritten, UNCHANGED <<made, written, resent>>
    PROVE  Stamped' /\ IdsExplained'
<1>1. ASSUME NEW f \in DOMAIN queue'
      PROVE  \E k \in DOMAIN queue : /\ queue[k].id = queue'[f].id
                                     /\ queue'[f].src = queue[k].src
                                     /\ f \in DOMAIN queue /\ queue'[f].id = queue[f].id
  BY DEF Rewritten, MadeOf
<1>2. Stamped' BY <1>1 DEF Stamped, IdOf
<1>3. ASSUME NEW i \in DOMAIN queue', NEW k \in DOMAIN queue',
             i # k, queue'[i].id = queue'[k].id
      PROVE  \/ queue'[i].src = queue'[k].src /\ queue'[i].src \in resent
             \/ Twin(queue'[i].id)
  <2>1. PICK a \in DOMAIN queue : /\ queue[a].id = queue'[i].id
                                  /\ queue'[i].src = queue[a].src
                                  /\ i \in DOMAIN queue /\ queue'[i].id = queue[i].id
    BY <1>1
  <2>2. PICK c \in DOMAIN queue : /\ queue[c].id = queue'[k].id
                                  /\ queue'[k].src = queue[c].src
                                  /\ k \in DOMAIN queue /\ queue'[k].id = queue[k].id
    BY <1>1
  <2>3. CASE Twin(queue'[i].id) BY <2>3
  <2>4. CASE ~Twin(queue'[i].id)
    <3>1. queue[i].src = queue[k].src /\ queue[i].src \in resent
      BY <2>1, <2>2, <2>4, <1>3 DEF IdsExplained, Twin
    <3>2. queue[i].src = queue[a].src BY <2>1, <2>4, SameId
    <3>3. queue[k].src = queue[c].src
      <4>1. ~Twin(queue[k].id) BY <2>2, <2>4, <1>3
      <4> QED BY <4>1, <2>2, SameId
    <3> QED BY <3>1, <3>2, <3>3, <2>1, <2>2
  <2> QED BY <2>3, <2>4
<1> QED BY <1>2, <1>3 DEF IdsExplained, Twin

LEMMA AppendedIds ==
    ASSUME Types, OwnBatch, Progress, Stamped, IdsExplained, Types', OwnBatch',
           NEW j \in Jobs, Wrote(j), UNCHANGED made
    PROVE  Stamped' /\ IdsExplained'
<1>1. PICK w \in (Nat \ {0}) \X (Nat \ {0}) \X Nat :
         /\ w \notin written /\ written' = written \cup {w}
         /\ resent \subseteq resent' /\ DOMAIN queue \subseteq DOMAIN queue'
         /\ \A i \in DOMAIN queue : queue'[i] = queue[i]
         /\ \A i \in DOMAIN queue' \ DOMAIN queue :
               /\ queue'[i].src = w /\ queue'[i].id = IdOf(w)
               /\ \A k \in DOMAIN queue' \ DOMAIN queue : i # k => w \in resent'
  BY AppendAdds
<1>2. Stamped' BY <1>1 DEF Stamped, IdOf
<1>3. ASSUME NEW i \in DOMAIN queue', NEW k \in DOMAIN queue',
             i # k, queue'[i].id = queue'[k].id
      PROVE  \/ queue'[i].src = queue'[k].src /\ queue'[i].src \in resent'
             \/ \E b, c \in DOMAIN made' : /\ b # c /\ made'[b].stamp = made'[c].stamp
                                           /\ queue'[i].id[1] = made'[b].stamp
  <2>1. CASE i \in DOMAIN queue /\ k \in DOMAIN queue
    BY <2>1, <1>1, <1>3 DEF IdsExplained
  <2>2. CASE i \notin DOMAIN queue /\ k \notin DOMAIN queue
    BY <2>2, <1>1, <1>3
  <2>3. CASE (i \in DOMAIN queue) # (k \in DOMAIN queue)
    <3>1. queue'[i].src # queue'[k].src
      <4>1. \A f \in DOMAIN queue : queue[f].src \in written BY DEF Stamped
      <4> QED BY <4>1, <2>3, <1>1
    <3>0. /\ queue'[i].src \in (Nat \ {0}) \X (Nat \ {0}) \X Nat
          /\ queue'[k].src \in (Nat \ {0}) \X (Nat \ {0}) \X Nat
      BY <1>2 DEF Types, Stamped
    <3>2. PICK b, d \in Nat \ {0}, n \in Nat : queue'[i].src = <<b, d, n>>
      BY <3>0
    <3>3. PICK c, e \in Nat \ {0}, m \in Nat : queue'[k].src = <<c, e, m>>
      BY <3>0
    <3>4. /\ queue'[i].id = <<made'[b].stamp, d, n>> /\ queue'[k].id = <<made'[c].stamp, e, m>>
          /\ queue'[i].src \in written' /\ queue'[k].src \in written'
      BY <1>2, <3>2, <3>3 DEF Stamped, IdOf
    <3>5. Len(made') \in Nat /\ DOMAIN made' = 1..Len(made') BY LenProperties DEF Types
    <3>6. b \in DOMAIN made' /\ c \in DOMAIN made'
      BY <3>2, <3>3, <3>4, <3>5 DEF OwnBatch
    <3> QED BY <3>1, <3>2, <3>3, <3>4, <3>6, <1>3
  <2> QED BY <2>1, <2>2, <2>3
<1> QED BY <1>2, <1>3 DEF IdsExplained

LEMMA IdsStep ==
    ASSUME Types, StatusOfNote, OwnBatch, Progress, Stamped, IdsExplained,
           Types', OwnBatch', DraftNext
    PROVE  Stamped' /\ IdsExplained'
<1>1. ASSUME UNCHANGED <<queue, written, resent>> PROVE Stamped' /\ IdsExplained'
  <2>1. \A i \in DOMAIN queue : queue[i].src \in written /\ IdOf(queue[i].src) = queue[i].id
    BY DEF Stamped
  <2>2. \A s \in written : IdOf(s)' = IdOf(s) BY IdsStay
  <2>3. \A i \in DOMAIN queue :
           IdsExplained => \A k \in DOMAIN queue : i # k /\ queue[i].id = queue[k].id =>
              \/ queue[i].src = queue[k].src /\ queue[i].src \in resent
              \/ Twin(queue[i].id)
    BY DEF IdsExplained, Twin
  <2>4. \A id : Twin(id) => Twin(id)' BY IdsStay
  <2>5. Stamped' BY <1>1, <2>1, <2>2 DEF Stamped, IdOf
  <2>6. IdsExplained' BY <1>1, <2>3, <2>4 DEF IdsExplained, Twin
  <2> QED BY <2>5, <2>6
<1>2. CASE (Reviewer \/ Publisher) /\ UNCHANGED <<notes, now, job, past, people>>
  <2>1. Rewritten
    BY <1>2, ReviewRewrites, ApprovalRewrites, PublishRewrites DEF Reviewer, Publisher
  <2> QED BY <1>2, <2>1, RewrittenIds DEF past
<1>3. ASSUME NEW j \in Jobs, AppendRow(j) PROVE Wrote(j) /\ UNCHANGED made
  BY <1>3 DEF AppendRow, Wrote
<1>4. ASSUME NEW j \in Jobs, Leaves(j) PROVE (Wrote(j) \/ Unwritten) /\ UNCHANGED made
  BY <1>4 DEF Leaves
<1>5. ASSUME NEW j \in Jobs, Start(j) \/ Answer(j) \/ MarkNote(j) \/ MarkFails(j)
      PROVE  UNCHANGED <<queue, written, resent>>
  BY <1>5 DEF Start, Answer, MarkNote, MarkFails, Marked, sheets
<1>6. ASSUME Human PROVE UNCHANGED <<queue, written, resent>>
  BY <1>6 DEF Human, AddNote, NotesByHand, DeleteNote, EditNote, ByHand, past
<1> QED BY <1>1, <1>2, <1>3, <1>4, <1>5, <1>6, AppendedIds, Steps DEF Unwritten

-----------------------------------------------------------------------------
\* Rows stay with their ids, and posted ones stay as they are unless doubled.
RowsStay ==
    /\ DOMAIN queue \subseteq DOMAIN queue'
    /\ \A i \in DOMAIN queue :
          /\ queue'[i].id = queue[i].id
          /\ queue[i].status = "posted" => queue'[i] = queue[i] \/ Doubled(queue[i].id)

LEMMA RowsDoStay ==
    ASSUME Types, OwnBatch, Progress, DraftNext
    PROVE  RowsStay
<1>1. ASSUME Rewritten PROVE RowsStay
  BY <1>1 DEF Rewritten, MadeOf, RowsStay, Doubled
<1>2. ASSUME NEW j \in Jobs, Wrote(j) PROVE RowsStay
  BY <1>2, AppendAdds DEF RowsStay
<1>3. ASSUME UNCHANGED queue PROVE RowsStay
  BY <1>3 DEF RowsStay
<1>4. CASE (Reviewer \/ Publisher) /\ UNCHANGED <<notes, now, job, past, people>>
  BY <1>1, <1>4, ReviewRewrites, ApprovalRewrites, PublishRewrites DEF Reviewer, Publisher
<1>5. ASSUME NEW j \in Jobs, AppendRow(j) PROVE Wrote(j)
  BY <1>5 DEF AppendRow, Wrote
<1>6. ASSUME NEW j \in Jobs, Leaves(j) PROVE Wrote(j) \/ UNCHANGED queue
  BY <1>6 DEF Leaves, Unwritten
<1>7. ASSUME NEW j \in Jobs, Start(j) \/ Answer(j) \/ MarkNote(j) \/ MarkFails(j)
      PROVE  UNCHANGED queue
  BY <1>7 DEF Start, Answer, MarkNote, MarkFails, Marked, sheets
<1>8. ASSUME Human PROVE UNCHANGED queue
  BY <1>8 DEF Human, AddNote, NotesByHand, DeleteNote, EditNote, ByHand
<1> QED BY <1>2, <1>3, <1>4, <1>5, <1>6, <1>7, <1>8, Steps

LEMMA DoubledStays ==
    ASSUME RowsStay, NEW id, Doubled(id)
    PROVE  Doubled(id)'
BY DEF RowsStay, Doubled

\* What is live is on a posted row, until its id is doubled.
LEMMA LiveStays ==
    ASSUME Types, StatusOfNote, OwnBatch, Progress, LiveMarked, DraftNext, NEW s \in live
    PROVE  \/ Doubled(IdOf(s))'
           \/ \E i \in DOMAIN queue' : queue'[i].id = IdOf(s)' /\ queue'[i].status = "posted"
<1>1. RowsStay BY RowsDoStay
<1>2. PICK id : id = IdOf(s) /\ id = IdOf(s)'
  <2>1. IdOf(s)' = IdOf(s) BY IdsStay DEF LiveMarked
  <2> QED BY <2>1
<1>3. CASE Doubled(id)
  <2>1. Doubled(id)' BY <1>1, <1>3, DoubledStays
  <2> QED BY <1>2, <2>1 DEF Doubled
<1>4. CASE ~Doubled(id)
  <2>1. PICK i \in DOMAIN queue : queue[i].id = id /\ queue[i].status = "posted"
    BY <1>2, <1>4 DEF LiveMarked
  <2>2. i \in DOMAIN queue' /\ queue'[i] = queue[i] BY <1>1, <1>4, <2>1 DEF RowsStay
  <2> QED BY <1>2, <2>1, <2>2
<1> QED BY <1>3, <1>4

LEMMA LiveStep ==
    ASSUME Types, StatusOfNote, OwnBatch, Progress, Stamped, LiveMarked, GoesOutOnce, DraftNext
    PROVE  LiveMarked' /\ GoesOutOnce'
<1>0. RowsStay /\ written \subseteq written' BY RowsDoStay, WrittenGrows
<1>1. \A s \in twice : Doubled(IdOf(s))'
  <2> SUFFICES ASSUME NEW s \in twice PROVE Doubled(IdOf(s))' OBVIOUS
  <2>1. Doubled(IdOf(s)) BY DEF GoesOutOnce, IdOf
  <2>2. PICK id : id = IdOf(s) /\ id = IdOf(s)'
    <3>1. IdOf(s)' = IdOf(s) BY IdsStay DEF LiveMarked
    <3> QED BY <3>1
  <2>3. Doubled(id)' BY <1>0, <2>1, <2>2, DoubledStays
  <2> QED BY <2>2, <2>3 DEF Doubled
<1>2. ASSUME UNCHANGED feed PROVE LiveMarked' /\ GoesOutOnce'
  <2>1. \A s \in live' : \/ Doubled(IdOf(s))'
                         \/ \E i \in DOMAIN queue' :
                               queue'[i].id = IdOf(s)' /\ queue'[i].status = "posted"
    BY <1>2, LiveStays DEF feed
  <2>2. LiveMarked' BY <1>0, <1>2, <2>1 DEF LiveMarked, feed
  <2>3. GoesOutOnce' BY <1>1, <1>2 DEF GoesOutOnce, IdOf, feed
  <2> QED BY <2>2, <2>3
<1>3. ASSUME NEW i \in DOMAIN queue, Publish(i) PROVE LiveMarked' /\ GoesOutOnce'
  <2> DEFINE Out == {queue[k].src : k \in Chain(i)}
  <2>1. /\ queue[i].status = "approved" /\ live' = live \cup Out
        /\ twice' = twice \cup (live \cap Out) /\ UNCHANGED <<made, written>>
    BY <1>3 DEF Publish, past
  <2>2. ASSUME NEW k \in Chain(i)
        PROVE  /\ k \in DOMAIN queue /\ queue[k].status = "approved"
               /\ queue[k].src \in written /\ queue[k].id = IdOf(queue[k].src)
    BY <2>1, ChainRows DEF Stamped
  <2>3. ASSUME NEW s \in Out
        PROVE  /\ s \in written
               /\ \E m \in DOMAIN queue' : queue'[m].id = IdOf(s) /\ queue'[m].status = "posted"
    <3>1. PICK k \in Chain(i) : s = queue[k].src OBVIOUS
    <3>2. PICK m \in DOMAIN queue : queue'[m].id = queue[k].id /\ queue'[m].status = "posted"
      BY <1>3, PublishRewrites
    <3>3. m \in DOMAIN queue' BY <1>0 DEF RowsStay
    <3>4. s \in written /\ queue[k].id = IdOf(s) BY <3>1, <2>2
    <3> QED BY <3>2, <3>3, <3>4
  <2>4. ASSUME NEW s \in live \cap Out PROVE Doubled(IdOf(s))'
    <3>1. PICK k \in Chain(i) : s = queue[k].src OBVIOUS
    <3>2. k \in DOMAIN queue /\ queue[k].status = "approved" /\ queue[k].id = IdOf(s)
      BY <3>1, <2>2
    <3>3. Doubled(IdOf(s)) BY <3>2 DEF LiveMarked, Doubled
    <3>4. PICK id : id = IdOf(s) OBVIOUS
    <3>5. Doubled(id)' BY <1>0, <3>3, <3>4, DoubledStays
    <3>6. id = IdOf(s)' BY <3>4, <2>1 DEF IdOf
    <3> QED BY <3>5, <3>6 DEF Doubled
  <2> HIDE DEF Out
  <2>5. \A s \in live' : \/ Doubled(IdOf(s))'
                         \/ \E m \in DOMAIN queue' :
                               queue'[m].id = IdOf(s)' /\ queue'[m].status = "posted"
    <3> SUFFICES ASSUME NEW s \in live'
                 PROVE  \/ Doubled(IdOf(s))'
                        \/ \E m \in DOMAIN queue' :
                              queue'[m].id = IdOf(s)' /\ queue'[m].status = "posted"
      OBVIOUS
    <3>1. CASE s \in live BY <3>1, LiveStays
    <3>2. CASE s \in Out
      <4>1. IdOf(s)' = IdOf(s) BY <2>1 DEF IdOf
      <4> QED BY <3>2, <4>1, <2>3
    <3> QED BY <3>1, <3>2, <2>1
  <2>6. live' \subseteq written' /\ twice' \subseteq live'
    BY <1>0, <2>1, <2>3 DEF LiveMarked
  <2>7. LiveMarked' BY <2>5, <2>6 DEF LiveMarked
  <2>8. GoesOutOnce' BY <1>1, <2>1, <2>4 DEF GoesOutOnce, IdOf
  <2> QED BY <2>7, <2>8
<1>4. ASSUME Reviewer PROVE UNCHANGED feed
  BY <1>4 DEF Reviewer, Review, ApproveInSheet
<1> QED BY <1>2, <1>3, <1>4 DEF DraftNext, Publisher

-----------------------------------------------------------------------------
LEMMA NoneForgottenStep ==
    ASSUME Types, StatusOfNote, OwnBatch, Progress, PickedHeld, NoneForgotten,
           missed \cup astray \subseteq UnderWay, DraftNext
    PROVE  NoneForgotten'
<1>0. /\ MadeKept /\ Len(made) \in Nat
      /\ \A k \in Jobs : pc[k] # "idle" => batch[k] \in 1..Len(made) /\ k \in UnderWay
  BY MadeIsKept, Sheets DEF OwnBatch, UnderWay, Types
<1> DEFINE Used(n, p) == p.row \in DOMAIN n /\ n[p.row] = [note |-> p.note, status |-> "used"]
           L(k) ==
      (k \notin missed \cup astray /\ pc[k] # "idle") =>
         \A p \in made[batch[k]].notes \ picked[k] : Used(notes, p)
           UsedStay ==
      \A i \in DOMAIN notes : notes[i].status = "used" => i \in DOMAIN notes' /\ notes'[i] = notes[i]
\* A job stays right when used notes do, and what it need not mark any more is used.
<1>1. ASSUME NEW k \in Jobs, UsedStay, pc'[k] # "idle" => pc[k] # "idle", batch'[k] = batch[k],
             k \in missed \cup astray => k \in missed' \cup astray',
             \A p \in picked[k] : p \in picked'[k] \/ Used(notes', p)
      PROVE  L(k)'
  <2> SUFFICES ASSUME k \notin missed' \cup astray', pc'[k] # "idle",
                      NEW p \in made'[batch'[k]].notes \ picked'[k]
               PROVE  Used(notes', p)
    OBVIOUS
  <2>1. p \in made[batch[k]].notes BY <1>0, <1>1 DEF MadeKept
  <2>2. p \in picked[k] \/ Used(notes, p) BY <1>1, <2>1 DEF NoneForgotten
  <2>3. Used(notes, p) => Used(notes', p)
    <3> SUFFICES ASSUME Used(notes, p) PROVE Used(notes', p) OBVIOUS
    <3>1. notes[p.row].status = "used" OBVIOUS
    <3> QED BY <3>1, <1>1
  <2> QED BY <1>1, <2>2, <2>3
<1>2. ASSUME UnderWay \subseteq astray', \A k \in Jobs : pc'[k] = pc[k]
      PROVE  \A k \in Jobs : L(k)'
  BY <1>2 DEF UnderWay
<1>3. ASSUME UNCHANGED notes PROVE UsedStay BY <1>3
<1>4. CASE (Reviewer \/ Publisher) /\ UNCHANGED <<notes, now, job, past, people>>
  <2>1. UNCHANGED <<notes, pc, batch, picked, missed, astray>> BY <1>4 DEF job, past
  <2>2. \A k \in Jobs : L(k)' BY <2>1, <1>1, <1>3
  <2> QED BY <2>2 DEF NoneForgotten
<1>5. CASE Human /\ UNCHANGED feed
  <2>1. CASE NotesByHand
    <3>1. astray' = UnderWay /\ UNCHANGED job
      BY <2>1 DEF NotesByHand, DeleteNote, EditNote, ByHand
    <3>2. \A k \in Jobs : L(k)' BY <3>1, <1>2 DEF job
    <3> QED BY <3>2 DEF NoneForgotten
  <2>2. ASSUME NEW n \in Notes, AddNote(n) PROVE NoneForgotten'
    <3>1. UNCHANGED <<pc, batch, picked, missed, astray>> BY <2>2 DEF AddNote, job, past
    <3>2. UsedStay BY <2>2, AddKeeps
    <3>3. \A k \in Jobs : L(k)' BY <3>1, <3>2, <1>1
    <3> QED BY <3>3 DEF NoneForgotten
  <2> QED BY <1>5, <2>1, <2>2 DEF Human
<1>6. ASSUME NEW j \in Jobs,
             Start(j) \/ Answer(j) \/ AppendRow(j) \/ MarkNote(j) \/ MarkFails(j) \/ Leaves(j)
      PROVE  \A k \in Jobs : L(k)'
  <2>1. CASE Start(j)
    <3> DEFINE b == [stamp |-> now', notes |-> NotesToUse, drafts |-> <<>>]
    <3>1. /\ pc' = [pc EXCEPT ![j] = "call"]
          /\ batch' = [batch EXCEPT ![j] = Len(made) + 1] /\ made' = Append(made, b)
          /\ picked' = [picked EXCEPT ![j] = NotesToUse]
          /\ UNCHANGED <<notes, missed, astray>>
      BY <2>1 DEF Start, sheets
    <3>2. b.notes = NotesToUse OBVIOUS
    <3> HIDE DEF b
    <3>3. made \in Seq(Batch \cup {b}) BY SeqMonotonic DEF Types
    <3>4. made'[Len(made) + 1] = b BY <3>1, <3>3, AppendProperties
    <3>5. batch'[j] = Len(made) + 1 /\ picked'[j] = NotesToUse BY <3>1 DEF Types
    <3>6. L(j)' BY <3>2, <3>4, <3>5
    <3>7. ASSUME NEW k \in Jobs \ {j} PROVE L(k)'
      <4>1. pc'[k] = pc[k] /\ batch'[k] = batch[k] /\ picked'[k] = picked[k] BY <3>1 DEF Types
      <4> QED BY <3>1, <4>1, <1>1, <1>3
    <3> QED BY <3>6, <3>7
  <2>2. CASE Answer(j)
    <3>1. /\ UNCHANGED <<notes, batch, picked, missed, astray>>
          /\ pc[j] = "call" /\ pc' = [pc EXCEPT ![j] = "append"]
      BY <2>2 DEF Answer, sheets
    <3>2. \A k \in Jobs : pc'[k] # "idle" => pc[k] # "idle" BY <3>1 DEF Types
    <3> QED BY <3>1, <3>2, <1>1, <1>3
  <2>3. CASE AppendRow(j)
    <3>1. /\ UNCHANGED <<notes, batch, picked, missed, astray>>
          /\ pc[j] = "append"
          /\ pc' = [pc EXCEPT ![j] = IF NextRow(j)[1] > Len(drafts[j]) THEN "mark" ELSE "append"]
      BY <2>3 DEF AppendRow, Advance
    <3>2. \A k \in Jobs : pc'[k] # "idle" => pc[k] # "idle" BY <3>1 DEF Types
    <3> QED BY <3>1, <3>2, <1>1, <1>3
  <2>4. CASE MarkNote(j)
    <3>1. PICK p \in picked[j] :
             /\ p \in Pick /\ notes' = Put(notes, p.row, [note |-> p.note, status |-> "used"])
             /\ [note |-> p.note, status |-> "used"] \in NoteRow /\ Marked(j, p)
      BY <2>4, MarkWrites
    <3>2. /\ UNCHANGED <<pc, batch, missed>> /\ picked' = [picked EXCEPT ![j] = @ \ {p}]
      BY <2>4, <3>1 DEF MarkNote, Marked
    <3>3. CASE j \in astray
      <4>1. astray' = UnderWay BY <2>4, <3>3 DEF MarkNote
      <4> QED BY <4>1, <3>2, <1>2
    <3>4. CASE j \notin astray
      <4>1. astray' = astray BY <2>4, <3>4 DEF MarkNote
      <4>2. /\ DOMAIN notes' = DOMAIN notes
            /\ \A i \in DOMAIN notes : /\ notes'[i].note = notes[i].note
                                       /\ notes'[i].status \in {notes[i].status, "used"}
        BY <2>4, <3>4, MarkInPlace
      <4>3. UsedStay
        <5> SUFFICES ASSUME NEW i \in DOMAIN notes, notes[i].status = "used"
                     PROVE  notes'[i] = notes[i]
          BY <4>2
        <5>1. Types' BY TypesStep
        <5>2. notes[i] \in NoteRow BY Sheets
        <5>3. notes'[i] \in NoteRow
          <6>1. notes' \in Seq(NoteRow) BY <5>1 DEF Types
          <6> QED BY <6>1, <4>2, ElementOfSeq
        <5>4. notes'[i].note = notes[i].note /\ notes'[i].status = notes[i].status BY <4>2
        <5> QED BY <5>2, <5>3, <5>4 DEF NoteRow
      <4>4. p.row \in DOMAIN notes BY <3>4 DEF PickedHeld
      <4>5. Used(notes', p)
        <5>1. p.row \in 1..(IF p.row > Len(notes) THEN p.row ELSE Len(notes))
          BY <4>4, Sheets
        <5> DEFINE x == [note |-> p.note, status |-> "used"]
                   r == p.row
        <5>2. x = [note |-> p.note, status |-> "used"] /\ notes' = Put(notes, r, x) BY <3>1
        <5> HIDE DEF x
        <5>3. Put(notes, r, x)[r] = x BY <5>1 DEF Put
        <5> QED BY <5>2, <5>3, <4>2, <4>4
      <4>7. \A k \in Jobs : \A q \in picked[k] : q \in picked'[k] \/ q = p
        BY <3>2 DEF Types
      <4>8. ASSUME NEW k \in Jobs PROVE L(k)'
        <5>1. \A q \in picked[k] : q \in picked'[k] \/ Used(notes', q) BY <4>5, <4>7
        <5> QED BY <5>1, <4>1, <4>3, <3>2, <1>1
      <4> QED BY <4>8
    <3> QED BY <3>3, <3>4
  <2>5. CASE MarkFails(j)
    <3>1. PICK p \in picked[j] : Marked(j, p) BY <2>5 DEF MarkFails
    <3>2. /\ UNCHANGED <<pc, batch, notes, astray>> /\ picked' = [picked EXCEPT ![j] = @ \ {p}]
          /\ missed' = missed \cup {j}
      BY <2>5, <3>1 DEF MarkFails, Marked
    <3>3. ASSUME NEW k \in Jobs \ {j} PROVE L(k)'
      <4>1. picked'[k] = picked[k] BY <3>2 DEF Types
      <4> QED BY <4>1, <3>2, <1>1, <1>3
    <3>4. L(j)' BY <3>2
    <3> QED BY <3>3, <3>4
  <2>6. CASE Leaves(j)
    <3>1. /\ pc' = [pc EXCEPT ![j] = "idle"] /\ batch' = [batch EXCEPT ![j] = 0]
          /\ picked' = [picked EXCEPT ![j] = {}] /\ notes' = notes
          /\ missed' = missed \ {j} /\ astray' = astray \ {j}
      BY <2>6 DEF Leaves, End
    <3>2. L(j)'
      <4>1. pc'[j] = "idle" BY <3>1 DEF Types
      <4> QED BY <4>1
    <3>3. ASSUME NEW k \in Jobs \ {j} PROVE L(k)'
      <4>1. pc'[k] = pc[k] /\ batch'[k] = batch[k] /\ picked'[k] = picked[k] BY <3>1 DEF Types
      <4> QED BY <3>1, <4>1, <1>1, <1>3
    <3> QED BY <3>2, <3>3
  <2> QED BY <1>6, <2>1, <2>2, <2>3, <2>4, <2>5, <2>6
<1>7. ASSUME \A k \in Jobs : L(k)' PROVE NoneForgotten'
  BY <1>7 DEF NoneForgotten
<1> QED BY <1>4, <1>5, <1>6, <1>7, Steps

-----------------------------------------------------------------------------
\* A row n of the thread of row i is above it.
HasAbove(i, n) ==
    \E k \in 1..(i - 1) : /\ queue[k].seq = n /\ queue[k].id = [queue[i].id EXCEPT ![3] = n]
                          /\ queue[k].threaded \/ Doubled(queue[k].id)

LEMMA RewrittenSheet ==
    ASSUME Types, OwnBatch, Progress, OnSheet, ThreadsFromParent, Rewritten,
           UNCHANGED <<made, written>>
    PROVE  OnSheet' /\ ThreadsFromParent'
<1>0. /\ Len(queue) \in Nat /\ DOMAIN queue = 1..Len(queue) /\ DOMAIN queue' = DOMAIN queue
      /\ \A id : Doubled(id) => Doubled(id)'
  <2>1. Len(queue) \in Nat /\ DOMAIN queue = 1..Len(queue) BY Sheets
  <2>2. DOMAIN queue' = DOMAIN queue BY DEF Rewritten
  <2>3. \A f \in DOMAIN queue : queue'[f].id = queue[f].id BY DEF Rewritten, MadeOf
  <2>4. \A id : Doubled(id) => Doubled(id)' BY <2>2, <2>3 DEF Doubled
  <2> QED BY <2>1, <2>2, <2>4
<1>1. ASSUME NEW f \in DOMAIN queue
      PROVE  /\ queue'[f].id = queue[f].id /\ queue'[f].seq = queue[f].seq
             /\ queue'[f].threaded = queue[f].threaded \/ Doubled(queue[f].id)
  <2>1. PICK k \in DOMAIN queue : /\ queue[k].id = queue[f].id /\ queue'[f].seq = queue[k].seq
                                  /\ queue'[f].threaded = queue[k].threaded
    BY DEF Rewritten, MadeOf
  <2>2. queue'[f].id = queue[f].id BY DEF Rewritten, MadeOf
  <2>3. queue[k].seq = queue[f].seq BY <2>1 DEF OnSheet
  <2>4. k = f \/ Doubled(queue[f].id) BY <2>1 DEF Doubled
  <2> QED BY <2>1, <2>2, <2>3, <2>4
<1>2. OnSheet'
  <2>1. \A i \in DOMAIN queue' : queue'[i].seq = queue'[i].id[3]
    BY <1>0, <1>1 DEF OnSheet
  <2>2. ASSUME NEW s \in written
        PROVE  /\ s[2] \in DOMAIN made'[s[1]].drafts
               /\ \E k \in DOMAIN queue' :
                     /\ queue'[k].id = IdOf(s)'
                     /\ made'[s[1]].drafts[s[2]] > 0 => queue'[k].threaded \/ Doubled(IdOf(s))'
    <3>1. PICK id : id = IdOf(s) /\ id = IdOf(s)' BY DEF IdOf
    <3>2. PICK k \in DOMAIN queue :
             /\ queue[k].id = id
             /\ made[s[1]].drafts[s[2]] > 0 => queue[k].threaded \/ Doubled(id)
      BY <3>1 DEF OnSheet
    <3>3. queue'[k].id = id /\ (queue'[k].threaded = queue[k].threaded \/ Doubled(id))
      BY <1>1, <3>2
    <3>4. made[s[1]].drafts[s[2]] > 0 => queue'[k].threaded \/ Doubled(id)'
      BY <1>0, <3>2, <3>3
    <3>5. Doubled(id)' => Doubled(IdOf(s))' BY <3>1 DEF Doubled
    <3>6. s[2] \in DOMAIN made[s[1]].drafts BY DEF OnSheet
    <3> QED BY <1>0, <3>1, <3>3, <3>4, <3>5, <3>6
  <2> QED BY <2>1, <2>2 DEF OnSheet
<1>3. ThreadsFromParent'
  <2> SUFFICES ASSUME NEW i \in DOMAIN queue', NEW n \in 0..(queue'[i].seq - 1)
               PROVE  \E k \in 1..(i - 1) :
                         /\ queue'[k].seq = n /\ queue'[k].id = [queue'[i].id EXCEPT ![3] = n]
                         /\ queue'[k].threaded \/ Doubled(queue[k].id)'
    BY Zenon DEF ThreadsFromParent
  <2>0. i \in DOMAIN queue BY <1>0
  <2>1. n \in 0..(queue[i].seq - 1) /\ queue'[i].id = queue[i].id BY <1>1, <2>0
  <2>2. PICK k \in 1..(i - 1) :
           /\ queue[k].seq = n /\ queue[k].id = [queue[i].id EXCEPT ![3] = n]
           /\ queue[k].threaded \/ Doubled(queue[k].id)
    BY <2>0, <2>1 DEF ThreadsFromParent
  <2>3. k \in DOMAIN queue BY <1>0, <2>0
  <2>4. PICK id : id = queue[k].id OBVIOUS
  <2>5. queue'[k].threaded \/ Doubled(id)' BY <1>0, <1>1, <2>2, <2>3, <2>4
  <2> QED BY <1>1, <2>1, <2>2, <2>3, <2>4, <2>5
<1> QED BY <1>2, <1>3

LEMMA AppendedSheet ==
    ASSUME Types, OwnBatch, Progress, OnSheet, ThreadsFromParent,
           NEW j \in Jobs, Wrote(j), UNCHANGED made
    PROVE  OnSheet' /\ ThreadsFromParent'
<1>1. PICK w \in (Nat \ {0}) \X (Nat \ {0}) \X Nat :
         /\ w = <<batch[j], at[j][1], at[j][2]>>
         /\ written' = written \cup {w} /\ DOMAIN queue \subseteq DOMAIN queue'
         /\ queue' \in Seq(QueueRow)
         /\ \A i \in DOMAIN queue : queue'[i] = queue[i]
         /\ \E i \in DOMAIN queue' : i \notin DOMAIN queue
         /\ \A i \in DOMAIN queue' \ DOMAIN queue :
               /\ queue'[i].id = IdOf(w) /\ queue'[i].seq = w[3]
               /\ queue'[i].threaded = (drafts[j][w[2]] > 0)
               /\ \A k \in DOMAIN queue : k < i
  BY AppendAdds
<1>2. PICK b \in Nat \ {0}, d \in Nat \ {0}, r \in Nat : w = <<b, d, r>> OBVIOUS
<1>3. /\ b = batch[j] /\ at[j] = <<d, r>> /\ pc[j] = "append"
  <2>1. at[j] \in (Nat \ {0}) \X Nat BY DEF Types
  <2> QED BY <1>1, <1>2, <2>1 DEF Wrote
<1>4. /\ drafts[j] = made[b].drafts /\ d \in DOMAIN drafts[j] /\ r <= drafts[j][d]
      /\ \A n \in 0..drafts[j][d] : Earlier(<<d, n>>, at[j]) => <<b, d, n>> \in written
  BY <1>3 DEF Progress, ProgressOf
<1>5. drafts[j][d] \in Nat
  <2>1. drafts[j] \in Seq(Nat) BY DEF Types
  <2>2. d \in 1..Len(drafts[j]) BY <1>4, <2>1, LenProperties
  <2> QED BY <2>1, <2>2, ElementOfSeq
<1>6. /\ DOMAIN queue = 1..Len(queue) /\ Len(queue) \in Nat
      /\ DOMAIN queue' = 1..Len(queue') /\ Len(queue') \in Nat
      /\ \A id : Doubled(id) => Doubled(id)'
  BY <1>1, Sheets, LenProperties DEF Doubled
<1>7. \A s : IdOf(s)' = IdOf(s) BY DEF IdOf
<1>8. OnSheet'
  <2>1. \A i \in DOMAIN queue' : queue'[i].seq = queue'[i].id[3]
    <3> SUFFICES ASSUME NEW i \in DOMAIN queue' PROVE queue'[i].seq = queue'[i].id[3]
      OBVIOUS
    <3>1. IdOf(w)[3] = w[3] BY DEF IdOf
    <3>2. CASE i \in DOMAIN queue
      <4>1. queue'[i] = queue[i] BY <1>1, <3>2
      <4>2. queue[i].seq = queue[i].id[3] BY <3>2 DEF OnSheet
      <4> QED BY <4>1, <4>2
    <3>3. CASE i \notin DOMAIN queue
      <4>1. queue'[i].id = IdOf(w) /\ queue'[i].seq = w[3] BY <1>1, <3>3
      <4> QED BY <3>1, <4>1
    <3> QED BY <3>2, <3>3
  <2>2. ASSUME NEW s \in written'
        PROVE  /\ s[2] \in DOMAIN made'[s[1]].drafts
               /\ \E k \in DOMAIN queue' :
                     /\ queue'[k].id = IdOf(s)'
                     /\ made'[s[1]].drafts[s[2]] > 0 => queue'[k].threaded \/ Doubled(IdOf(s))'
    <3>1. PICK id : id = IdOf(s) /\ id = IdOf(s)' BY <1>7
    <3>2. Doubled(id) => Doubled(IdOf(s))' BY <1>6, <3>1 DEF Doubled
    <3>3. CASE s \in written
      <4>1. PICK k \in DOMAIN queue :
               /\ queue[k].id = id
               /\ made[s[1]].drafts[s[2]] > 0 => queue[k].threaded \/ Doubled(id)
        BY <3>1, <3>3 DEF OnSheet
      <4>2. s[2] \in DOMAIN made[s[1]].drafts BY <3>3 DEF OnSheet
      <4> QED BY <1>1, <3>1, <3>2, <4>1, <4>2
    <3>4. CASE s = w
      <4>1. PICK k \in DOMAIN queue' : k \notin DOMAIN queue BY <1>1
      <4>2. queue'[k].id = IdOf(w) /\ queue'[k].threaded = (drafts[j][w[2]] > 0)
        BY <1>1, <4>1
      <4>3. s[1] = b /\ s[2] = d /\ w[2] = d BY <1>2, <3>4
      <4>4. IdOf(w) = IdOf(s) BY <3>4
      <4>5. queue'[k].id = IdOf(s)' BY <3>1, <4>2, <4>4
      <4> QED BY <1>4, <4>1, <4>2, <4>3, <4>5
    <3> QED BY <1>1, <3>3, <3>4
  <2> QED BY <2>1, <2>2 DEF OnSheet
<1>9. ThreadsFromParent'
  <2> SUFFICES ASSUME NEW i \in DOMAIN queue', NEW n \in 0..(queue'[i].seq - 1)
               PROVE  \E k \in 1..(i - 1) :
                         /\ queue'[k].seq = n /\ queue'[k].id = [queue'[i].id EXCEPT ![3] = n]
                         /\ queue'[k].threaded \/ Doubled(queue[k].id)'
    BY DEF ThreadsFromParent, Doubled
  <2>1. CASE i \in DOMAIN queue
    <3>1. queue'[i] = queue[i] BY <1>1, <2>1
    <3>2. PICK k \in 1..(i - 1) :
             /\ queue[k].seq = n /\ queue[k].id = [queue[i].id EXCEPT ![3] = n]
             /\ queue[k].threaded \/ Doubled(queue[k].id)
      BY <2>1, <3>1 DEF ThreadsFromParent
    <3>3. k \in DOMAIN queue /\ queue'[k] = queue[k] BY <1>1, <1>6, <2>1
    <3>4. PICK id : id = queue[k].id OBVIOUS
    <3>5. Doubled(id) => Doubled(id)' BY <1>6
    <3> QED BY <3>1, <3>2, <3>3, <3>4, <3>5
  <2>2. CASE i \notin DOMAIN queue
    <3>1. queue'[i].id = <<made[b].stamp, d, r>> /\ queue'[i].seq = r
      BY <1>1, <1>2, <2>2 DEF IdOf
    <3>2. n \in Nat /\ n < r BY <3>1
    <3> DEFINE v == <<b, d, n>>
    <3>3. v \in written
      <4>1. n \in 0..drafts[j][d] BY <1>4, <1>5, <3>2
      <4>2. Earlier(<<d, n>>, at[j]) BY <1>3, <3>2 DEF Earlier
      <4> QED BY <1>4, <4>1, <4>2
    <3>4. PICK k \in DOMAIN queue :
             /\ queue[k].id = IdOf(v)
             /\ made[b].drafts[d] > 0 => queue[k].threaded \/ Doubled(IdOf(v))
      BY <3>3 DEF OnSheet
    <3>5. made[b].drafts[d] > 0 BY <1>4, <1>5, <3>2
    <3>6. PICK x : x = made[b].stamp OBVIOUS
    <3>7. queue[k].id = <<x, d, n>> /\ queue[k].seq = n
      <4>1. IdOf(v) = <<x, d, n>> BY <3>6 DEF IdOf
      <4> QED BY <3>4, <4>1 DEF OnSheet
    <3>8. [<<x, d, r>> EXCEPT ![3] = n] = <<x, d, n>> OBVIOUS
    <3>9. queue[k].id = [queue'[i].id EXCEPT ![3] = n] BY <3>1, <3>6, <3>7, <3>8
    <3>10. k \in 1..(i - 1) BY <1>1, <1>6, <2>2
    <3>11. queue'[k] = queue[k] BY <1>1
    <3>12. PICK id : id = queue[k].id OBVIOUS
    <3>13. queue[k].threaded \/ Doubled(id) BY <3>4, <3>5, <3>12
    <3>14. Doubled(id) => Doubled(id)' BY <1>6
    <3> HIDE DEF v
    <3> QED BY <3>7, <3>9, <3>10, <3>11, <3>12, <3>13, <3>14
  <2> QED BY <2>1, <2>2
<1> QED BY <1>8, <1>9

LEMMA SheetStep ==
    ASSUME Types, StatusOfNote, OwnBatch, Progress, OnSheet, ThreadsFromParent, DraftNext
    PROVE  OnSheet' /\ ThreadsFromParent'
<1>1. ASSUME UNCHANGED <<queue, written>> PROVE OnSheet' /\ ThreadsFromParent'
  <2>1. ThreadsFromParent' BY <1>1 DEF ThreadsFromParent, Doubled
  <2>2. ASSUME NEW s \in written
        PROVE  /\ s[2] \in DOMAIN made'[s[1]].drafts
               /\ \E k \in DOMAIN queue' :
                     /\ queue'[k].id = IdOf(s)'
                     /\ made'[s[1]].drafts[s[2]] > 0 => queue'[k].threaded \/ Doubled(IdOf(s))'
    <3>1. PICK id : id = IdOf(s) /\ id = IdOf(s)'
      <4>1. IdOf(s)' = IdOf(s) BY IdsStay
      <4> QED BY <4>1
    <3>2. /\ s[2] \in DOMAIN made[s[1]].drafts
          /\ \E k \in DOMAIN queue :
                /\ queue[k].id = id
                /\ made[s[1]].drafts[s[2]] > 0 => queue[k].threaded \/ Doubled(id)
      BY <3>1 DEF OnSheet
    <3>3. made'[s[1]].drafts = made[s[1]].drafts
      <4>1. made[s[1]].drafts # <<>>
        <5>1. DOMAIN <<>> = {} OBVIOUS
        <5> QED BY <3>2, <5>1
      <4>2. s[1] \in 1..Len(made) BY Sheets DEF OwnBatch, Types
      <4> QED BY <4>1, <4>2, MadeIsKept DEF MadeKept
    <3>4. Doubled(id) => Doubled(IdOf(s))' BY <1>1, <3>1 DEF Doubled
    <3> QED BY <1>1, <3>1, <3>2, <3>3, <3>4
  <2>3. OnSheet' BY <1>1, <2>2 DEF OnSheet
  <2> QED BY <2>1, <2>3
<1>2. CASE (Reviewer \/ Publisher) /\ UNCHANGED <<notes, now, job, past, people>>
  <2>1. Rewritten
    BY <1>2, ReviewRewrites, ApprovalRewrites, PublishRewrites DEF Reviewer, Publisher
  <2> QED BY <1>2, <2>1, RewrittenSheet DEF past
<1>3. ASSUME NEW j \in Jobs, AppendRow(j) PROVE Wrote(j) /\ UNCHANGED made
  BY <1>3 DEF AppendRow, Wrote
<1>4. ASSUME NEW j \in Jobs, Leaves(j) PROVE (Wrote(j) \/ Unwritten) /\ UNCHANGED made
  BY <1>4 DEF Leaves
<1>5. ASSUME NEW j \in Jobs, Start(j) \/ Answer(j) \/ MarkNote(j) \/ MarkFails(j)
      PROVE  UNCHANGED <<queue, written>>
  BY <1>5 DEF Start, Answer, MarkNote, MarkFails, Marked, sheets
<1>6. ASSUME Human PROVE UNCHANGED <<queue, written>>
  BY <1>6 DEF Human, AddNote, NotesByHand, DeleteNote, EditNote, ByHand, past
<1> QED BY <1>1, <1>2, <1>3, <1>4, <1>5, <1>6, AppendedSheet, Steps DEF Unwritten

-----------------------------------------------------------------------------
LEMMA InitEstablishes ==
    ASSUME DraftInit
    PROVE  IInv
<1> USE DEF DraftInit, Init
<1>1. FirstNotes \in Seq(Notes) BY NotesAssumption
<1>2. Len(FirstNotes) \in Nat /\ DOMAIN FirstNotes = 1..Len(FirstNotes)
      /\ \A i \in DOMAIN FirstNotes : FirstNotes[i] \in Notes
  BY <1>1, LenProperties, ElementOfSeq
<1>3. notes \in [1..Len(FirstNotes) -> NoteRow]
      /\ \A i \in DOMAIN notes : notes[i].status = "new" /\ notes[i].note \in Notes
  BY <1>2 DEF NoteRow
<1>4. notes \in Seq(NoteRow) BY <1>2, <1>3, FunctionsAreSheets
<1>5. /\ <<>> \in Seq(QueueRow) /\ <<>> \in Seq(Batch) /\ <<>> \in Seq(Nat)
      /\ Len(<<>>) = 0 /\ DOMAIN <<>> = {}
  BY EmptySeq, LenProperties
<1>6. Types BY <1>4, <1>5 DEF Types
<1>7. StatusOfNote /\ UsedMeansAppended BY <1>3 DEF StatusOfNote, UsedMeansAppended
<1>8. OwnBatch BY <1>5 DEF OwnBatch
<1>9. Progress /\ PickedHeld BY DEF Progress, ProgressOf, PickedHeld
<1>10. Stamped /\ IdsExplained BY <1>5 DEF Stamped, IdsExplained
<1>11. LiveMarked /\ GoesOutOnce BY DEF LiveMarked, GoesOutOnce
<1>12. missed \cup astray \subseteq UnderWay OBVIOUS
<1>13. NoneForgotten /\ OnSheet /\ ThreadsFromParent
  BY <1>5 DEF NoneForgotten, OnSheet, ThreadsFromParent
<1> QED BY <1>13, <1>6, <1>7, <1>8, <1>9, <1>10, <1>11, <1>12 DEF IInv

LEMMA StepKeeps ==
    ASSUME IInv, [DraftNext]_allVars
    PROVE  IInv'
<1>1. CASE DraftNext
  <2>1. Types' /\ StatusOfNote' BY <1>1, TypesStep, StatusStep DEF IInv
  <2>2. OwnBatch' /\ (missed \cup astray \subseteq UnderWay)' BY <1>1, BatchStep DEF IInv
  <2>3. Progress' /\ PickedHeld' /\ UsedMeansAppended'
    BY <1>1, ProgressStep, PickedStep, UsedStep DEF IInv
  <2>4. Stamped' /\ IdsExplained' BY <1>1, <2>1, <2>2, IdsStep DEF IInv
  <2>5. LiveMarked' /\ GoesOutOnce' BY <1>1, LiveStep DEF IInv
  <2>6. NoneForgotten' BY <1>1, NoneForgottenStep DEF IInv
  <2>7. OnSheet' /\ ThreadsFromParent' BY <1>1, <2>1, SheetStep DEF IInv
  <2> QED BY <2>1, <2>2, <2>3, <2>4, <2>5, <2>6, <2>7 DEF IInv
<1>2. CASE UNCHANGED allVars
  <2> USE <1>2 DEF allVars, vars, sheets, job, past, feed
  <2>1. Types' /\ StatusOfNote' /\ OwnBatch' BY DEF IInv, Types, StatusOfNote, OwnBatch
  <2>2. Progress' /\ PickedHeld' BY DEF IInv, Progress, ProgressOf, PickedHeld
  <2>3. UsedMeansAppended' BY DEF IInv, UsedMeansAppended, Whole
  <2>4. Stamped' /\ IdsExplained' BY DEF IInv, Stamped, IdOf, IdsExplained
  <2>5. LiveMarked' /\ GoesOutOnce' BY DEF IInv, LiveMarked, GoesOutOnce, IdOf, Doubled
  <2>6. (missed \cup astray \subseteq UnderWay)' BY DEF IInv, UnderWay
  <2>7. NoneForgotten' BY DEF IInv, NoneForgotten
  <2>8. OnSheet' /\ ThreadsFromParent'
    <3>1. ThreadsFromParent' BY DEF IInv, ThreadsFromParent, Doubled
    <3>2. \A s : (IdOf(s)' = IdOf(s)) /\ (Doubled(IdOf(s))' = Doubled(IdOf(s)))
      BY DEF IdOf, Doubled
    <3>3. OnSheet' BY <3>2 DEF IInv, OnSheet
    <3> QED BY <3>1, <3>3
  <2> QED BY <2>1, <2>2, <2>3, <2>4, <2>5, <2>6, <2>7, <2>8 DEF IInv
<1> QED BY <1>1, <1>2

LEMMA Inductive == DraftSpec => []IInv
<1>1. DraftInit => IInv BY InitEstablishes
<1>2. IInv /\ [DraftNext]_allVars => IInv' BY StepKeeps
<1> QED BY <1>1, <1>2, PTL DEF DraftSpec

\* Every variable has its type; a job that is at work has a batch, and stands at a
\* row of its answer or right behind the last (generate_drafts.py:437-470).
THEOREM DraftsTypeCorrect == DraftSpec => []DraftTypeOK
<1>1. IInv => DraftTypeOK
  <2> SUFFICES ASSUME IInv PROVE DraftTypeOK OBVIOUS
  <2>1. Types /\ OwnBatch /\ Progress /\ LiveMarked /\ missed \cup astray \subseteq UnderWay
        /\ Len(made) \in Nat
    BY Sheets DEF IInv
  <2>2. ASSUME NEW j \in Jobs
        PROVE  /\ batch[j] \in 0..Len(made) /\ (pc[j] = "idle" <=> batch[j] = 0)
               /\ \A p \in picked[j] : p.row \in Nat \ {0} /\ p.note \in Notes
    BY <2>1 DEF Types, OwnBatch, Pick
  <2>3. ASSUME NEW j \in Jobs
        PROVE  /\ drafts[j] \in Seq(Nat) /\ Len(drafts[j]) <= Count
               /\ at[j] \in (1..(Len(drafts[j]) + 1)) \X Nat
               /\ at[j][1] <= Len(drafts[j]) => at[j][2] <= drafts[j][at[j][1]]
    <3>0. drafts[j] \in Seq(Nat) /\ at[j] \in (Nat \ {0}) \X Nat BY <2>1 DEF Types
    <3>1. PICK d \in Nat \ {0}, n \in Nat : at[j] = <<d, n>> BY <3>0
    <3>2. PICK l \in Nat : l = Len(drafts[j]) /\ DOMAIN drafts[j] = 1..l
      BY <3>0, LenProperties
    <3>3. CASE pc[j] \in {"idle", "call"}
      <4>1. drafts[j] = <<>> /\ at[j] = <<1, 0>> BY <2>1, <3>3 DEF OwnBatch
      <4>2. l = 0 BY <4>1, <3>2, EmptySeq
      <4>3. d = 1 BY <4>1, <3>1
      <4> QED BY <4>2, <4>3, <3>0, <3>1, <3>2, CountAssumption
    <3>4. CASE pc[j] = "append"
      <4>1. l <= Count /\ d \in 1..l /\ n <= drafts[j][d]
        BY <2>1, <3>1, <3>2, <3>4 DEF Progress, ProgressOf
      <4> QED BY <4>1, <3>0, <3>1, <3>2
    <3>5. CASE pc[j] = "mark"
      <4>1. l <= Count /\ d = l + 1
        BY <2>1, <3>1, <3>2, <3>5 DEF Progress, ProgressOf
      <4> QED BY <4>1, <3>0, <3>1, <3>2
    <3> QED BY <2>1, <3>3, <3>4, <3>5 DEF Types
  <2>4. live \cup written \subseteq (1..Len(made)) \X (Nat \ {0}) \X Nat /\ twice \subseteq live
    BY <2>1 DEF Types, OwnBatch, LiveMarked
  <2> QED BY <2>1, <2>2, <2>3, <2>4 DEF DraftTypeOK, Types
<1> QED BY <1>1, Inductive, PTL

\* A note is called used only when a generation that had it in its prompt has its
\* whole answer in post_queue: the marks come last (generate_drafts.py:453-470).
\* That the answer has a draft for this note is not said, and need not be so.
THEOREM UsedNotesWereAppended == DraftSpec => []UsedMeansAppended
<1>1. IInv => UsedMeansAppended BY DEF IInv
<1> QED BY <1>1, Inductive, PTL

\* A queue_id on two rows comes from an append that was carried out twice, or from
\* two generations that began in the same minute (generate_drafts.py:403).
THEOREM DoubledIdsHaveCause == DraftSpec => []IdsExplained
<1>1. IInv => IdsExplained BY DEF IInv
<1> QED BY <1>1, Inductive, PTL

\* What goes out twice has a doubled id: as long as ids are unique, the status of
\* a row keeps the publisher from posting it again (publish_queue.py:19-21).
THEOREM OnlyDoubledGoesOutTwice == DraftSpec => []GoesOutOnce
<1>1. IInv => GoesOutOnce BY DEF IInv
<1> QED BY <1>1, Inductive, PTL

\* A posted row whose id is on no other row is never changed (queue.py:36-37).
THEOREM PostedIsFinal == DraftSpec => FinalUnlessDoubled
<1>1. IInv /\ [DraftNext]_allVars =>
         [\A i \in DOMAIN queue :
            (queue[i].status = "posted" /\ queue'[i] # queue[i]) => Doubled(queue[i].id)]_allVars
  <2> SUFFICES ASSUME IInv, DraftNext, NEW i \in DOMAIN queue,
                      queue[i].status = "posted", queue'[i] # queue[i]
               PROVE  Doubled(queue[i].id)
    OBVIOUS
  <2>1. RowsStay BY RowsDoStay DEF IInv
  <2> QED BY <2>1 DEF RowsStay
<1> QED BY <1>1, Inductive, PTL DEF DraftSpec, FinalUnlessDoubled

\* No step of the program moves, changes or revives a note, except that of a job
\* whose row numbers a human has made stale (notes.py:61-67).
THEOREM NotesAreKept == DraftSpec => NotesKept
<1>1. IInv /\ [DraftNext]_allVars =>
         [(UNCHANGED people /\ \A j \in astray : picked'[j] = picked[j])
            => /\ DOMAIN notes' = DOMAIN notes
               /\ \A i \in DOMAIN notes :
                     /\ notes'[i].note = notes[i].note
                     /\ notes'[i].status \in {notes[i].status, "used"}]_allVars
  <2> SUFFICES ASSUME IInv, DraftNext, UNCHANGED people,
                      \A j \in astray : picked'[j] = picked[j]
               PROVE  /\ DOMAIN notes' = DOMAIN notes
                      /\ \A i \in DOMAIN notes :
                            /\ notes'[i].note = notes[i].note
                            /\ notes'[i].status \in {notes[i].status, "used"}
    OBVIOUS
  <2>1. CASE UNCHANGED notes BY <2>1
  <2>2. ASSUME NEW j \in Jobs, MarkNote(j) PROVE j \notin astray
    BY <2>2 DEF MarkNote, Marked, IInv, Types
  <2>3. ASSUME Human PROVE UNCHANGED notes
    <3>1. people' = people + 1
      BY <2>3 DEF Human, AddNote, NotesByHand, DeleteNote, EditNote, ByHand, PeopleWrite
    <3>2. people \in Nat BY DEF IInv, Types
    <3> QED BY <3>1, <3>2
  <2>4. ASSUME NEW j \in Jobs,
               Start(j) \/ Answer(j) \/ AppendRow(j) \/ MarkFails(j) \/ Leaves(j)
        PROVE  UNCHANGED notes
    BY <2>4 DEF Start, Answer, AppendRow, MarkFails, Leaves, sheets
  <2> QED BY <2>1, <2>2, <2>3, <2>4, Steps, MarkInPlace DEF IInv
<1> QED BY <1>1, Inductive, PTL DEF DraftSpec, NotesKept

\* Every reply on the sheet has its parent and the replies before it above it, in
\* its thread unless a twin was written over them (generate_drafts.py:434-452).
THEOREM RepliesHaveParents == DraftSpec => []ThreadsFromParent
<1>1. IInv => ThreadsFromParent BY DEF IInv
<1> QED BY <1>1, Inductive, PTL

\* A generation whose marks did not fail, and whose notes nobody changed by hand,
\* leaves every row that it read used, with the note it read (generate_drafts.py:462-470).
THEOREM NoNoteTakenAgain == DraftSpec => []NoneLeftNew
<1>1. IInv => NoneLeftNew BY DEF IInv, NoneForgotten, NoneLeftNew, UnderWay
<1> QED BY <1>1, Inductive, PTL
=============================================================================
