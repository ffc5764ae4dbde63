---------------------------- MODULE MCDraftSystem ----------------------------
(* DraftSystem with two notes on the sheet, or one.                           *)
EXTENDS DraftSystem, TLC

CONSTANTS n1, n2

OneNote == <<n1>>
TwoNotes == <<n1, n2>>

\* A single post, or a thread of a parent and a reply and then more drafts than are
\* asked for.
MCAnswers == {<<0>>, <<1, 0, 0>>}
OneAnswer == {<<0>>}
Interchangeable == Permutations(Jobs)
=============================================================================
