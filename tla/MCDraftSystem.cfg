SPECIFICATION DraftSpec
CONSTANTS
    n1 = n1
    n2 = n2
    Jobs = {j1, j2}
    Notes = {n1, n2}
    FirstNotes <- TwoNotes
    Answers <- MCAnswers
    Count = 2
    MaxNow = 1
    MaxBatches = 2
    MaxRows = 3
    MaxByPeople = 1
    Faults = {"model", "append", "append_ack", "append_twice", "mark", "crash"}
INVARIANTS DraftTypeOK IdsExplained ThreadsFromParent UsedMeansAppended NoneLeftNew GoesOutOnce
PROPERTIES NotesKept FinalUnlessDoubled
SYMMETRY Interchangeable
CHECK_DEADLOCK FALSE
