SPECIFICATION Spec
CONSTANTS
    parent = parent
    reply = reply
    single = single
    t1 = t1
    c0 = c0
    Rows <- MCRows
    Parent <- MCParent
    SeqNo <- MCSeqNo
    RowNo <- MCRowNo
    Drafts <- MCDrafts
    Runs = {r1}
    Comments = {c0}
    Texts = {t1}
    Cells <- TwoCells
    MaxPostsPerRun = 1
    MaxPostsPerDay = 2
    MinHours = 0
    DayLen = 3
    WindowStart = 0
    WindowEnd = 2
    MaxNow = 2
    MaxRunTicks = 1
    MaxMedia = 4
    MaxConsents = 4
    Faults = {"record", "mark"}
INVARIANT NoDoublePost
CHECK_DEADLOCK FALSE
