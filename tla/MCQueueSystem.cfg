SPECIFICATION SystemSpec
CONSTANTS
    parent = parent
    reply = reply
    single = single
    t1 = t1
    c0 = c0
    Rows <- MCRows
    Parent <- MCParent
    SeqNo <- MCSeqNo
    RowNo <- MCRowNo
    Drafts <- MCDrafts
    Runs = {r1}
    Sessions = {s1}
    Comments = {c0, c1}
    Texts = {t1, t2}
    Cells <- MCCells
    MaxPostsPerRun = 1
    MaxPostsPerDay = 2
    MinHours = 0
    DayLen = 3
    WindowStart = 0
    WindowEnd = 2
    MaxNow = 2
    MaxRunTicks = 2
    MaxMedia = 4
    MaxConsents = 4
    Faults = {"prepare", "publish", "publish_ack", "record"}
INVARIANTS SystemTypeOK PublishedAsApproved NoDoublePost
PROPERTIES ColumnsKept FinalForAll
CHECK_DEADLOCK FALSE
