SPECIFICATION FairSpec
CONSTANTS
    parent = parent
    reply = reply
    single = single
    t1 = t1
    c0 = c0
    Rows <- MCRows
    Parent <- MCParent
    SeqNo <- MCSeqNo
    RowNo <- MCRowNo
    Drafts <- MCDrafts
    Runs = {r1}
    Comments = {c0}
    Texts = {t1, t2}
    Cells <- AnyCells
    MaxPostsPerRun = 1
    MaxPostsPerDay = 1
    MinHours = 3
    DayLen = 5
    WindowStart = 0
    WindowEnd = 4
    MaxNow = 5
    MaxRunTicks = 1
    MaxMedia = 4
    MaxConsents = 3
    Faults = {"prepare", "publish", "publish_ack", "record"}
INVARIANTS TypeOK PublishedAsApproved NoDoublePost DailyCap MinGap RunCap
PROPERTIES TerminalRows ImplementsPublishOnce OnlyGuardsDelay
CHECK_DEADLOCK FALSE
