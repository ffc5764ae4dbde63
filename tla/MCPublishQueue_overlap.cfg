SPECIFICATION Spec
CONSTANTS
    parent = parent
    reply = reply
    single = single
    t1 = t1
    c0 = c0
    Rows <- PairRows
    Parent <- PairParent
    SeqNo <- PairSeqNo
    RowNo <- PairRowNo
    Drafts <- PairDrafts
    Runs = {r1, r2}
    Comments = {c0}
    Texts = {t1}
    Cells <- OneCell
    MaxPostsPerRun = 1
    MaxPostsPerDay = 2
    MinHours = 0
    DayLen = 3
    WindowStart = 0
    WindowEnd = 2
    MaxNow = 1
    MaxRunTicks = 1
    MaxMedia = 4
    MaxConsents = 3
    Faults = {"prepare", "publish", "publish_ack", "record", "record_ack", "mark", "crash"}
INVARIANTS PostedIsReal ThreadsInOrder
SYMMETRY Interchangeable
CHECK_DEADLOCK FALSE
