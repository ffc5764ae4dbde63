SPECIFICATION Spec
CONSTANTS
    Jobs = {j1}
    Sessions = {s1}
    Posts <- MCPosts
    Marks = {none, good}
    NoMark = none
    MaxViews = 1
    MaxFans = 0
    MaxDay = 1
INVARIANTS FeedbackIsHuman OkMeansRecorded
PROPERTIES LossesExplained
CHECK_DEADLOCK FALSE
