SPECIFICATION Spec
CONSTANTS
    Jobs = {j1}
    Sessions = {s1}
    Posts <- MCPosts
    Marks = {none, good}
    NoMark = none
    MaxViews = 1
    MaxFans = 1
    MaxDay = 2
PROPERTY RatingsKept
CHECK_DEADLOCK FALSE
