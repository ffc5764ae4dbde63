SPECIFICATION Spec
CONSTANTS
    Jobs = {j1}
    Sessions = {}
    Posts = {1}
    Marks = {none}
    NoMark = none
    MaxViews = 0
    MaxFans = 1
    MaxDay = 3
INVARIANTS TypeOK DeltaRight
CHECK_DEADLOCK FALSE
