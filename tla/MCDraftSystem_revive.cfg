SPECIFICATION DraftSpec
CONSTANTS
    n1 = n1
    n2 = n2
    Jobs = {j1}
    Notes = {n1}
    FirstNotes <- OneNote
    Answers <- OneAnswer
    Count = 1
    MaxNow = 0
    MaxBatches = 1
    MaxRows = 2
    MaxByPeople = 0
    Faults = {"append_twice"}
PROPERTY FinalStays
CHECK_DEADLOCK FALSE
