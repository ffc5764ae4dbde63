SPECIFICATION FairSpec
CONSTANTS
    old = old
    new = new
    v1 = v1
    Clients = {c1, c2}
    Keys = {old, new}
    Vals = {v1, v2}
    FirstRows <- MCFirstRows
    MaxAttempts = 2
    MaxRows = 3
INVARIANTS TypeOK DuplicatesExplained
PROPERTIES KeysStay ImplementsStore CallsEnd
