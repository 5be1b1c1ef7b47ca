SPECIFICATION FairSpec
CONSTANTS
    Client = {c1}
    Port = {p1, p2}
    Copies = 2
    Window = 2
    IDRange = 16
    MaxRequests = 2
    MaxLosses = 1
    MaxRestarts = 0
CHECK_DEADLOCK FALSE
INVARIANTS OwnAnswer
PROPERTIES OnlyDuplicatesDiscarded CopiesSuffice
