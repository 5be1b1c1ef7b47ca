SPECIFICATION Spec
CONSTANTS
    Client = {c1, c2}
    Port = {p1, p2}
    Copies = 2
    Window = 2
    IDRange = 16
    MaxRequests = 2
    MaxLosses = 1
    MaxRestarts = 0
CHECK_DEADLOCK FALSE
PROPERTIES OnlyDuplicatesDiscarded
