SPECIFICATION Spec
CONSTANTS
    Client = {c1}
    Port = {p1}
    Copies = 2
    Window = 2
    IDRange = 16
    MaxRequests = 3
    MaxLosses = 0
    MaxRestarts = 1
CHECK_DEADLOCK FALSE
INVARIANTS OncePerWindow
