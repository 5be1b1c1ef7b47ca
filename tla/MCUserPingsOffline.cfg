SPECIFICATION Spec
CONSTANTS
    MinuteLen = 2
    SecondLen = 1000
    DayMinutes = 2
    HintLen = 1
    Scale = 4
    ByteRange = 4
    Node = {n1}
    Durations = {5}
    ClaimInterval = 0
    OffAfter = 2
    ClaimChunk = 1
    SaveChunk = 2
    MaxTime = 4
    MaxPings = 3
PROPERTIES OffAfterMonthOffline
