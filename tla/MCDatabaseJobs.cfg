SPECIFICATION JobsSpec
CONSTANTS
    Chain <- SmallChain
    Payout = {"p"}
    Page = 4
    HourLen = 1
    DayHours = 2
    MaxTime = 3
    Months = 2
    MaxDay = 5
    MaxSaves = 1
    MaxReads = 2
    MaxAborts = 1
    Savers = {s1, s2}
    Others = {o}
    Offered = {1, 2, 3}
    OfferLists <- TwoNodeLists
    MaxFetches = 1
    Probed = {1, 2}
    LoadChunk = 1
    MaxProbeSaves = 1
    MaxProberCrashes = 1
    StatNodes = {a, b}
    LastDay = 3
    MaxStatRuns = 2
    Docs = {1, 2, 3}
    SatsInDoc = 2
    ErrCap = 3
CHECK_DEADLOCK FALSE
INVARIANTS
    JobsTypeOK
    NothingSkipped
    PayoutsAddUp
    PartitionsTile
    DeadlockBeforeWrites
    ReplyHasTransport
    DaysTile
PROPERTIES
    FetchEnds
    OldRowsArchived
    OfferedIsProbed
    OffStatsEndKnowingAll
