SPECIFICATION FairSpec
CONSTANTS
    w1 = w1
    w2 = w2
    Worker = {w1}
    InCap = 1
    OutCap = 1
    ChanICap = 1
    ClaimChunk = 1
    SaveChunk = 2
    DropFailures = FALSE
    MaxJobs = 10
PROPERTIES LossIsBounded JobsSettle
