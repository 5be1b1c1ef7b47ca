SPECIFICATION SharedSpec
CONSTANTS
    Node = {n1, n2, n3, n4}
    ClaimChunk = 2
    Fetchers = {f1, f2}
    Ip = {1, 2}
    CompanyAnswers <- TwoAddresses
    Unknown = unknown
    MaxIpEvents = 1
    MaxDownloads = 3
    MaxOpenFailures = 1
INVARIANTS
    NoPileUp
PROPERTIES
    OvertakenOnce
    NoStarvation
    FetchersCoverAgain
    NewestIsServed
