SPECIFICATION WorldSpec
SYMMETRY ChecksAlike
CONSTANTS
    Checks = {p1, p2}
    Chat = {c}
    MaxVersion <- LastVersions
    MaxEvents = 3
    MaxLost = 3
    AsUpdaters = {1, 2}
    Prefix = {1, 2}
    PrefixLists <- ListsOfTwo
    MaxListChanges = 2
    MaxAsFailures = 2
    ScanNodes = {1, 2, 3}
    Systems = {1}
    GeoAS <- SystemOf
    Unnamed = {2}
    NoAS = 0
    PageSize = 2
    MaxStamp = 3
    MaxScanEvents = 3
CHECK_DEADLOCK FALSE
INVARIANTS
    EveryoneTold
    AnnouncedOnce
    WorldTypeOK
    StampedIsComplete
    SkipsOnlyTies
