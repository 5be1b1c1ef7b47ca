SPECIFICATION Spec
CONSTANTS
    MinuteLen = 60
    SecondLen = 1000
    DayMinutes = 1440
    HintLen = 4
    Scale = 2000
    ByteRange = 256
    MaxMs = 2100
    HoursPerDay = 24
    HoursOfActive = {1, 24, 48}
    HoursOfOffers = {1, 24, 48}
    TopSize = 2
    TopASNs = 2
    MaxPorts = 1
    Unknown = "unknown"
    NoAS = 0
    MaxNodes = 3
    FilterN = 2
    HourSecs = 3600
    CountRange = 256
    MaxCountry = 4
    ByteBits = 3
    Bytes = 3
    LocRange = 64
INVARIANTS PingSurvives StatsAgree ChartsTellRows PrefixIsBlock SnapshotsSurvive
