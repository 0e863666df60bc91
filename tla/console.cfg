CONSTANTS
    a = a
    b = b
    c = c
    None = None
    Adapters = {a, b, c}
    Configs = {}
    ModeArgs = {"static"}
    Excludes <- AnyExclude
    Readings <- ColdReadings
    Failing = {}
    SoftTicks = 1
    HardTicks = 2
    MaxCurrent = 40
    Refreshes = {1, 2}
    Lists <- SomeLists
    Updates <- SomeUpdates
    Streams = {1, 2}
    Pollers = {1, 2}
    MaxBytes = 3
    MaxMade = 2
    MaxTime = 2
    Wrap = 64
    Requests = {1, 2}
    Goroutines = {3}
    Labels <- SomeLabels
    DefaultBypass <- Defaults
    Texts <- AnyTexts
    Comment <- Hash
    Colons <- SomeColons
    Hosts <- SomeHosts
SPECIFICATION ConsoleSpec
INVARIANTS
    TypeOK
    ZeroSum
    ShareLag
    PickNearMax
    EntriesAsChosen
    RateWithinTraffic
    CountedOnce
    NoDeadlock
    BypassOfNames
    RoundTrip
PROPERTIES
    RequestsEnd
