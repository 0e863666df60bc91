CONSTANTS
    a = a
    b = b
    Adapters = {a, b}
    Configs <- EvenConfigs
    ModeArgs = {"adaptive"}
    Excludes <- NoExclude
    Readings <- WarmReadings
    Failing = {a, b}
    SoftTicks = 1
    HardTicks = 2
    MaxCurrent = 4
SPECIFICATION FairSpec
INVARIANTS
    WeightBounds
    FasterNotLighter
    PickHonoursDemotion
PROPERTIES
    NoStarvation
