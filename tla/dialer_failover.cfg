CONSTANTS
    a = a
    b = b
    p = p
    q = q
    Adapters = {a, b}
    Configs <- Changing
    ModeArgs = {}
    Excludes <- AnyExclude
    Readings <- AnyReading
    Failing = {a, b}
    SoftTicks = 1
    HardTicks = 2
    MaxCurrent = 4
    Dials = {p, q}
    Parts = {}
    None = None
    MaxResets = 0
    MaxErrors = 2
SPECIFICATION FairDialerSpec
INVARIANTS
    SumNeverPositive
PROPERTIES
    FailsOver
