CONSTANTS
    a = a
    b = b
    p = p
    q = q
    Adapters = {a, b}
    Configs <- Fixed
    ModeArgs = {"static"}
    Excludes <- AnyExclude
    Readings <- AnyReading
    Failing = {a}
    SoftTicks = 1
    HardTicks = 2
    MaxCurrent = 4
    Dials = {p}
    Parts = {q}
    None = None
    MaxResets = 1
    MaxErrors = 3
SPECIFICATION DialerSpec
INVARIANTS
    DialerTypeOK
    ActiveUntilReset
    ActiveAtMostOpen
    ErrorsCoverFails
