CONSTANTS
    c1 = c1
    c2 = c2
    w = w
    x = x
    y = y
    Callers = {c1, c2}
    Configs <- SomeConfigs
    MayRefuse = TRUE
    Listeners = {1, 2, 3, 4}
    None = None
    MaxDeserted = 1
SPECIFICATION FairSpec
INVARIANTS
    TypeOK
    RunningIsListening
    OpenIsServed
    WaitGroupCounts
PROPERTIES
    SerialStop
