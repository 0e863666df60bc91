CONSTANTS
    a = a
    b = b
    None = None
    Adapters = {a, b}
    Selections <- TwoOrNone
    Requests = {0, 1, 3, 9}
    MaxParts = 5
    Size = 3
    Probes <- AnyProbe
    Answers = {"partial"}
    Announced = {TRUE}
    MaxRead = 2
SPECIFICATION FairSpec
INVARIANTS
    TypeOK
    DoneIsWhole
    ProgressIsOnDisk
PROPERTIES
    FinishedIsFinal
    CancelInFlight
    ActsAsJob
