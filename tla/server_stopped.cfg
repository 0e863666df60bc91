CONSTANTS
    c1 = c1
    c2 = c2
    w = w
    x = x
    y = y
    Callers = {c1, c2}
    Configs <- OneConfig
    MayRefuse = FALSE
    Listeners = {1, 2, 3, 4}
    None = None
    MaxDeserted = 0
SPECIFICATION Spec
INVARIANTS
    StoppedIsClosed
