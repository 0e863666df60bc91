CONSTANTS
    c1 = c1
    c2 = c2
    w = w
    x = x
    y = y
    eth = eth
    wifi = wifi
    Callers = {c1, c2}
    Configs <- SomeConfigs
    MayRefuse = FALSE
    Listeners = {1, 2}
    None = None
    MaxDeserted = 0
    User = User
    Usual <- AnyUsual
    SetTurnsOn = TRUE
    Partly = Partly
    Services = {wifi}
    Flaky = {wifi}
SPECIFICATION AppSpec
INVARIANTS
    AppTypeOK
    CanBeUndone
PROPERTIES
    SerialSysProxy
