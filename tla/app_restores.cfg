CONSTANTS
    c1 = c1
    c2 = c2
    w = w
    x = x
    y = y
    eth = eth
    wifi = wifi
    Callers = {c1}
    Configs <- OneConfig
    MayRefuse = FALSE
    Listeners = {1, 2}
    None = None
    MaxDeserted = 0
    User = User
    Usual <- OnlyUnset
    SetTurnsOn = FALSE
    Partly = Partly
    Services = {wifi}
    Flaky = {}
SPECIFICATION AppSpec
PROPERTIES
    DisableRestores
