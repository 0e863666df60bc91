CONSTANTS
    a = a
    b = b
    None = None
    Adapters = {a, b}
    Selections <- OnlyTwo
    Requests = {2}
    MaxParts = 2
    Size = 4
    Probes <- RangeProbe
    Answers = {"partial", "whole"}
    Announced = {TRUE}
    MaxRead = 4
SPECIFICATION Spec
INVARIANTS
    DoneIsWhole
