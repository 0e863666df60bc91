CONSTANTS
    MaxUp = 2
    MaxDown = 2
SPECIFICATION FairSpec
INVARIANTS
    RelayTypeOK
    Intact
    WholeAnswer
PROPERTIES
    HandlerEnds
    NoCopyLeft
