CONSTANTS
    Null = Null
    MaxReports = 2
    LastReport = 1
    MaxClock = 5
    Skews <- MCSkews
    Events <- MCEvents
    Types <- MCTypes
    Settings <- MCSettings

SPECIFICATION Spec

INVARIANT
    IdleIsShown

CHECK_DEADLOCK FALSE
