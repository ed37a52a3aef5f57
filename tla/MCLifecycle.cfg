CONSTANTS
    Null = Null
    MaxReports = 2
    LastReport = 1
    MaxClock = 5
    Skews <- MCSkews
    Events <- MCEvents
    Types <- MCTypes
    Settings <- MCSettings

SPECIFICATION Spec

INVARIANTS
    TypeOK
    NotGivenUpEarly

PROPERTIES
    OnlyAges
    SilentSessionsExit

CHECK_DEADLOCK FALSE
