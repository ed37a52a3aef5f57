CONSTANTS
    MaxId = 2
    ConnectTimeout = 1
    KeepAlive = 2
    MaxPublishes = 3
    MaxMessages = 2
    MaxForged = 1
    MaxInFlight = 2

SPECIFICATION Spec

INVARIANTS
    TypeOK
    AckMeansTaken
    AcksFollowHandling
    PingsWhenSilent
    DeliversInOrder

PROPERTY
    WaitsEnd

CHECK_DEADLOCK FALSE
