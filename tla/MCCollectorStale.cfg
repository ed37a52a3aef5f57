CONSTANTS
    e1 = e1
    e2 = e2
    item = item
    Null = Null
    Sources <- MCSources
    Kind <- MCKind
    Key <- MCKey
    State <- MCState
    MaxQueued = 3
    MaxDrops = 1
    MaxDeletes = 1
    MaxSaves = 1

SPECIFICATION Spec

INVARIANT
    StatusHasRetained

CHECK_DEADLOCK FALSE
