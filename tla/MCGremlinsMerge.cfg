CONSTANTS
    e1 = e1
    prof = prof
    Null = Null
    Sources <- MCSources
    Kind <- MCKind
    Key <- MCKey
    State <- MCState
    Names <- MCNames
    MaxInbox = 2
    MaxKills = 1
    MaxLosses = 1

SPECIFICATION Spec

INVARIANT
    MergedByWorkspaceAndSession

CHECK_DEADLOCK FALSE
