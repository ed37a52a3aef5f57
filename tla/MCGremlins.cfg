CONSTANTS
    e1 = e1
    e2 = e2
    item = item
    prof = prof
    nick = nick
    Null = Null
    Sources <- MCSources
    Kind <- MCKind
    Key <- MCKey
    State <- MCState
    Names <- MCNames
    MaxInbox = 2
    MaxKills = 1
    MaxLosses = 1

SPECIFICATION Spec

INVARIANTS
    TypeOK
    RetainedIsShown
    ShownIsRetained
    NameIsRetained

CHECK_DEADLOCK FALSE
