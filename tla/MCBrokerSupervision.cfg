CONSTANTS
    Null = Null
    Clients = {c1, c2, c3}
    MaxPosted = 3

SPECIFICATION Spec

INVARIANTS
    TypeOK
    FlagFollowsConnection
    RetryOnlyWhenDown
    NeverStranded
    GremlinsAgree

PROPERTIES
    Recovers
