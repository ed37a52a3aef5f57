CONSTANTS
    h1 = h1
    h2 = h2
    n1 = n1
    n2 = n2
    MaxRuns = 2
    Null = Null
    Hooks <- MCHooks
    Namers <- MCNamers
    Strict <- MCStrict
    Workspaces <- MCWorkspaces
    Sessions <- MCSessions
    Key <- MCKey
    EventOf <- MCEventOf
    UnreadKey <- MCUnreadKey
    Squeezed <- MCSqueezed
    Segment <- MCSegment
    DirectoryId <- MCDirectoryId
    CwdHash <- MCCwdHash
    Raw <- MCRaw
    Environments <- MCEnvironments
    Directory = "dir"

SPECIFICATION Spec

INVARIANTS
    TypeOK
    StateAnnounced
    NoStaleOverwrite
    SplitOnlyByOverlap
    SuccessMeansPublished
    PrivateByDefault
    NameReachesSession

PROPERTY
    EveryRunEnds

CHECK_DEADLOCK FALSE
