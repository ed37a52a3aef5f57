CONSTANTS
    started = started
    failed = failed
    item = item
    blank = blank
    t1 = t1
    t2 = t2
    Null = Null
    Lines <- MCLines
    Shape <- MCShape
    Type <- MCType
    Thread <- MCThread
    Segment <- MCSegment
    Grace = 1
    MaxLines = 3
    MaxFaults = 2

SPECIFICATION Spec

INVARIANTS
    TypeOK
    ExitTellsTheTruth

PROPERTIES
    PassesOn
    PublishesInOrder
    FinishesStream

CHECK_DEADLOCK FALSE
