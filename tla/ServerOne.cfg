SPECIFICATION FairSpec
CONSTANTS
    Ids = {q1}
    Models = {m1}
    None = None
    MaxEvents = 2
    MaxDowns = 1
INVARIANTS
    SucceededCountsAnswers
PROPERTIES
    TerminalNeverChanges
    EveryQueryCloses
    CancelEnds
    ClosedJobStops
    StopEnds
CHECK_DEADLOCK FALSE
