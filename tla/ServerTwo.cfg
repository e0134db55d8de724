SPECIFICATION Spec
CONSTANTS
    Ids = {q1, q2}
    Models = {m1, m2}
    None = None
    MaxEvents = 0
    MaxDowns = 1
SYMMETRY Symmetry
VIEW ServerView
INVARIANTS
    ActiveIsScheduled
    InFlightNotSelected
    AckedKept
    OwnEvents
PROPERTIES
    OldestStartsFirst
    ImplementsRecord
CHECK_DEADLOCK FALSE
