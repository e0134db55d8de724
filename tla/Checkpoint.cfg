SPECIFICATION FairSpec
CONSTANTS
    Ids = {q1}
    q1 = q1
    None = None
    Followers = {{"page"}, {"client"}}
    MaxRev = 3
    MaxFails = 1
    MaxDowns = 1
INVARIANTS
    AckedSurvives
    CleanStopKeepsAll
PROPERTIES
    StateChangesCopied
    PageEnds
    WatchEndsWhileAhead
