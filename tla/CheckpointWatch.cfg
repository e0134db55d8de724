SPECIFICATION FairSpec
CONSTANTS
    Ids = {q1}
    q1 = q1
    None = None
    Followers = {{"client"}}
    MaxRev = 4
    MaxFails = 0
    MaxDowns = 1
PROPERTY WatchEnds
