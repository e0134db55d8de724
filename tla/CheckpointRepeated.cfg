SPECIFICATION Spec
CONSTANTS
    Ids = {q1}
    q1 = q1
    None = None
    Followers = {{}}
    MaxRev = 3
    MaxFails = 1
    MaxDowns = 1
INVARIANT RepeatedSurvives
