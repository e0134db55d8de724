SPECIFICATION Spec
CONSTANTS
    Keys = {1, 2, 3, 4, 5, 6}
    Plans <- LongJoinPlans
    PageTokens = 2
    NumPages = 9
    NumSliding = 0
    Window = 0
    CapPages = 3
    StopWidth = 1
INVARIANT NeverStuck
