SPECIFICATION Spec
CONSTANTS
    Keys = {1, 2, 3, 4}
    Plans <- PairPlans
    PageTokens = 2
    NumPages = 6
    NumSliding = 0
    Window = 0
    CapPages = 0
    StopWidth = 1
INVARIANT EveryQueryStarts
