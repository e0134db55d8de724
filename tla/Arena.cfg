SPECIFICATION ArenaSpec
CONSTANTS
    a = a
    b = b
    Keys <- TwoKeys
    PageTokens = 2
    NumPages = 5
    NumSliding = 4
    Window = 2
    CapPages = 2
    Lengths = {3, 5}
    ExtraTokens = 1
    MaxKept = 1
    MaxGrown = 1
SYMMETRY Symmetric
VIEW ArenaView
INVARIANTS PagesAccounted RowsAgree
PROPERTY KeptKeysStay
CHECK_DEADLOCK FALSE
