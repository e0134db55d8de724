SPECIFICATION Spec
CONSTANTS
    Keys = {1, 2, 3, 9}
    Slots = {1, 2, 3}
    Earlier = 9
    PageTokens = 2
    NumPages = 6
    NumSliding = 0
    Window = 0
    CapPages = 1
    Plans <- AnswerPlans
INVARIANTS
    ContextIsWhole
    TokensLandInOrder
    AnswersWhole
PROPERTIES
    RunEnds
