SPECIFICATION Spec
CONSTANTS
    Keys = {1, 2, 3, 4, 5, 6}
    Plans <- AllPlans
    PageTokens = 2
    NumPages = 8
    NumSliding = 7
    Window = 2
    CapPages = 2
    StopWidth = 1
INVARIANTS
    ArenaSound
    AnswersInOrder
    NoDocumentLost
    ReadsOwnPrefix
    OneSurvivorPerGroup
    HoldsMatchQueue
    EndsClean
    PlannedPagesFree
    NeverStuck
PROPERTIES
    QueryEnds
