SPECIFICATION Spec
CONSTANTS
    Plans <- Queries
    MaxQueries = 3
    MaxChildren = 3
    MaxFaults = 2
INVARIANTS
    RepliesInStep
    QueriesRunAsBound
    AnswersAsOneGpu
    KVAtHome
    FailuresPaidFor
PROPERTIES
    QueriesEnd
CHECK_DEADLOCK FALSE
