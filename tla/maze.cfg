SPECIFICATION MCSpec
CONSTANTS
    Size = 5
    Cut = 4
INVARIANTS
    TypeOK
    NoDeadEndLeft
    LeavesTheCore
    PassesBounded
PROPERTIES
    ImplementsDeadEnds
    Terminates
CHECK_DEADLOCK FALSE
