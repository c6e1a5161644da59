SPECIFICATION ListingSpec
CONSTANT Processes <- MCProcesses
INVARIANTS
    BlocksShown
    BlocksReal
    ListingRight
PROPERTY ReadingEnds
CHECK_DEADLOCK FALSE
