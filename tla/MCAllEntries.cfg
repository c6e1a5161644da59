SPECIFICATION WalkSpec
CONSTANTS
    LargeMayBeFreed = FALSE
    Heaps <- MCHeaps
    Dumps <- MCDumps
INVARIANTS
    CrtBlocksFound
    LiveXorFree
    HeapBlocksShown
    EntriesRight
    ReportedExactly
PROPERTIES
    ImplementsInnermost
