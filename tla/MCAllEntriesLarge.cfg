SPECIFICATION WalkSpec
CONSTANTS
    LargeMayBeFreed = TRUE
    Heaps <- MCHeaps
    Dumps <- MCDumps
INVARIANTS
    FreedCrtBlocksFound
