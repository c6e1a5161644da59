SPECIFICATION Spec
CONSTANTS
    Words <- MCWords
    Structures <- MCStructures
    MaxPending = 4
INVARIANTS
    EachDeliveredOnce
PROPERTY StopsUnlessCyclic
CHECK_DEADLOCK FALSE
