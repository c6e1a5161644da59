SPECIFICATION GraphSpec
CONSTANTS
    PointerSize = 2
    NtBlocks = TRUE
    Areas = {TRUE, FALSE}
    Chosen <- MCChosen
    Scenes <- MCScenes
INVARIANTS
    GraphSound
    MarksRight
PROPERTIES
    GraphFinishes
CHECK_DEADLOCK FALSE
