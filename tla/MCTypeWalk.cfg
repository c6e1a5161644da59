CONSTANTS
    Scenes <- MCScenes
    Unit = 64
    MaxCount = 2
    MaxText = 2
    MaxSize = 12
    None = None
    Throws = Throws
    Break = Break
SPECIFICATION Spec
INVARIANTS
    GatherExact
    DumpRight
    FieldsRight
    DataShown
PROPERTY
    WalksEnd
CHECK_DEADLOCK FALSE
