CONSTANTS
    Commands <- MCCommands
    Readers <- MCReaders
    TypesOf <- MCTypesOf
    UserTypes <- MCUserTypes
    Frames <- MCFrames
    FilesOf <- MCFilesOf
    Percents = {50}
    ByteValues = 2
    MaxWalkers = 2
    MaxRequests = 3
    None = None
SPECIFICATION Spec
INVARIANTS
    CallbacksSafe
    ReadersComplete
    LibraryTypesRight
    VariablesOnce
    ImagesMatch
    DownloadShown
