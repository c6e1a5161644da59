CONSTANTS
    Dump = Dump
    BaseDump = BaseDump
    None = None
    Contents <- MCContents
    Views <- MCViews
    RangeSize = 4
    Application = {1, 2}
SPECIFICATION TestSpec
INVARIANT EndedIsExact
INVARIANT FilterRight
INVARIANT StatisticsTrue
INVARIANT VerdictRight
PROPERTY LoopsEnd
