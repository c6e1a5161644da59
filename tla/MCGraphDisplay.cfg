CONSTANTS
    Nodes = {1, 2, 3, 4}
    None = None
    Displays <- MCDisplays
SPECIFICATION DisplaySpec
INVARIANT FollowsGraph
INVARIANT AllReferencesDisplayed
INVARIANT NothingLostWithinDepth
PROPERTY DisplayEnds
CHECK_DEADLOCK FALSE
