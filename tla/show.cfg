SPECIFICATION Spec
CONSTANTS
    Docs <- Trees
    MaxActions = 2
    MaxPatches = 0
CHECK_DEADLOCK FALSE
PROPERTY ShowShows
