SPECIFICATION Spec
CONSTANTS
    Docs <- Trees
    MaxActions = 3
    MaxPatches = 1
CHECK_DEADLOCK FALSE
INVARIANTS TypeOK MapFresh ShowsThePage
