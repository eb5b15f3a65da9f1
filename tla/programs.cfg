SPECIFICATION ProgramsSpec
CONSTANTS
    MaxUpdates = 3
    MaxCalls = 2
    MaxChanges = 1
    MaxNodesUpdated = 1
    Work = {p, q, r}
    Workers = {w1, w2}
CHECK_DEADLOCK FALSE
INVARIANTS TypesOK FirstClickOnly ChannelsSafe BottomUp CalmIsSafe AllDone
PROPERTIES ComplaintHeard LoopEnds LoopServes AllAsked WaitAnswers
