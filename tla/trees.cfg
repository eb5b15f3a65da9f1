SPECIFICATION TreesSpec
CONSTANTS
    MaxNodes = 5
    Labels <- AllLabels
    MaxLeaves = 5
    Trees <- Samples
    Letters = {"A", "B", "C"}
    MaxLength = 8
    Inputs <- Short
CHECK_DEADLOCK FALSE
INVARIANTS KeptInOrder HashTells StopsAtNone KeptNodes PathsDiffer ParentPath HashIsShape
PROPERTIES WrapsTwice
