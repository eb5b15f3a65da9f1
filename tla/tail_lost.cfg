SPECIFICATION Spec
CONSTANTS
    Letters = {"A", "B"}
    MaxLength = 6
    Inputs <- Short
CHECK_DEADLOCK FALSE
INVARIANTS NothingLost
